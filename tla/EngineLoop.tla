----------------------------- MODULE EngineLoop -----------------------------
(***************************************************************************)
(* Continuous batching for one paged text decoder                          *)
(* (crates/app/cli/src/engine_loop.rs).  One engine thread owns the        *)
(* decoder; one writer thread per request submits its turn, and may go     *)
(* away at any moment; deadlines may pass at any moment.                   *)
(*                                                                         *)
(* An iteration of the loop is the steps Sweep, Admit (once per prompt     *)
(* chunk) and Decode, so writers and the clock act between them.           *)
(*                                                                         *)
(* The pool is abstracted to how many positions each sequence ID has       *)
(* slots for: turns share no blocks here, and a prefix hit on one's own    *)
(* freed blocks costs as many free blocks as computing them again          *)
(* (admit_cost counts free hit blocks), so it changes no decision of this  *)
(* loop except how many chunks a resumed prompt needs.                     *)
(***************************************************************************)
EXTENDS Integers, Sequences, FiniteSets, Functions, Lines, SequencesExt, FiniteSetsExt

CONSTANTS
  Request,        \* turns submitted by writers
  PromptTokens,   \* [Request -> tokens of its prompt]
  MaxNew,         \* [Request -> new tokens at which the turn stops at the latest]
  NumBlocks,      \* blocks in the pool
  BlockTokens,    \* positions per block
  MaxNumSeqs,     \* EngineLimits::max_num_seqs
  Pipelines,      \* TextDecoder::pipelines
  Greedy,         \* requests that verify with GPU greedy picks
  MayCancel,      \* requests whose writer may go away
  MayExpire,      \* requests with a deadline that may pass
  MayFail,        \* whether the device may report an error
  None

ASSUME EngineAssumption ==
  /\ IsFiniteSet(Request) /\ None \notin Request
  /\ PromptTokens \in [Request -> Nat \ {0}]
  /\ MaxNew \in [Request -> Nat \ {0}]
  /\ NumBlocks \in Nat \ {0} /\ BlockTokens \in Nat \ {0} /\ MaxNumSeqs \in Nat \ {0}
  /\ Greedy \subseteq Request /\ MayCancel \subseteq Request /\ MayExpire \subseteq Request

VARIABLES
  engine,    \* the Engine struct between steps, a record (see Init)
  phase,     \* "top", "admit" or "decode": where the loop is
  outcome,   \* what became of each turn
  cancel,    \* requests whose Cancel flag is set
  gone,      \* requests whose event receiver is dropped
  expired    \* requests past their deadline

vars == <<engine, phase, outcome, cancel, gone, expired>>

\* "unsent", "live", or how the turn ended: its last event, or "dropped" when
\* the engine let go of it without one because its writer was gone.
Ended == {"done", "deadline", "nofit", "outgrew", "failed", "dropped"}

Init ==
  /\ engine = [waiting    |-> <<>>,     \* VecDeque<Sequence>
               running    |-> <<>>,     \* Vec<Sequence>, admission order
               prefilling |-> None,     \* Option<Prefilling>
               id         |-> [r \in Request |-> 0],   \* Sequence::id
               new        |-> [r \in Request |-> 0],   \* accepted tokens
               queued     |-> {},       \* row IDs of the queued step, if any
               retired    |-> {},       \* <<ID, request>> kept for it
               slots      |-> [i \in {} |-> 0],  \* pool: ID -> positions
               chunked    |-> FALSE]
  /\ phase = "top"
  /\ outcome = [r \in Request |-> "unsent"]
  /\ cancel = {}
  /\ gone = {}
  /\ expired = {}

----------------------------------------------------------------------------
(* The pool as the loop sees it.                                           *)

DivCeil(n) == (n + BlockTokens - 1) \div BlockTokens

\* TextDecoder::free_blocks
FreeBlocks(e) ==
  NumBlocks - SumFunctionOnSet([i \in DOMAIN e.slots |-> DivCeil(e.slots[i])], DOMAIN e.slots)

\* append_cost of one token for each row
StepCost(e, rows) == Cardinality({i \in rows : e.slots[i] % BlockTokens = 0})

\* one more slot for each row
Extend(e, rows) ==
  [e EXCEPT !.slots = [i \in DOMAIN @ |-> IF i \in rows THEN @[i] + 1 ELSE @[i]]]

\* TextDecoder::free
FreeIds(e, ids) == [e EXCEPT !.slots = [i \in DOMAIN @ \ ids |-> @[i]]]

\* A mutated PrefillTokens: a preempted sequence prefills its next input too.
PrefillTokensAll(e, r) == PromptTokens[r] + e.new[r]

\* Sequence::prefill_ids: the prompt, or for a preempted sequence everything
\* before its next input.
PrefillTokens(e, r) ==
  IF e.new[r] > 0 THEN PromptTokens[r] + e.new[r] - 1 ELSE PromptTokens[r]

\* A sequence ID nothing still refers to (next_id only grows; all that is
\* ever compared is equality with an ID in use).
IdsInUse(e) ==
  DOMAIN e.slots \cup e.queued \cup {p[1] : p \in e.retired}
    \cup {e.id[r] : r \in Range(e.waiting) \cup Range(e.running)}
    \cup (IF e.prefilling = None THEN {} ELSE {e.id[e.prefilling]})
FreshId(e) == Min((1 .. Cardinality(IdsInUse(e)) + 1) \ IdsInUse(e))

\* A mutated Release: a row of the queued step is freed at once.
ReleaseAtOnce(e, rs) == FreeIds(e, {e.id[r] : r \in rs})

\* release_sequence for each of `rs`: a row of the queued step keeps its
\* blocks until the step is read back.
Release(e, rs) ==
  LET kept == {r \in rs : e.id[r] \in e.queued}
  IN  FreeIds([e EXCEPT !.retired = @ \cup {<<e.id[r], r>> : r \in kept}],
              {e.id[r] : r \in rs \ kept})

\* A mutated ReleaseRetired: the list is dropped, the blocks are not freed.
ReleaseRetiredLeaking(e) == [e EXCEPT !.retired = {p \in @ : p[1] \in e.queued}]

\* A mutated ReleaseRetired: only while another step is queued.
ReleaseRetiredBehindStep(e) ==
  IF e.queued = {} THEN e
  ELSE FreeIds([e EXCEPT !.retired = {p \in @ : p[1] \in e.queued}],
               {p[1] : p \in e.retired} \ e.queued)

\* release_retired
ReleaseRetired(e) ==
  FreeIds([e EXCEPT !.retired = {p \in @ : p[1] \in e.queued}],
          {p[1] : p \in e.retired} \ e.queued)

\* What retain leaves of a line when `rs` go.
Without(seq, rs) == Keep(seq, Request \ rs)

\* A mutated Requeue: back to the end of the queue.
RequeueLast(e, r) ==
  LET e1 == Release(e, {r})
  IN  [e1 EXCEPT !.waiting = Append(@, r), !.id[r] = FreshId(e1)]

\* Back to the front of the queue, under a fresh ID.
Requeue(e, r) ==
  LET e1 == Release(e, {r})
  IN  [e1 EXCEPT !.waiting = <<r>> \o @, !.id[r] = FreshId(e1)]

\* Sequence::fail and the last send: the turns of `rs` end as `how`, unless
\* the writer is gone and the event reaches nobody.
End(o, rs, how) ==
  [r \in Request |-> IF r \notin rs THEN o[r] ELSE IF r \in gone THEN "dropped" ELSE how]

----------------------------------------------------------------------------
(* Tokens.                                                                 *)

\* A mutated MustStop: one token past the limit.
MustStopLate(e, rs) == {r \in rs : e.new[r] + 1 > MaxNew[r]}

\* Turns that reach their token limit with the next token.
MustStop(e, rs) == {r \in rs : e.new[r] + 1 >= MaxNew[r]}

\* A mutated Accept: a turn that stopped stays in the batch.
AcceptKeeping(e, rs, stops) ==
  Release([e EXCEPT !.new = [r \in Request |-> IF r \in rs THEN @[r] + 1 ELSE @[r]]],
          rs \cap (stops \cup gone))

\* accepted for each of `rs`: the turn stops (`stops`), its writer is gone, or
\* it keeps running.
Accept(e, rs, stops) ==
  LET leaving == rs \cap (stops \cup gone)
      e1 == [e EXCEPT !.new = [r \in Request |-> IF r \in rs THEN @[r] + 1 ELSE @[r]],
                      !.running = Without(@, leaving)]
  IN  Release(e1, leaving)

AcceptOutcome(o, rs, stops, fails) ==
  End(End(o, stops \ fails, "done"), fails \cup (rs \cap gone), "failed")

\* How a token turns out for each of `rs`: which turns stop, and which of
\* those because the pick or the final output was an error.
Verdicts(e, rs) ==
  {v \in [stops : SUBSET rs, fails : SUBSET rs] :
     /\ MustStop(e, rs) \subseteq v.stops
     /\ v.fails \subseteq v.stops
     /\ v.fails = {} \/ MayFail}

\* A mutated Preempt: a lone sequence that cannot grow is queued again.
PreemptLone(e) ==
  IF e.prefilling # None
  THEN Requeue([e EXCEPT !.prefilling = None], e.prefilling)
  ELSE Requeue([e EXCEPT !.running = Front(@)], Last(e.running))

\* preempt
Preempt(e) ==
  IF e.prefilling # None
  THEN Requeue([e EXCEPT !.prefilling = None], e.prefilling)
  ELSE LET r == Last(e.running)
           e1 == [e EXCEPT !.running = Front(@)]
       IN  IF e1.running = <<>> THEN Release(e1, {r}) ELSE Requeue(e1, r)

PreemptOutcome(e, o) ==
  IF e.prefilling = None /\ Len(e.running) = 1 THEN End(o, {Last(e.running)}, "outgrew") ELSE o

----------------------------------------------------------------------------
(* The loop.                                                               *)

\* accept of a submission, between iterations.
Submit(r) ==
  /\ phase = "top"
  /\ outcome[r] = "unsent"
  /\ engine' = [engine EXCEPT !.waiting = Append(@, r), !.id[r] = FreshId(engine)]
  /\ outcome' = [outcome EXCEPT ![r] = "live"]
  /\ UNCHANGED <<phase, cancel, gone, expired>>

Idle(e) == e.running = <<>> /\ e.waiting = <<>> /\ e.prefilling = None /\ e.queued = {}

\* A mutated Drained: retired rows stay while an idle pool admits.
DrainedLater(e) == e

\* A queued step whose turns have all ended is read back before admitting.
Drained(e) ==
  IF e.running = <<>> /\ e.queued # {} THEN ReleaseRetired([e EXCEPT !.queued = {}]) ELSE e

\* The start of step: drop waiters and a partly prefilled prompt that were
\* cancelled or expired, then drain a queued step nobody runs any more.
Sweep ==
  /\ phase = "top"
  /\ ~Idle(engine)
  /\ LET held == Range(engine.waiting)
           \cup (IF engine.prefilling = None THEN {} ELSE {engine.prefilling})
         left == held \cap (cancel \cup expired)
         e1 == [engine EXCEPT !.waiting = Without(@, left), !.chunked = FALSE,
                              !.prefilling = IF @ \in left THEN None ELSE @]
         e2 == IF engine.prefilling \in left THEN Release(e1, {engine.prefilling}) ELSE e1
     IN  /\ engine' = Drained(e2)
         /\ outcome' = End(End(outcome, left \cap expired, "deadline"), left \cap cancel, "dropped")
  /\ phase' = "admit"
  /\ UNCHANGED <<cancel, gone, expired>>

\* A mutated CanAdmitNext: the batch limit counts waiters.
CanAdmitNextCounting(e) ==
  /\ Len(e.running) + Len(e.waiting) <= MaxNumSeqs
  /\ e.waiting # <<>>
  /\ \/ e.running = <<>>
     \/ DivCeil(PrefillTokens(e, Head(e.waiting))) + Len(e.running) <= FreeBlocks(e)

\* next_admission: the head of the queue, if the batch and the pool take it.
CanAdmitNext(e) ==
  /\ Len(e.running) < MaxNumSeqs
  /\ e.waiting # <<>>
  /\ \/ e.running = <<>>
     \/ DivCeil(PrefillTokens(e, Head(e.waiting))) + Len(e.running) <= FreeBlocks(e)

\* The engine with the prompt to prefill next in `prefilling`.
WithPrefilling(e) ==
  IF e.prefilling # None THEN e
  ELSE [e EXCEPT !.prefilling = Head(e.waiting), !.waiting = Tail(@)]

\* next_admission when the prompt at the head cannot be costed.
CostFails ==
  /\ phase = "admit"
  /\ MayFail
  /\ engine.prefilling = None
  /\ Len(engine.running) < MaxNumSeqs
  /\ engine.waiting # <<>>
  /\ engine' = Release([engine EXCEPT !.waiting = Tail(@)], {Head(engine.waiting)})
  /\ outcome' = End(outcome, {Head(engine.waiting)}, "failed")
  /\ UNCHANGED <<phase, cancel, gone, expired>>

\* admit returns: nothing to prefill, or chunk_budget says to wait.  The
\* clock decides whether a later chunk of the same iteration still fits.
AdmitEnds ==
  /\ phase = "admit"
  /\ \/ /\ engine.prefilling = None
        /\ ~CanAdmitNext(engine)
        /\ UNCHANGED engine
     \/ /\ engine.prefilling # None \/ CanAdmitNext(engine)
        /\ engine.running # <<>>
        /\ FreeBlocks(engine) <= Len(engine.running) \/ engine.chunked
        /\ engine' = WithPrefilling(engine)
  /\ phase' = "decode"
  /\ UNCHANGED <<outcome, cancel, gone, expired>>

\* chunk_end of a chunk of `blocks` blocks, or of a whole prompt.
ChunkEnd(start, len, blocks) ==
  IF start + blocks * BlockTokens >= len THEN len
  ELSE ((start + blocks * BlockTokens) \div BlockTokens) * BlockTokens

\* One turn of admit's loop that runs a chunk.
AdmitChunk ==
  /\ phase = "admit"
  /\ engine.prefilling # None \/ CanAdmitNext(engine)
  /\ LET e == WithPrefilling(engine)
         r == e.prefilling
         i == e.id[r]
         len == PrefillTokens(e, r)
         done == IF i \in DOMAIN e.slots THEN e.slots[i] ELSE 0
         unlimited == e.running = <<>>
         taken == [e EXCEPT !.prefilling = None]
     IN  /\ unlimited \/ FreeBlocks(engine) > Len(e.running)
         /\ \E blocks \in IF unlimited THEN {DivCeil(len)} ELSE 1 .. DivCeil(len) :
              LET end == ChunkEnd(done, len, blocks)
                  fits == DivCeil(end) - DivCeil(done) <= FreeBlocks(e)
                  e1 == [e EXCEPT !.slots = [j \in DOMAIN @ \cup {i} |->
                                               IF j = i THEN end ELSE @[j]],
                                  !.chunked = @ \/ ~unlimited]
                  e2 == [e1 EXCEPT !.prefilling = None,
                                   !.running = IF r \in gone /\ e.new[r] = 0 THEN @ ELSE Append(@, r)]
              IN  \/ \* OutOfBlocks beside decodes: wait for them
                     /\ ~fits /\ ~unlimited
                     /\ engine' = Requeue(taken, r)
                     /\ phase' = "decode"
                     /\ UNCHANGED outcome
                  \/ \* OutOfBlocks in an idle pool
                     /\ ~fits /\ unlimited
                     /\ engine' = Release(taken, {r})
                     /\ outcome' = End(outcome, {r}, "nofit")
                     /\ UNCHANGED phase
                  \/ \* the forward failed
                     /\ MayFail
                     /\ engine' = Release(taken, {r})
                     /\ outcome' = End(outcome, {r}, "failed")
                     /\ UNCHANGED phase
                  \/ \* the prompt is not finished
                     /\ fits /\ end < len
                     /\ engine' = e1
                     /\ phase' = "decode"
                     /\ UNCHANGED outcome
                  \/ \* prefilled, resumed: its next token was sent before
                     /\ fits /\ end = len /\ e.new[r] > 0
                     /\ engine' = e2
                     /\ UNCHANGED <<phase, outcome>>
                  \/ \* prefilled: its writer is gone
                     /\ fits /\ end = len /\ e.new[r] = 0 /\ r \in gone
                     /\ engine' = Release(e2, {r})
                     /\ outcome' = End(outcome, {r}, "dropped")
                     /\ UNCHANGED phase
                  \/ \* prefilled: pick and accept the first token
                     /\ fits /\ end = len /\ e.new[r] = 0 /\ r \notin gone
                     /\ \E v \in Verdicts(e, {r}) :
                          /\ engine' = Accept(e2, {r}, v.stops)
                          /\ outcome' = AcceptOutcome(outcome, {r}, v.stops, v.fails)
                     /\ UNCHANGED phase
  /\ UNCHANGED <<cancel, gone, expired>>

\* decode, up to the choice of path: running sequences that were cancelled or
\* expired leave.
Filtered(e) ==
  LET left == Range(e.running) \cap (cancel \cup expired)
  IN  Release([e EXCEPT !.running = Without(@, left)], left)
FilteredOutcome(e) ==
  LET left == Range(e.running) \cap (cancel \cup expired)
  IN  End(End(outcome, left \cap expired, "deadline"), left \cap cancel, "dropped")

Rows(e) == {e.id[r] : r \in Range(e.running)}

\* settle: read back `step` and accept the pick of each row still running.
Settle(e, o, step) ==
  LET rs == {r \in Range(e.running) : e.id[r] \in step}
  IN  \/ \E v \in Verdicts(e, rs) :
           /\ engine' = ReleaseRetired(Accept(e, rs, v.stops))
           /\ outcome' = AcceptOutcome(o, rs, v.stops, v.fails)
      \/ \* the readback failed
         /\ MayFail
         /\ engine' = ReleaseRetired(Release([e EXCEPT !.running = Without(@, rs)], rs))
         /\ outcome' = End(o, rs, "failed")

\* Every running turn fails with the step.
FailAll(e, o) ==
  /\ MayFail
  /\ engine' = Release([e EXCEPT !.running = <<>>], Range(e.running))
  /\ outcome' = End(o, Range(e.running), "failed")

\* decode_pipelined: queue the next step before reading back the queued one.
DecodePipelined(e, o) ==
  LET previous == e.queued
      rows == Rows(e)
      room == StepCost(e, rows) <= FreeBlocks(e)
      next == IF room THEN [Extend(e, rows) EXCEPT !.queued = rows]
              ELSE [e EXCEPT !.queued = {}]
  IN  \/ /\ previous # {}
         /\ Settle(next, o, previous)
      \/ /\ previous = {} /\ room
         /\ engine' = ReleaseRetired(next)
         /\ outcome' = o
      \/ /\ previous = {} /\ ~room
         /\ engine' = ReleaseRetired(Preempt(next))
         /\ outcome' = PreemptOutcome(next, o)
      \/ \* the queueing failed: finish the previous step, then give up
         FailAll(ReleaseRetired([e EXCEPT !.queued = {}]), o)

\* decode_now: one synchronous step
DecodeNow(e, o) ==
  LET rows == Rows(e)
      room == StepCost(e, rows) <= FreeBlocks(e)
      rs == Range(e.running)
  IN  \/ /\ room
         /\ \E v \in Verdicts(e, rs) :
              /\ engine' = Accept(Extend(e, rows), rs, v.stops)
              /\ outcome' = AcceptOutcome(o, rs, v.stops, v.fails)
      \/ /\ ~room
         /\ engine' = Preempt(e)
         /\ outcome' = PreemptOutcome(e, o)
      \/ FailAll(e, o)

\* What Decode does with the engine and the outcomes after the filter.
DecodeRunning(e, o) ==
  LET pipelined == Pipelines /\ Range(e.running) \subseteq Greedy
  IN  \/ /\ e.running = <<>>
         /\ engine' = ReleaseRetired([e EXCEPT !.queued = {}])
         /\ outcome' = o
      \/ e.running # <<>> /\ pipelined /\ DecodePipelined(e, o)
      \/ e.running # <<>> /\ ~pipelined /\ e.queued # {}
           /\ Settle([e EXCEPT !.queued = {}], o, e.queued)
      \/ e.running # <<>> /\ ~pipelined /\ e.queued = {} /\ DecodeNow(e, o)

Decode ==
  /\ phase = "decode"
  /\ \E e \in {Filtered(engine)}, o \in {FilteredOutcome(engine)} : DecodeRunning(e, o)
  /\ phase' = "top"
  /\ UNCHANGED <<cancel, gone, expired>>

----------------------------------------------------------------------------
(* Writers and the clock.                                                  *)

\* WriterEvents::drop sets the flag, then drops the receiver.
Cancel(r) ==
  /\ r \in MayCancel \ cancel
  /\ outcome[r] = "live"
  /\ cancel' = cancel \cup {r}
  /\ UNCHANGED <<engine, phase, outcome, gone, expired>>

DropEvents(r) ==
  /\ r \in cancel \ gone
  /\ outcome[r] = "live"
  /\ gone' = gone \cup {r}
  /\ UNCHANGED <<engine, phase, outcome, cancel, expired>>

Expire(r) ==
  /\ r \in MayExpire \ expired
  /\ outcome[r] = "live"
  /\ expired' = expired \cup {r}
  /\ UNCHANGED <<engine, phase, outcome, cancel, gone>>

EngineStep == Sweep \/ CostFails \/ AdmitEnds \/ AdmitChunk \/ Decode

Next ==
  \/ EngineStep
  \/ \E r \in Request : Submit(r) \/ Cancel(r) \/ DropEvents(r) \/ Expire(r)

Spec == Init /\ [][Next]_vars

\* The engine thread keeps iterating while it has work.
FairSpec == Spec /\ WF_vars(EngineStep)

----------------------------------------------------------------------------
(* Properties.                                                             *)

Ids == 1 .. 4 * Cardinality(Request)

TypeOK ==
  /\ engine.waiting \in Seq(Request) /\ engine.running \in Seq(Request)
  /\ engine.prefilling \in Request \cup {None}
  /\ engine.id \in [Request -> Ids \cup {0}]
  /\ \A r \in Request : engine.new[r] \in 0 .. MaxNew[r]
  /\ engine.queued \subseteq Ids
  /\ engine.retired \subseteq Ids \X Request
  /\ DOMAIN engine.slots \subseteq Ids
  /\ \A i \in DOMAIN engine.slots : engine.slots[i] \in 1 .. NumBlocks * BlockTokens
  /\ engine.chunked \in BOOLEAN
  /\ phase \in {"top", "admit", "decode"}
  /\ outcome \in [Request -> {"unsent", "live"} \cup Ended]
  /\ cancel \subseteq MayCancel /\ gone \subseteq cancel /\ expired \subseteq MayExpire

\* The turns the engine holds, oldest admission first.
Prefillings == IF engine.prefilling = None THEN <<>> ELSE <<engine.prefilling>>
Line == engine.running \o Prefillings \o engine.waiting

\* A live turn is held in exactly one place, and an ended one in none: across
\* preemption, requeueing, cancellation and failures the loop neither loses a
\* Sequence nor keeps one whose last event was sent.
HeldOnce ==
  /\ TypeOK
  /\ Len(Line) = Cardinality(Range(Line))
  /\ Range(Line) = {r \in Request : outcome[r] = "live"}

\* The rows of the queued step keep their blocks until its readback, whatever
\* became of their turns meanwhile ("Retired rows still owned by a queued
\* step").
QueuedRowsKeepBlocks ==
  /\ engine.queued \subseteq DOMAIN engine.slots
  /\ {p[1] : p \in engine.retired} \subseteq engine.queued

\* Every ID with blocks has exactly one owner that will free it: a running
\* turn, the partly prefilled one, or the retired list.  So nothing leaks, and
\* no ID is freed while another turn runs under it.
BlocksHaveOneOwner ==
  \A i \in DOMAIN engine.slots :
    Cardinality({r \in Range(engine.running \o Prefillings) : engine.id[r] = i}
                  \cup {p \in engine.retired : p[1] = i}) = 1

\* A running turn has slots for exactly the tokens before its next input, plus
\* that input's own once a step with it is queued: a preempted turn that is
\* prefilled again resumes where it was, and a step queued under an older ID
\* is never read back into it.
SlotsMatchContext ==
  \A r \in Range(engine.running) :
    /\ engine.id[r] \in DOMAIN engine.slots
    /\ engine.slots[engine.id[r]] =
         PromptTokens[r] + engine.new[r] - (IF engine.id[r] \in engine.queued THEN 0 ELSE 1)

\* Across queued steps, retirement, preemption and resumption the pool's blocks
\* follow the turns: held until readback, by one owner, for its own tokens.
BlocksFollowTurns == QueuedRowsKeepBlocks /\ BlocksHaveOneOwner /\ SlotsMatchContext

\* A step that fails a turn for lack of blocks does so only when the turn
\* alone needs more than the whole pool ("the prompt does not fit the KV
\* pool", "the sequence outgrew the KV pool"): never because retired rows or
\* other turns held blocks at that moment.
RefusedOnlyIfTooBig ==
  [][\A r \in Request :
       /\ outcome[r] # "nofit" /\ outcome'[r] = "nofit" =>
            DivCeil(PrefillTokens(engine, r)) > NumBlocks
       /\ outcome[r] # "outgrew" /\ outcome'[r] = "outgrew" =>
            DivCeil(PromptTokens[r] + engine.new[r]) > NumBlocks]_vars

\* First come, first served survives preemption: no step changes the relative
\* order of two turns that are held before and after it.
OrderKept ==
  [][\A a, b \in Range(Line) \cap Range(Line)' : Before(Line, a, b) => Before(Line', a, b)]_vars

\* WriterEvents::drop waits for the cleanup sender; the engine still holds a
\* sender of r's while it holds its Sequence or a retired row of its.
CleanupHeld(r) == r \in Range(Line) \/ \E p \in engine.retired : p[2] = r

\* A writer that leaves gets its acknowledgment, in every phase its turn may
\* be in, and so does the writer of a turn that ended.
WritersReleased ==
  \A r \in Request : (r \in cancel \/ outcome[r] \in Ended) ~> ~CleanupHeld(r)

\* A turn that runs alone is not preempted, however small the pool ("A lone
\* sequence that cannot grow fails"): it would find the same pool when it is
\* admitted again.
LoneTurnKeepsItsBlocks ==
  [][\A r \in Request :
       engine.running = <<r>> /\ engine.prefilling = None => r \notin Range(engine'.waiting)]_vars

\* Every submitted turn ends, whatever the others do.
EveryTurnEnds == \A r \in Request : outcome[r] = "live" ~> outcome[r] \in Ended
=============================================================================
