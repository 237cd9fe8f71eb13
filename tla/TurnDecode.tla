----------------------------- MODULE TurnDecode -----------------------------
(***************************************************************************)
(* The decode loop of a serial chat turn (generate_with_deadline of        *)
(* crates/app/cli/src/chat_generation.rs): the device picks a token and    *)
(* runs the next step on it before the host has settled it, drafts copied  *)
(* from the turn's own text are verified several rows at a time, and K/V   *)
(* computed for tokens the turn did not take is cut off again.             *)
(*                                                                         *)
(* Logits are named by the tokens they follow, so a token picked from the  *)
(* wrong row shows.  The random stream is a count of draws.                *)
(***************************************************************************)
EXTENDS Integers, Sequences, SequencesExt, FiniteSetsExt

CONSTANTS
  Vocabulary,
  EndTurn,          \* the stop token of the vocabulary
  Limit,            \* TurnStart::max_tokens
  Prompts,          \* prompts of a turn
  Picking,          \* ways it picks: "rows" reads every row, "greedy" and "sampled" run ahead
  MinNgram, MaxNgram,
  MaxDraft,         \* MAX_DRAFT_TOKENS
  MayClose          \* whether a grammar may complete the output at a visible token

ASSUME DecodeAssumption ==
  /\ EndTurn \in Vocabulary
  /\ Limit \in Nat \ {0} /\ MayClose \in BOOLEAN
  /\ MinNgram \in 1 .. MaxNgram /\ {MaxNgram, MaxDraft} \subseteq Nat
  /\ Prompts \subseteq Seq(Vocabulary)
  /\ Picking \subseteq {"rows", "greedy", "sampled"}

VARIABLES
  asked,      \* the turn: [prompt, picking, speculating]
  kv,         \* the tokens whose K/V the executor holds
  pending,    \* the step queued on the device: [row, token, draw], or NoStep
  row,        \* what the logits on the host follow
  generated,  \* TurnLoop::generated
  picked,     \* the row and the draw the last token was settled with
  draws,      \* draws committed
  verify,     \* a verify: [draft, base, index]; index 0 when there is none
  passes,     \* iterations of the loop
  pc          \* "pick", "speculate", "verify", "queue", "stop", "failed"

decodeVars == <<asked, kv, pending, row, generated, picked, draws, verify, passes, pc>>

NoStep == [row |-> <<>>, token |-> EndTurn, draw |-> 0]
NoVerify == [draft |-> <<>>, base |-> 0, index |-> 0]

Context == asked.prompt \o generated

DecodeInit ==
  /\ asked \in [prompt : Prompts, picking : Picking, speculating : BOOLEAN]
  /\ kv = asked.prompt
  /\ row = asked.prompt
  /\ pending = NoStep
  /\ generated = <<>>
  /\ picked = [row |-> <<>>, draw |-> 0]
  /\ draws = 0
  /\ verify = NoVerify
  /\ passes = 0
  /\ pc = "pick"

\* Whether the turn ends with token `t`: TurnLoop::accept of it as the last of `tokens`.
ReplyEnds(t, tokens) ==
  {t = EndTurn \/ closed \/ Len(tokens) >= Limit : closed \in IF MayClose THEN BOOLEAN ELSE {FALSE}}

\* The device's pick of what follows `tokens`, with the variate `ahead` draws
\* past the next uncommitted one.
Steps(tokens, ahead) == [row : {tokens}, token : Vocabulary, draw : {draws + ahead + 1}]

Take(t, logits, draw) ==
  /\ generated' = Append(generated, t)
  /\ picked' = [row |-> logits, draw |-> draw]
  /\ draws' = draws + 1

\* A mutated MayRunAhead: a step is queued behind the last token too.
MayRunAheadAlways == TRUE

\* Another step is queued unless the one read back is the turn's last.
MayRunAhead == Len(generated) + 1 < Limit

\* decode_picks_after: the step after `pending`, on the token the device picked.
RunAhead(next) ==
  IF MayRunAhead THEN next \in Steps(Append(kv, pending.token), 1) ELSE next = NoStep

\* What is left of the queued step when the host settles `t`: nothing if it ran
\* on another token, and a stop token's K/V is dropped.
KvAfter(t, next, ends) ==
  IF next = NoStep \/ t # pending.token \/ (t = EndTurn /\ ends) THEN kv ELSE next.row

\* A mutated KeptStep: the queued step outlives the token it was built on.
KeptStepAnyway(t, next) == next

KeptStep(t, next) == IF t = pending.token THEN next ELSE NoStep

\* TurnLoop::settle of `pending`: the device's own pick when it is certain,
\* else the host picks from the same row with its next draw.
SettlePicks ==
  {<<pending.token, pending.draw>>}
    \cup IF asked.picking = "sampled" THEN Vocabulary \X {draws + 1} ELSE {}

SettlePending ==
  /\ pc = "pick" /\ pending # NoStep
  /\ \E next \in {NoStep} \cup UNION {Steps(Append(kv, pending.token), a) : a \in 0 .. 1},
        pick \in SettlePicks :
       /\ RunAhead(next)
       /\ Take(pick[1], pending.row, pick[2])
       /\ \E ends \in ReplyEnds(pick[1], generated') :
            /\ kv' = KvAfter(pick[1], next, ends)
            /\ pending' = KeptStep(pick[1], next)
            /\ pc' = IF ends THEN "stop" ELSE "speculate"
  /\ UNCHANGED <<asked, row, verify, passes>>

\* TurnLoop::pick from the logits the host holds.
PickFromRow ==
  /\ pc = "pick" /\ pending = NoStep
  /\ \E t \in Vocabulary :
       /\ Take(t, row, draws + 1)
       /\ \E ends \in ReplyEnds(t, generated') : pc' = IF ends THEN "stop" ELSE "speculate"
  /\ UNCHANGED <<asked, kv, pending, row, verify, passes>>

\* PromptLookup::propose: what followed the newest earlier occurrence of the
\* longest suffix that occurs earlier.
Propose(history, limit) ==
  LET len == Len(history)
      starts(n) == {s \in 1 .. len - n :
                      SubSeq(history, s, s + n - 1) = SubSeq(history, len - n + 1, len)}
      lengths == {n \in MinNgram .. MaxNgram : n < len /\ starts(n) # {}}
      from == Max(starts(Max(lengths))) + Max(lengths)
  IN  IF limit = 0 \/ lengths = {} THEN <<>>
      ELSE SubSeq(history, from, Min({from + limit - 1, len}))

\* Drafts the adaptive length may ask for, each leaving room for one more token.
DraftLimits == 0 .. Min({MaxDraft, Limit - Len(generated) - 1})

NothingToVerify ==
  /\ pc = "speculate"
  /\ \/ ~asked.speculating
     \/ \E limit \in DraftLimits : Propose(Context, limit) = <<>>
  /\ pc' = "queue"
  /\ UNCHANGED <<asked, kv, pending, row, generated, picked, draws, verify, passes>>

\* The queued step appended the last token, which the verify scores again.
Discarded == IF pending = NoStep THEN kv ELSE Front(kv)

\* verify: the last token and the draft are appended in one forward.
StartVerify ==
  /\ pc = "speculate" /\ asked.speculating
  /\ \E limit \in DraftLimits :
       LET draft == Propose(Context, limit)
       IN  /\ draft # <<>>
           /\ kv' = Discarded \o <<Last(generated)>> \o draft
           /\ verify' = [draft |-> draft, base |-> Len(Discarded), index |-> 1]
  /\ pending' = NoStep
  /\ pc' = "verify"
  /\ UNCHANGED <<asked, row, generated, picked, draws, passes>>

\* A mutated RollBack: the token that left the draft counts as cached.
RollBackLate == SubSeq(kv, 1, verify.base + verify.index + 1)

\* truncate, to the positions whose tokens the turn took
RollBack == SubSeq(kv, 1, verify.base + verify.index)

\* accept_and_roll_back, a row at a time: up to the first token that leaves the
\* draft or ends the turn, or the one after the draft.
VerifyRow ==
  /\ pc = "verify"
  /\ \E t \in Vocabulary :
       /\ Take(t, SubSeq(kv, 1, verify.base + verify.index), draws + 1)
       /\ \E ends \in ReplyEnds(t, generated') :
            IF ~ends /\ verify.index <= Len(verify.draft) /\ verify.draft[verify.index] = t
            THEN /\ verify' = [verify EXCEPT !.index = @ + 1]
                 /\ UNCHANGED <<kv, pc>>
            ELSE /\ kv' = RollBack
                 /\ verify' = NoVerify
                 /\ pc' = IF ends THEN "stop" ELSE "speculate"
  /\ UNCHANGED <<asked, pending, row, passes>>

Requeued == asked.picking # "rows" /\ pending = NoStep

\* The end of an iteration: a step is queued if none is, or the next row read.
QueueNextStep ==
  /\ pc = "queue"
  /\ IF Requeued
     THEN /\ kv' = Append(kv, Last(generated))
          /\ pending' \in Steps(kv', 0)
          /\ UNCHANGED row
     ELSE IF asked.picking = "rows"
     THEN /\ kv' = Append(kv, Last(generated))
          /\ row' = kv'
          /\ UNCHANGED pending
     ELSE UNCHANGED <<kv, pending, row>>
  /\ passes' = passes + 1
  /\ pc' = IF passes' = Limit THEN "stop" ELSE "pick"
  /\ UNCHANGED <<asked, generated, picked, draws, verify>>

\* GenerationDeadline::check fails, or the client's channel is closed.
FailTurn ==
  /\ pc \in {"pick", "speculate", "queue"}
  /\ pc' = "failed"
  /\ UNCHANGED <<asked, kv, pending, row, generated, picked, draws, verify, passes>>

DecodeNext ==
  SettlePending \/ PickFromRow \/ NothingToVerify \/ StartVerify \/ VerifyRow \/ QueueNextStep \/ FailTurn

DecodeSpec == DecodeInit /\ [][DecodeNext]_decodeVars

----------------------------------------------------------------------------
(* Properties.                                                             *)

\* No forward runs on the turn's last possible token: a request that fills the
\* context never asks for a position beyond it, which would fail the turn.
DecodeTypeOK ==
  /\ Len(generated) <= Limit /\ Range(generated) \subseteq Vocabulary
  /\ Len(kv) < Len(asked.prompt) + Limit
  /\ pending # NoStep /\ pc # "stop" => pending.row = kv
  /\ draws = Len(generated)
  /\ pc \in {"pick", "speculate", "verify", "queue", "stop", "failed"}

\* The K/V a finished turn leaves to the prefix cache is that of its own
\* tokens: every one but the last, which no step needed, and that one only if it
\* closed a grammar as visible text while a step was queued on it.
KvIsTheTurns ==
  /\ DecodeTypeOK
  /\ pc = "stop" =>
       \/ kv = asked.prompt \o Front(generated)
       \/ MayClose /\ Last(generated) # EndTurn /\ kv = Context

\* Running ahead, drafting and rolling back never show: each token is picked
\* from the logits after the prompt and the tokens before it with its own
\* draw, and the turn ends with the token plain decoding would end it with.
Plain == INSTANCE PlainDecode WITH
  prompt <- asked.prompt, out <- generated, from <- picked,
  ended <- IF pc \in {"stop", "failed"} THEN pc ELSE "no"

ImplementsPlain == Plain!PlainSpec
=============================================================================
