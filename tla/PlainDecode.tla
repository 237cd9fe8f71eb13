---------------------------- MODULE PlainDecode ----------------------------
(***************************************************************************)
(* What decoding a turn must amount to, whatever is queued, drafted or     *)
(* rolled back on the way: one token at a time, each picked from the       *)
(* logits after the prompt and the tokens before it, with the sampler's    *)
(* next draw.  TurnDecode implements it.                                   *)
(***************************************************************************)
EXTENDS Naturals, Sequences

CONSTANTS Vocabulary, EndTurn, Limit, MayClose

VARIABLES
  prompt,
  out,    \* the tokens so far
  from,   \* [row, draw]: the context and the draw the last one was picked with
  ended   \* "no", "stop" or "failed"

PlainInit == out = <<>> /\ from = [row |-> <<>>, draw |-> 0] /\ ended = "no"

PlainPick(t) ==
  /\ ended = "no"
  /\ from' = [row |-> prompt \o out, draw |-> Len(out) + 1]
  /\ out' = Append(out, t)
  /\ \E closed \in IF MayClose THEN BOOLEAN ELSE {FALSE} :
       ended' = IF t = EndTurn \/ closed \/ Len(out') = Limit THEN "stop" ELSE "no"
  /\ UNCHANGED prompt

\* The deadline passes or the client is gone.
PlainFail == ended = "no" /\ ended' = "failed" /\ UNCHANGED <<prompt, out, from>>

PlainSpec ==
  PlainInit /\ [][PlainFail \/ \E t \in Vocabulary : PlainPick(t)]_<<prompt, out, from, ended>>
=============================================================================
