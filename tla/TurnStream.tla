----------------------------- MODULE TurnStream -----------------------------
(***************************************************************************)
(* An assistant turn streamed while it is generated (crates/core/          *)
(* chat-format/src/stream.rs), against the parse of the whole turn         *)
(* (turn.rs, tools/json_in_tags.rs).                                       *)
(*                                                                         *)
(* Text is a sequence of letters: "<", a blank, "x" for any other text,    *)
(* and the second letters of the two-letter markers, which mean nothing    *)
(* but behind a "<".  A call is its opening marker, a JSON value "x" and   *)
(* its closing marker; another value stands for every error of a call.     *)
(***************************************************************************)
EXTENDS Naturals, Sequences, FiniteSetsExt, SequencesExt

CONSTANTS
  Formats,    \* the TurnFormats: [calls, reasoning : BOOLEAN]
  MaxText     \* bound: letters of a turn

ThinkOpen == <<"<", "t">>        \* <think>
ThinkClose == <<"<", "/">>       \* </think>
CallOpen == <<"<", "c">>    \* <tool_call>
CallEnd == <<"<", "e">>     \* </tool_call>

ASSUME StreamAssumption == \A f \in Formats : f.calls \in BOOLEAN /\ f.reasoning \in BOOLEAN

VARIABLES
  format,
  thinking,        \* enable_thinking
  raw,
  reasoningSent,
  textSent,
  stream           \* "open", "done", "error", or "diverged" from its parse

streamVars == <<format, thinking, raw, reasoningSent, textSent, stream>>

StreamInit ==
  /\ format \in Formats /\ thinking \in BOOLEAN
  /\ raw = <<>> /\ reasoningSent = <<>> /\ textSent = <<>>
  /\ stream = "open"

----------------------------------------------------------------------------
(* Text.                                                                   *)

Occurs(m, t) == {i \in 1 .. Len(t) : IsPrefix(m, SubSeq(t, i, Len(t)))}
BeforeFirst(m, t) == SubSeq(t, 1, Min(Occurs(m, t)) - 1)
AfterFirst(m, t) == SubSeq(t, Min(Occurs(m, t)) + Len(m), Len(t))
Beyond(m, t) == SubSeq(t, Len(m) + 1, Len(t))

Solid(t) == {i \in DOMAIN t : t[i] # " "}
TrimStart(t) == IF Solid(t) = {} THEN <<>> ELSE SubSeq(t, Min(Solid(t)), Len(t))
Trim(t) == IF Solid(t) = {} THEN <<>> ELSE SubSeq(t, Min(Solid(t)), Max(Solid(t)))

----------------------------------------------------------------------------
(* The parse of a whole turn.                                              *)

\* ReasoningDialect::split
Split(t) ==
  LET opened == IsPrefix(ThinkOpen, TrimStart(t))
      body == IF opened THEN Beyond(ThinkOpen, TrimStart(t)) ELSE t
  IN  IF Occurs(ThinkClose, body) # {}
      THEN [reasoning |-> Trim(BeforeFirst(ThinkClose, body)),
            answer |-> TrimStart(AfterFirst(ThinkClose, body))]
      ELSE IF opened THEN [reasoning |-> Trim(body), answer |-> <<>>]
      ELSE [reasoning |-> <<>>, answer |-> t]

\* ReasoningDialect::strip_empty
StripEmpty(t) ==
  LET body == Beyond(ThinkOpen, TrimStart(t))
  IN  IF /\ IsPrefix(ThinkOpen, TrimStart(t))
         /\ Occurs(ThinkClose, body) # {} /\ Solid(BeforeFirst(ThinkClose, body)) = {}
      THEN TrimStart(AfterFirst(ThinkClose, body)) ELSE t

\* json_in_tags::parse: the text around complete calls.
Failed == [ok |-> FALSE, text |-> <<>>]
ReadCalls[t \in Seq(STRING)] ==
  IF Occurs(CallOpen, t) = {}
  THEN IF Occurs(CallEnd, t) = {} THEN [ok |-> TRUE, text |-> t] ELSE Failed
  ELSE LET before == BeforeFirst(CallOpen, t)
           value == TrimStart(AfterFirst(CallOpen, t))
           rest == TrimStart(Beyond(<<"x">>, value))
           after == ReadCalls[Beyond(CallEnd, rest)]
       IN  IF /\ Occurs(CallEnd, before) = {}
              /\ IsPrefix(<<"x">>, value) /\ IsPrefix(CallEnd, rest) /\ after.ok
           THEN [ok |-> TRUE, text |-> before \o after.text] ELSE Failed

\* parse_turn_unchecked
Parsed(t, complete) ==
  LET parts == IF ~format.reasoning THEN [reasoning |-> <<>>, answer |-> t]
               ELSE IF thinking THEN Split(t) ELSE [reasoning |-> <<>>, answer |-> StripEmpty(t)]
      turn == IF ~format.calls THEN [ok |-> TRUE, text |-> parts.answer]
              ELSE IF complete THEN ReadCalls[parts.answer]
              ELSE [ok |-> TRUE, text |-> IF Occurs(CallOpen, parts.answer) = {} THEN parts.answer
                                          ELSE BeforeFirst(CallOpen, parts.answer)]
  IN  [ok |-> turn.ok, reasoning |-> parts.reasoning, text |-> turn.text]

----------------------------------------------------------------------------
(* What is released before the end.                                        *)

\* Mutated forms of Held: nothing is held back, and everything from the last
\* "<" is.
HeldNothing(t, m) == 0
HeldFromLast(t, m) ==
  IF Occurs(<<"<">>, t) = {} THEN 0 ELSE Len(t) - Max(Occurs(<<"<">>, t)) + 1

\* held_suffix: the longest suffix that more text could make the marker
Held(t, m) == Max({n \in 0 .. Len(m) - 1 : n <= Len(t) /\ IsSuffix(SubSeq(m, 1, n), t)})

Released(t, m) == SubSeq(t, 1, Len(t) - Held(t, m))

Unknown == [known |-> FALSE, answer |-> <<>>]
Answer(t) == [known |-> TRUE, answer |-> t]

\* without_empty_block
WithoutEmptyBlock(t) ==
  LET body == Beyond(ThinkOpen, TrimStart(t))
  IN  IF IsPrefix(TrimStart(t), ThinkOpen) THEN Unknown
      ELSE IF ~IsPrefix(ThinkOpen, TrimStart(t)) THEN Answer(t)
      ELSE IF Occurs(ThinkClose, body) # {}
      THEN Answer(IF Solid(BeforeFirst(ThinkClose, body)) = {}
                  THEN TrimStart(AfterFirst(ThinkClose, body)) ELSE t)
      ELSE IF Solid(Released(body, ThinkClose)) = {} THEN Unknown ELSE Answer(t)

\* The reasoning and the answer of `t` as far as they are known, in settled.
KnownParts(t) ==
  LET trimmed == TrimStart(t)
      body == Beyond(ThinkOpen, trimmed)
      parts(reasoning, answer) == [reasoning |-> reasoning, answer |-> answer]
  IN  IF ~format.reasoning THEN parts(<<>>, t)
      ELSE IF ~thinking THEN parts(<<>>, WithoutEmptyBlock(t).answer)
      ELSE IF IsPrefix(ThinkOpen, trimmed)
      THEN IF Occurs(ThinkClose, body) # {}
           THEN parts(Trim(BeforeFirst(ThinkClose, body)), TrimStart(AfterFirst(ThinkClose, body)))
           ELSE parts(Trim(Released(body, ThinkClose)), <<>>)
      ELSE IF ~IsPrefix(trimmed, ThinkOpen) /\ Occurs(ThinkClose, t) # {}
      THEN parts(Trim(BeforeFirst(ThinkClose, t)), TrimStart(AfterFirst(ThinkClose, t)))
      ELSE parts(<<>>, <<>>)

\* A mutated SettledText: a call is streamed like text.
SettledTextWithCalls(answer) == Released(answer, CallOpen)

SettledText(answer) ==
  IF ~format.calls THEN answer
  ELSE IF Occurs(CallOpen, answer) # {} THEN BeforeFirst(CallOpen, answer)
  ELSE Released(answer, CallOpen)

\* TurnStream::release
Release(reasoning, text, end) ==
  IF IsPrefix(reasoningSent, reasoning) /\ IsPrefix(textSent, text)
  THEN reasoningSent' = reasoning /\ textSent' = text /\ stream' = end
  ELSE stream' = "diverged" /\ UNCHANGED <<reasoningSent, textSent>>

\* TurnStream::push, a letter at a time; the text of several tokens at once
\* only skips releases.
Push(letter) ==
  /\ stream = "open" /\ Len(raw) < MaxText
  /\ letter \in {"<", "x", " "} \/ (raw # <<>> /\ Last(raw) = "<")
  /\ raw' = Append(raw, letter)
  /\ LET parts == KnownParts(raw')
     IN  Release(parts.reasoning, SettledText(parts.answer), "open")
  /\ UNCHANGED <<format, thinking>>

\* TurnStream::finish, of a turn the model ended or the output limit cut
Finish(complete) ==
  /\ stream = "open"
  /\ LET turn == Parsed(raw, complete)
     IN  IF turn.ok THEN Release(turn.reasoning, turn.text, "done")
         ELSE stream' = "error" /\ UNCHANGED <<reasoningSent, textSent>>
  /\ UNCHANGED <<format, thinking, raw>>

StreamNext ==
  \/ \E letter \in {"<", "x", " ", "t", "/", "c", "e"} : Push(letter)
  \/ \E complete \in BOOLEAN : Finish(complete)

StreamSpec == StreamInit /\ [][StreamNext]_streamVars

----------------------------------------------------------------------------
(* Properties.                                                             *)

\* No marker of a call reaches the client as text.
CallsStayHidden == format.calls => Occurs(CallOpen, textSent) = {}

\* Of an answer that neither is reasoning nor calls anything, only what may
\* still become a call's marker waits.
OnlyMarkersWait ==
  /\ stream = "open" /\ ~thinking /\ Occurs(CallOpen, raw) = {}
  /\ raw # <<>> /\ raw[1] = "x"
  => \E n \in 0 .. Len(CallOpen) - 1 : raw = textSent \o SubSeq(CallOpen, 1, n)

\* Push withholds what it must and no more.  What was shown is what the parse
\* of the whole turn starts with, however the turn goes on and wherever it
\* ends: push never panics ("settled text extends what was released") and
\* finish never finds a "streamed turn diverged".
WithholdsMarkersOnly == stream # "diverged" /\ CallsStayHidden /\ OnlyMarkersWait
=============================================================================
