----------------------------- MODULE SearchTurn -----------------------------
(***************************************************************************)
(* What a streamed chat turn hands to the protocol that shows it: deltas   *)
(* as they settle, then the parsed turn; and when the server searches the  *)
(* web for the model, searches and further segments (run of crates/app/    *)
(* cli/src/web_search/turn.rs).  ResponseEvents and MessageBlocks turn     *)
(* these events into their protocols' streams.                             *)
(*                                                                         *)
(* Text is a sequence of pieces, "x" or blank.                             *)
(***************************************************************************)
EXTENDS Naturals, Sequences, SequencesExt

CONSTANTS
  MaxUses,      \* Policy::max_uses
  MaxPieces,    \* bound: deltas of a segment's text or reasoning
  MaxCalls      \* bound: calls of a turn

ASSUME TurnAssumption == {MaxUses, MaxPieces, MaxCalls} \subseteq Nat

VARIABLES
  hosted,     \* whether the request declares hosted search
  searches,   \* Outcome::searches
  said,       \* what the running segment has released: [reasoning, text]
  at          \* "generating", "search", "searching", "ended", "cut", "finished", "failed"

turnVars == <<hosted, searches, said, at>>

NothingSaid == [reasoning |-> <<>>, text |-> <<>>]

TurnInit == hosted \in BOOLEAN /\ searches = 0 /\ said = NothingSaid /\ at = "generating"

Blank(text) == \A i \in DOMAIN text : text[i] = " "

\* TurnStream releases reasoning before text; text behind reasoning is trimmed.
Says(kind, piece) ==
  /\ at = "generating" /\ Len(said[kind]) < MaxPieces
  /\ kind = "reasoning" => piece = "x" /\ said.text = <<>>
  /\ kind = "text" /\ said.text = <<>> /\ said.reasoning # <<>> => piece = "x"
  /\ said' = [said EXCEPT ![kind] = Append(@, piece)]
  /\ UNCHANGED <<hosted, searches, at>>

\* The generation ends and its text parses; a turn cut at the output limit
\* keeps no call.
Ends(calls, complete) ==
  /\ at = "generating" /\ (~complete => calls = 0)
  /\ at' = IF complete THEN "ended" ELSE "cut"
  /\ UNCHANGED <<hosted, searches, said>>

\* The turn calls web_search, and its other calls are dropped.
CallsSearch ==
  /\ hosted /\ at = "generating" /\ searches < MaxUses
  /\ at' = "search"
  /\ UNCHANGED <<hosted, searches, said>>

SearchStarts == at = "search" /\ at' = "searching" /\ UNCHANGED <<hosted, searches, said>>

\* Another segment follows, unless the output limit is reached.
SearchEnds ==
  /\ at = "searching"
  /\ at' \in {"generating", "cut"}
  /\ searches' = searches + 1
  /\ said' = NothingSaid
  /\ UNCHANGED hosted

Finishes == at \in {"ended", "cut"} /\ at' = "finished" /\ UNCHANGED <<hosted, searches, said>>

\* The generation fails, its text does not parse, a call is invalid, a search
\* was withdrawn or its query is refused, or the time is used up.
Fails == at \in {"generating", "search"} /\ at' = "failed" /\ UNCHANGED <<hosted, searches, said>>
=============================================================================
