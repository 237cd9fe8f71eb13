---------------------------- MODULE MessageBlocks ----------------------------
(***************************************************************************)
(* The event stream of a Messages reply (crates/app/cli/src/               *)
(* anthropic_messages.rs: LiveBlocks, stream, and SearchReply for hosted   *)
(* search).  Citations are left out.                                       *)
(***************************************************************************)
EXTENDS SearchTurn

VARIABLES
  frames,        \* the events written: [type, index, kind, text]
  httpError,     \* whether an ordinary error status was answered instead
  opened,        \* LiveBlocks::open: the open block's index and kind, or NoBlock
  blockCount,    \* LiveBlocks::count
  segmentStart,  \* SearchReply::segment_start
  content        \* the blocks of the message so far: [kind, text]

messageOnly == <<frames, httpError, opened, blockCount, segmentStart, content>>
messageVars == <<turnVars, messageOnly>>

NoBlock == [index |-> 99, kind |-> "none"]

MessageInit ==
  /\ TurnInit
  /\ frames = <<>> /\ httpError = FALSE
  /\ opened = NoBlock /\ blockCount = 0 /\ segmentStart = 0 /\ content = <<>>

Frame(type, index, kind, text) == [type |-> type, index |-> index, kind |-> kind, text |-> text]
Bare(type) == Frame(type, NoBlock.index, "none", <<>>)

\* Frames behind message_start, which waits for the first of them
Write(new) == frames' = frames \o (IF frames = <<>> THEN <<Bare("message_start")>> ELSE <<>>) \o new

----------------------------------------------------------------------------
(* Blocks.                                                                 *)

\* A mutated CloseOpen: the open block is forgotten and not stopped.
CloseOpenSilently == <<>>

\* LiveBlocks::close
CloseOpen == IF opened = NoBlock THEN <<>> ELSE <<Frame("stop", opened.index, opened.kind, <<>>)>>

\* LiveBlocks::push: a delta of another kind closes the open block.
BlockDelta(kind, piece) ==
  /\ Says(kind, piece)
  /\ IF opened.kind = kind
     THEN Write(<<Frame("delta", opened.index, kind, <<piece>>)>>) /\ UNCHANGED <<opened, blockCount>>
     ELSE /\ Write(CloseOpen \o <<Frame("start", blockCount, kind, <<>>),
                                  Frame("delta", blockCount, kind, <<piece>>)>>)
          /\ opened' = [index |-> blockCount, kind |-> kind]
          /\ blockCount' = blockCount + 1
  /\ UNCHANGED <<httpError, segmentStart, content>>

\* blocks of a finished turn
ContentBlocks(calls) ==
  (IF said.reasoning = <<>> THEN <<>> ELSE <<[kind |-> "reasoning", text |-> said.reasoning]>>)
    \o (IF said.text = <<>> /\ calls > 0 THEN <<>> ELSE <<[kind |-> "text", text |-> said.text]>>)
    \o [i \in 1 .. calls |-> [kind |-> "tool_use", text |-> <<"x">>]]

\* emit_block: one block, whole; a search result comes in its start.
WholeBlock(block, index) ==
  LET frame(type, text) == Frame(type, index, block.kind, text)
  IN  IF block.kind = "web_search_tool_result" THEN <<frame("start", block.text), frame("stop", <<>>)>>
      ELSE <<frame("start", <<>>), frame("delta", block.text), frame("stop", <<>>)>>

\* The blocks of `visible` that were not streamed live, behind the first
\* `streamed`; their indexes go on from `first`.
Rest(visible, streamed, first) ==
  FlattenSeq([i \in 1 .. Len(visible) - streamed |-> WholeBlock(visible[streamed + i], first + i - 1)])

\* A mutated StreamedHere: earlier segments count too.
StreamedHereEver == blockCount

\* How many blocks of the running segment were streamed live
StreamedHere == blockCount - segmentStart

\* The visible blocks end a segment (SearchReply) or the turn (stream).
EndSegment(visible) ==
  /\ Write(CloseOpen \o Rest(visible, StreamedHere, blockCount))
  /\ opened' = NoBlock
  /\ content' = content \o visible
  /\ blockCount' = blockCount + Len(visible) - StreamedHere
  /\ segmentStart' = blockCount'
  /\ UNCHANGED httpError

MessageEnds(calls, complete) == Ends(calls, complete) /\ EndSegment(ContentBlocks(calls))

\* A segment that searches shows its reasoning and text; its call is not shown.
SearchSegment == CallsSearch /\ EndSegment(SelectSeq(ContentBlocks(1), LAMBDA b : b.kind # "tool_use"))

\* SearchReply::add_block
AddBlock(block) ==
  /\ Write(WholeBlock(block, blockCount))
  /\ blockCount' = blockCount + 1
  /\ content' = Append(content, block)
  /\ segmentStart' = blockCount'
  /\ UNCHANGED <<httpError, opened>>

SearchShown == SearchStarts /\ AddBlock([kind |-> "server_tool_use", text |-> <<"x">>])

SearchAnswered ==
  SearchEnds /\ \E result \in {"results", "failed"} :
                  AddBlock([kind |-> "web_search_tool_result", text |-> <<result>>])

MessageCompletes ==
  /\ Finishes
  /\ Write(<<Bare("message_delta"), Bare("message_stop")>>)
  /\ UNCHANGED <<httpError, opened, blockCount, segmentStart, content>>

\* take_unopened: nothing was written, so an ordinary error status answers.
MessageBreaks ==
  /\ Fails
  /\ IF frames = <<>> THEN httpError' = TRUE /\ UNCHANGED frames
     ELSE Write(<<Bare("error")>>) /\ UNCHANGED httpError
  /\ UNCHANGED <<opened, blockCount, segmentStart, content>>

MessageNext ==
  \/ \E kind \in {"reasoning", "text"}, piece \in {"x", " "} : BlockDelta(kind, piece)
  \/ \E calls \in 0 .. MaxCalls, complete \in BOOLEAN : MessageEnds(calls, complete)
  \/ SearchSegment \/ SearchShown \/ SearchAnswered \/ MessageCompletes \/ MessageBreaks

MessageSpec == MessageInit /\ [][MessageNext]_messageVars

----------------------------------------------------------------------------
(* Properties.                                                             *)

IndexesOf(type) == LET s == SelectSeq(frames, LAMBDA f : f.type = type) IN [i \in DOMAIN s |-> s[i].index]

\* At most one block is open at any time: blocks start in index order without
\* a gap, each when the one before has stopped, and a delta or a stop is of the
\* block that is open.
OneBlockOpen ==
  /\ IndexesOf("start") = [i \in 1 .. Len(IndexesOf("start")) |-> i - 1]
  /\ \A k \in DOMAIN frames :
       LET before(type) == {j \in 1 .. k - 1 : frames[j].type = type}
       IN  /\ frames[k].type = "start" /\ frames[k].index > 0 =>
                \E j \in before("stop") : frames[j].index = frames[k].index - 1
           /\ frames[k].type \in {"delta", "stop"} =>
                /\ \E j \in before("start") : frames[j].index = frames[k].index
                                              /\ frames[j].kind = frames[k].kind
                /\ \A j \in before("stop") : frames[j].index # frames[k].index

\* A client that puts a finished stream together gets the message a client
\* that did not stream gets: "the blocks streamed so far are exactly the leading
\* thinking and text blocks of the final message; the rest follow whole".
StreamedMessageIsWhole ==
  /\ OneBlockOpen
  /\ at = "finished" =>
       /\ IndexesOf("stop") = IndexesOf("start")
       /\ content = [i \in 1 .. Len(IndexesOf("start")) |->
            LET its(type) == SelectSeq(frames, LAMBDA f : f.type = type /\ f.index = i - 1)
            IN  [kind |-> its("start")[1].kind,
                 text |-> its("start")[1].text \o FlattenSeq([j \in DOMAIN its("delta") |-> its("delta")[j].text])]]
=============================================================================
