--------------------------- MODULE ResponseEvents ---------------------------
(***************************************************************************)
(* The event stream of a Responses reply (crates/app/cli/src/responses.rs: *)
(* EventStream, respond, finish_items, and HostedReply for hosted search). *)
(* Content parts are left out: they open and close with their message.     *)
(***************************************************************************)
EXTENDS SearchTurn

VARIABLES
  wire,       \* the events written: [type, item, index, text]
  answered,   \* "no", "stream", or "http" for an ordinary error status
  offset,     \* EventStream::output_offset
  segment,    \* HostedReply::segment
  shown,      \* [reasoning : live_reasoning, message : live_message or NoIndex]
  output      \* HostedReply::output, or the response's once it is built: [item, text]

responseOnly == <<wire, answered, offset, segment, shown, output>>
responseVars == <<turnVars, responseOnly>>

NoIndex == 99
NothingLive == [reasoning |-> FALSE, message |-> NoIndex]

ResponseInit ==
  /\ TurnInit
  /\ wire = <<>> /\ answered = "no" /\ offset = 0 /\ segment = 0
  /\ shown = NothingLive /\ output = <<>>

Event(type, item, index, text) == [type |-> type, item |-> item, index |-> index, text |-> text]
Created == Event("created", <<>>, NoIndex, <<>>)
Terminal(type) == Event(type, <<>>, NoIndex, <<>>)

\* EventStream::emit of `events`, behind the head and response.created
Emit(events) ==
  /\ wire' = wire \o (IF answered = "no" THEN <<Created>> ELSE <<>>) \o events
  /\ answered' = "stream"

\* A mutated Keepalive: the keepalive opens the stream.
KeepaliveOpening == IF answered = "no" THEN Emit(<<>>) ELSE UNCHANGED <<wire, answered>>

\* Keepalive::held of a client that is there writes nothing, or a comment.
Keepalive == UNCHANGED <<wire, answered>>

----------------------------------------------------------------------------
(* Deltas.                                                                 *)

\* A mutated MessageIndex: reasoning is not counted.
MessageIndexFirst == offset

\* The message comes after any reasoning.
MessageIndex == offset + (IF shown.reasoning THEN 1 ELSE 0)

\* EventStream::delta
Reasons(piece) ==
  LET item == <<"rs", segment>>
  IN  /\ Emit((IF shown.reasoning THEN <<>> ELSE <<Event("added", item, offset, <<>>)>>)
                \o <<Event("delta", item, offset, <<piece>>)>>)
      /\ shown' = [shown EXCEPT !.reasoning = TRUE]

Writes(piece) ==
  LET item == <<"msg", segment>>
      index == IF shown.message = NoIndex THEN MessageIndex ELSE shown.message
  IN  /\ Emit((IF shown.message = NoIndex THEN <<Event("added", item, index, <<>>)>> ELSE <<>>)
                \o <<Event("delta", item, index, <<piece>>)>>)
      /\ shown' = [shown EXCEPT !.message = index]

Delta(kind, piece) ==
  /\ Says(kind, piece)
  /\ IF kind = "reasoning" THEN Reasons(piece) ELSE Writes(piece)
  /\ UNCHANGED <<offset, segment, output>>

Waits == at = "generating" /\ Keepalive /\ UNCHANGED <<turnVars, offset, segment, shown, output>>

----------------------------------------------------------------------------
(* Items.                                                                  *)

Items(message, calls) ==
  (IF said.reasoning = <<>> THEN <<>> ELSE <<[item |-> <<"rs", segment>>, text |-> said.reasoning]>>)
    \o (IF message THEN <<[item |-> <<"msg", segment>>, text |-> said.text]>> ELSE <<>>)
    \o [i \in 1 .. calls |-> [item |-> <<"fc", segment, i>>, text |-> <<"x">>]]

\* finish_items of one item
ItemEvents(i, index) ==
  LET e(type, text) == Event(type, i.item, index, text)
  IN  CASE i.item[1] = "fc" -> <<e("added", <<>>), e("delta", i.text), e("done", i.text), e("closed", i.text)>>
        [] i.item[1] = "rs" -> (IF shown.reasoning THEN <<e("done", i.text)>> ELSE <<e("added", <<>>)>>)
                                 \o <<e("closed", i.text)>>
        [] i.item[1] = "msg" -> (IF shown.message # NoIndex THEN <<>>
                                 ELSE <<e("added", <<>>), e("delta", i.text)>>)
                                  \o <<e("done", i.text), e("closed", i.text)>>

FinishItems(items) == FlattenSeq([i \in DOMAIN items |-> ItemEvents(items[i], offset + i - 1)])

\* respond, once the turn is parsed: response_value, which leaves out blank text
\* before calls, its items and the terminal event.
Replies(calls, complete) ==
  /\ ~hosted /\ Ends(calls, complete)
  /\ output' = Items(calls = 0 \/ ~Blank(said.text), calls)
  /\ Emit(FinishItems(output'))
  /\ UNCHANGED <<offset, segment, shown>>

\* The end of HostedReply::segment
NextSegment(items) ==
  /\ output' = output \o items
  /\ segment' = segment + 1
  /\ shown' = NothingLive
  /\ offset' = Len(output')

Segment(items) ==
  /\ IF items = <<>> THEN UNCHANGED <<wire, answered>> ELSE Emit(FinishItems(items))
  /\ NextSegment(items)

HostedReplies(calls, complete) ==
  hosted /\ Ends(calls, complete) /\ Segment(Items(said.text # <<>> \/ calls = 0, calls))

HostedSearches == CallsSearch /\ Segment(Items(said.text # <<>>, 0))

\* HostedReply::search_start
SearchAdded ==
  /\ SearchStarts
  /\ LET item == <<"ws", searches>>
     IN  /\ Emit(<<Event("added", item, Len(output), <<>>), Event("progress", item, Len(output), <<>>)>>)
         /\ output' = Append(output, [item |-> item, text |-> <<>>])
  /\ UNCHANGED <<offset, segment, shown>>

\* A mutated NextOffset: the search is not counted.
NextOffsetBefore == offset

NextOffset == Len(output)

\* HostedReply::search_end, of a search that succeeded or failed
SearchClosed ==
  /\ SearchEnds
  /\ \E result \in {"results", "failed"} :
       LET position == Len(output)
           e(type, text) == Event(type, output[position].item, position - 1, text)
       IN  /\ output' = [output EXCEPT ![position].text = <<result>>]
           /\ Emit(<<e("progress", <<>>), e("closed", <<result>>)>>)
  /\ offset' = NextOffset
  /\ UNCHANGED <<segment, shown>>

\* The terminal event; HostedReply::finish of an Ok
Completes ==
  /\ Finishes
  /\ Emit(<<Terminal(IF at = "ended" THEN "completed" ELSE "incomplete")>>)
  /\ UNCHANGED <<offset, segment, shown, output>>

\* A failure is an HTTP error while nothing was written, else an event.
Breaks ==
  /\ Fails
  /\ IF answered = "no" THEN answered' = "http" /\ UNCHANGED wire ELSE Emit(<<Terminal("failed")>>)
  /\ UNCHANGED <<offset, segment, shown, output>>

ResponseNext ==
  \/ \E kind \in {"reasoning", "text"}, piece \in {"x", " "} : Delta(kind, piece)
  \/ \E calls \in 0 .. MaxCalls, complete \in BOOLEAN : Replies(calls, complete) \/ HostedReplies(calls, complete)
  \/ Waits \/ HostedSearches \/ SearchAdded \/ SearchClosed \/ Completes \/ Breaks

ResponseSpec == ResponseInit /\ [][ResponseNext]_responseVars

----------------------------------------------------------------------------
(* Properties.                                                             *)

Of(type) == SelectSeq(wire, LAMBDA e : e.type = type)
TextOf(item) == FlattenSeq([i \in DOMAIN Of("delta") |->
                  IF Of("delta")[i].item = item THEN Of("delta")[i].text ELSE <<>>])

\* Live text that response_value leaves out of the output: blank text before a
\* call.  Its message is never closed, and the call takes its index.
BlankLeftOut ==
  ~hosted /\ said.text # <<>> /\ output # <<>> /\ \A i \in DOMAIN output : output[i].item[1] # "msg"

\* On the wire each output index belongs to one item: it is added before its
\* other events, nothing follows its closing, and its deltas make up its text.
ItemsAreWhole ==
  BlankLeftOut \/
  \A k \in DOMAIN wire : wire[k].index # NoIndex =>
    /\ wire[k].type = "added" <=> \A j \in 1 .. k - 1 : wire[j].index # wire[k].index
    /\ \A j \in 1 .. k - 1 : wire[j].index = wire[k].index =>
         wire[j].item = wire[k].item /\ wire[j].type # "closed"
    /\ wire[k].type = "done" => wire[k].text = TextOf(wire[k].item)

\* The items on the wire are whole, and a finished stream closed exactly those
\* of its final response, in order and each at its index, and ends with its one
\* terminal event.
OutputMatchesEvents ==
  /\ ItemsAreWhole
  /\ at = "finished" /\ ~BlankLeftOut =>
       LET closed == Of("closed")
       IN  /\ [i \in DOMAIN closed |-> [item |-> closed[i].item, text |-> closed[i].text]] = output
           /\ \A i \in DOMAIN closed : closed[i].index = i - 1
           /\ Len(Of("added")) = Len(output)
           /\ Len(wire) > 1 /\ wire[1].type = "created" /\ Len(Of("created")) = 1
           /\ {k \in DOMAIN wire : wire[k].type \in {"completed", "incomplete", "failed"}} = {Len(wire)}

\* A failure before any output answers with an HTTP status, not a 200 stream.
EarlyFailureIsHttp ==
  at = "failed" /\ said = NothingSaid /\ output = <<>> => answered = "http" /\ wire = <<>>

\* scripts/qualify-responses-tools.py checks of a stream that every text delta
\* names an item of the final output at that item's index ("SSE event refers to
\* an unknown output item").
DeltasNameOutput ==
  at = "finished" =>
    \A k \in DOMAIN wire : wire[k].type = "delta" =>
      wire[k].index + 1 \in DOMAIN output /\ output[wire[k].index + 1].item = wire[k].item
=============================================================================
