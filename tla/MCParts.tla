------------------------------- MODULE MCParts -------------------------------
(* Instances of the components that run on their own.  A behaviour runs one *)
(* of them, `part`, and leaves the others as they start: their states add   *)
(* up and do not multiply.  "protocols" shows one turn in both protocols:   *)
(* every event of the turn is a step of both.                               *)
EXTENDS BlockLedger, FreeQueue, PrefixReuse, RowPack, WeightStore, KvAdmission,
  TurnDecode, TurnStream, ResponseEvents, MessageBlocks, RequestSession, TLC

CONSTANTS p1, p2, i1, i2   \* two threads or readers, two identities of a model

VARIABLE part

\* Two turns of a conversation, another with the same preamble, and the first
\* one again for another tenant.
Chat(salt, ids, conversation) ==
  [salt |-> salt, ids |-> ids, preamble |-> 1, conversation |-> conversation]
Chats == {Chat("s", <<1, 2, 3>>, 2), Chat("s", <<1, 2, 4, 3>>, 3), Chat("s", <<1, 5, 3>>, 2),
          Chat("t", <<1, 2, 3>>, 2)}

\* The first turn of a process is the first of these.
AsksFirst == turns = <<>> /\ turn' # NoTurn => turn'.prompt = Chat("s", <<1, 2, 3>>, 2)

\* The store's budget after each restart.
Shrinking == [n \in 0 .. MaxKills |-> 4 - n]

\* Rows a reader asks for at once.
Reads == {<<1>>, <<2>>, <<1, 2>>}

\* The host serves row 1 in two versions.
RowVersions == {<<1, 1>>, <<1, 2>>, <<2, 1>>}

\* The expert each tensor belongs to.
Belongs == [x \in Tensor |-> CASE x = "1a" -> 1 [] x = "1b" -> 1 [] x = "2a" -> 2 [] x = "3a" -> 3]

\* The host serves one tensor in two versions.
Served == [x \in Tensor |-> IF x = "1a" THEN {1, 2} ELSE {1}]

\* A prompt without a repetition and one that speculation drafts from.
TurnPrompts == {<<1>>, <<1, 2, 1>>}
OneTurn == [prompt |-> <<1>>, picking |-> "rows", speculating |-> FALSE]

\* With and without a call format.
BothFormats == {[calls |-> TRUE, reasoning |-> TRUE], [calls |-> FALSE, reasoning |-> TRUE]}

\* Every kind of layer; keys are read from the nearest owner and from a later one.
LayerOf(kind, source, engram) == [kind |-> kind, source |-> source, engram |-> engram]
SevenLayers ==
  << LayerOf("ratio two owner", 1, TRUE), LayerOf("ratio two consumer", 1, FALSE),
     LayerOf("window", 0, FALSE), LayerOf("ratio one owner", 4, TRUE),
     LayerOf("ratio one indexer", 4, FALSE), LayerOf("ratio one owner", 6, FALSE),
     LayerOf("ratio one consumer", 6, FALSE) >>

Parts == {"ledger", "queue", "reuse", "rows", "weights", "pages", "decode", "stream", "protocols", "session"}

PartsInit ==
  /\ part \in Parts
  /\ Init /\ QueueInit /\ ReuseInit /\ RowInit /\ WeightInit /\ KvInit /\ DecodeInit
  /\ StreamInit /\ ResponseInit /\ MessageInit /\ SessionInit
  /\ identity = i1
  /\ part # "decode" => asked = OneTurn
  /\ part # "stream" => format.calls /\ ~thinking
  /\ part # "protocols" => ~hosted

PartsNext ==
  /\ UNCHANGED part
  /\ \/ part = "ledger" /\ Next
     \/ part # "ledger" /\ UNCHANGED ledgerVars
  /\ \/ part = "queue" /\ QueueNext
     \/ part # "queue" /\ UNCHANGED queueVars
  /\ \/ part = "reuse" /\ ReuseNext /\ AsksFirst
     \/ part # "reuse" /\ UNCHANGED reuseVars
  /\ \/ part = "rows" /\ RowNext
     \/ part # "rows" /\ UNCHANGED rowVars
  /\ \/ part = "weights" /\ WeightNext
     \/ part # "weights" /\ UNCHANGED weightVars
  /\ \/ part = "pages" /\ KvNext
     \/ part # "pages" /\ UNCHANGED kvVars
  /\ \/ part = "decode" /\ DecodeNext
     \/ part # "decode" /\ UNCHANGED decodeVars
  /\ \/ part = "stream" /\ StreamNext
     \/ part # "stream" /\ UNCHANGED streamVars
  /\ \/ part = "protocols" /\ ResponseNext /\ (MessageNext \/ UNCHANGED messageVars)
     \/ part # "protocols" /\ UNCHANGED <<responseVars, messageOnly>>
  /\ \/ part = "session" /\ SessionNext
     \/ part # "session" /\ UNCHANGED sessionVars

PartsSpec ==
  PartsInit /\ [][PartsNext]_<<part, ledgerVars, queueVars, reuseVars, rowVars, weightVars, kvVars,
                               decodeVars, streamVars, responseVars, messageOnly, sessionVars>>

\* Nothing tells two threads or readers apart (nor identities: see PartsInit).
Symmetric == Permutations({p1, p2})
=============================================================================
