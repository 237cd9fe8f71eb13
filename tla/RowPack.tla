------------------------------ MODULE RowPack ------------------------------
(***************************************************************************)
(* The pack of one table's fetched rows (crates/app/cli/src/range_fetch/   *)
(* row_pack.rs) and its readers (crates/app/cli/src/range_fetch.rs): a     *)
(* data file written in fetch order, an append-only index beside it, and   *)
(* the replay of the index when the process starts again.                  *)
(*                                                                         *)
(* A row is one cell of the data file.  Its bytes are the row and the      *)
(* version of it the host served, which stand for their digest as well.    *)
(* The process stops at any moment, also inside an append; while it is     *)
(* down `rows` and `dataLen` stay as it last knew them, and the data file  *)
(* may be cut short or deleted.  Migration of the earlier store (one file  *)
(* per row) and rows that read but do not match their request are left     *)
(* out.                                                                    *)
(***************************************************************************)
EXTENDS Integers, Sequences, FiniteSets, SequencesExt, FiniteSetsExt

CONSTANTS
  Reader,          \* threads
  Wanted,          \* what a read may ask for: sequences of adjacent rows
  Version,         \* what the host may serve, as <<row, version>>
  MaxFetches,      \* bound: fetches
  MaxStops,        \* bound: restarts
  MaxRowFaults        \* bound: cuts of the data file while the process is down, and failed index writes

ASSUME RowAssumption ==
  /\ \A w \in Wanted : \A i \in DOMAIN w : w[i] = w[1] + i - 1 /\ w[1] \in Nat
  /\ {MaxFetches, MaxStops, MaxRowFaults} \subseteq Nat

VARIABLES
  pack,        \* the data file: a sequence of <<row, version>>
  lines,       \* the index file: records, and Torn for a line cut short
  rows,        \* Pack::rows: [row -> record]
  dataLen,     \* Pack::data_len
  acquiring,   \* FetchingSource::acquiring: the readers that hold it
  reads,       \* each reader's rows asked and what get said of them so far
  up,          \* whether the process runs
  doubtful,    \* <<row, cell>> of index lines whose append reported an error
  fetches, stops, cuts, indexErrors

rowCounts == <<fetches, stops, cuts, indexErrors>>
rowVars == <<pack, lines, rows, dataLen, acquiring, reads, up, doubtful, rowCounts>>

Absent == <<"absent">>
Present == <<"present">>
Torn == [torn |-> TRUE]
NoRead == [want |-> <<>>, found |-> <<>>]
Record(bytes, cell) == [row |-> bytes[1], digest |-> bytes, cell |-> cell, lost |-> FALSE]

RowInit ==
  /\ pack = <<>> /\ lines = <<>>
  /\ rows = <<>> /\ dataLen = 0
  /\ acquiring = {} /\ reads = [t \in Reader |-> NoRead]
  /\ up = TRUE /\ doubtful = {}
  /\ fetches = 0 /\ stops = 0 /\ cuts = 0 /\ indexErrors = 0

----------------------------------------------------------------------------
(* read_rows.                                                              *)

ReadRows(t, w) ==
  /\ up /\ reads[t] = NoRead /\ fetches < MaxFetches
  /\ reads' = [reads EXCEPT ![t] = [want |-> w, found |-> <<>>]]
  /\ UNCHANGED <<pack, lines, rows, dataLen, acquiring, up, doubtful, rowCounts>>

\* RowPacks::get of the next row: the record is copied under the lock
Stored(r) ==
  IF r \notin DOMAIN rows THEN Absent ELSE IF rows[r].lost THEN rows[r].digest ELSE Present

Getting(t) == up /\ Len(reads[t].found) < Len(reads[t].want)

Get(t) ==
  /\ Getting(t)
  /\ reads' = [reads EXCEPT ![t].found = Append(@, Stored(reads[t].want[Len(@) + 1]))]
  /\ UNCHANGED <<pack, lines, rows, dataLen, acquiring, up, doubtful, rowCounts>>

\* The rows to fetch, of which reads this short have one run
Missing(t) == {i \in DOMAIN reads[t].found : reads[t].found[i] # Present}
Got(t) == up /\ reads[t] # NoRead /\ ~Getting(t)

ReadEnds(t) ==
  /\ Got(t) /\ Missing(t) = {}
  /\ reads' = [reads EXCEPT ![t] = NoRead]
  /\ UNCHANGED <<pack, lines, rows, dataLen, acquiring, up, doubtful, rowCounts>>

----------------------------------------------------------------------------
(* acquire_rows, inside the acquisition lock.                              *)

\* A mutated Acquire: the lock is not awaited.
AcquireUnlocked(t) ==
  /\ Got(t) /\ Missing(t) # {}
  /\ acquiring' = acquiring \cup {t}
  /\ UNCHANGED <<pack, lines, rows, dataLen, reads, up, doubtful, rowCounts>>

Acquire(t) ==
  /\ Got(t) /\ Missing(t) # {}
  /\ acquiring = {}
  /\ acquiring' = {t}
  /\ UNCHANGED <<pack, lines, rows, dataLen, reads, up, doubtful, rowCounts>>

\* A mutated Reproduces: recorded digests are not looked at.
ReproducesAlways(t, served) == TRUE

\* A lost row's bytes must hash to its recorded digest
Reproduces(t, served) ==
  \A i \in Missing(t) : reads[t].found[i] = Absent \/ reads[t].found[i] = served[i]

Fetched(t) ==
  {f \in [Missing(t) -> Version] : \A i \in Missing(t) : f[i][1] = reads[t].want[i]}
InOrder(f) == [n \in 1 .. Cardinality(DOMAIN f) |-> f[Min(DOMAIN f) + n - 1]]

\* RowPacks::append: the bytes over whatever follows the last indexed row,
\* then one index line each
WithData(new) == SubSeq(pack, 1, dataLen) \o new
NewLines(new) == [n \in DOMAIN new |-> Record(new[n], dataLen + n)]

\* A mutated Noted: the next append starts where this one did.
NotedAt(new) == dataLen

Noted(new) == dataLen + Len(new)

EndRead(t) == acquiring' = {} /\ reads' = [reads EXCEPT ![t] = NoRead]

\* The read is refused by the envelope, the host fails, or a digest differs
FetchFails(t) ==
  /\ up /\ acquiring = {t}
  /\ EndRead(t)
  /\ fetches' = fetches + 1
  /\ UNCHANGED <<pack, lines, rows, dataLen, up, doubtful, stops, cuts, indexErrors>>

FetchAndAppend(t) ==
  /\ up /\ acquiring = {t}
  /\ \E served \in Fetched(t) :
       LET new == InOrder(served)
           added == NewLines(new)
       IN  /\ Reproduces(t, served)
           /\ pack' = WithData(new)
           /\ lines' = lines \o added
           /\ dataLen' = Noted(new)
           /\ rows' = [r \in DOMAIN rows \cup {new[n][1] : n \in DOMAIN new} |->
                         IF r \in DOMAIN rows /\ \A n \in DOMAIN new : new[n][1] # r THEN rows[r]
                         ELSE added[CHOOSE n \in DOMAIN new : new[n][1] = r]]
  /\ EndRead(t)
  /\ fetches' = fetches + 1
  /\ UNCHANGED <<up, doubtful, stops, cuts, indexErrors>>

\* What an interrupted write of `new` may leave of the index
PartOfIndex(added) ==
  {lines \o SubSeq(added, 1, n) : n \in 0 .. Len(added)}
    \cup {lines \o SubSeq(added, 1, n) \o <<Torn>> : n \in 0 .. Len(added) - 1}

\* append returns an error once the data is synced: the index write or its
\* sync failed, and the process goes on with `rows` and `data_len` as before
IndexWriteFails(t) ==
  /\ up /\ acquiring = {t} /\ cuts + indexErrors < MaxRowFaults
  /\ \E served \in Fetched(t) :
       LET new == InOrder(served)
       IN  /\ Reproduces(t, served)
           /\ pack' = WithData(new)
           /\ lines' \in PartOfIndex(NewLines(new))
           /\ doubtful' = doubtful \cup {<<new[n][1], dataLen + n>> : n \in DOMAIN new}
  /\ EndRead(t)
  /\ fetches' = fetches + 1
  /\ indexErrors' = indexErrors + 1
  /\ UNCHANGED <<rows, dataLen, up, stops, cuts>>

----------------------------------------------------------------------------
(* The process stops, the data file may be cut, and the process starts.    *)

Stopped ==
  /\ up /\ stops < MaxStops
  /\ up' = FALSE
  /\ stops' = stops + 1
  /\ acquiring' = {} /\ reads' = [t \in Reader |-> NoRead]
  /\ UNCHANGED <<rows, dataLen, doubtful, fetches, cuts, indexErrors>>

Stop == Stopped /\ UNCHANGED <<pack, lines>>

\* It stops in the middle of an append: part of the data, or all of it and
\* part of the index
StopAppending ==
  /\ Stopped
  /\ \E t \in acquiring : \E served \in Fetched(t) :
       LET new == InOrder(served)
       IN  /\ Reproduces(t, served)
           /\ \/ /\ \E n \in 0 .. Len(new) - 1 : pack' = WithData(SubSeq(new, 1, n))
                 /\ lines' = lines
              \/ /\ pack' = WithData(new)
                 /\ lines' \in PartOfIndex(NewLines(new))

Cut ==
  /\ ~up /\ cuts + indexErrors < MaxRowFaults
  /\ \E n \in 0 .. Len(pack) - 1 : pack' = SubSeq(pack, 1, n)
  /\ cuts' = cuts + 1
  /\ UNCHANGED <<lines, rows, dataLen, acquiring, reads, up, doubtful, fetches, stops, indexErrors>>

\* recover: the whole lines before the first torn one, the last for a row wins
TornAt == SelectInSeq(lines, LAMBDA l : l = Torn)
Replayed == IF TornAt = 0 THEN lines ELSE SubSeq(lines, 1, TornAt - 1)
LastFor(r) == Replayed[Max({i \in DOMAIN Replayed : Replayed[i].row = r})]

\* A mutated Recovered: rows whose bytes are gone are dropped.
RecoveredPresent ==
  [r \in {l.row : l \in {k \in ToSet(Replayed) : LastFor(k.row).cell <= Len(pack)}} |-> LastFor(r)]

\* A row past the end of the data file is lost
Recovered ==
  [r \in {l.row : l \in ToSet(Replayed)} |->
     [LastFor(r) EXCEPT !.lost = @ \/ LastFor(r).cell > Len(pack)]]

\* The index is rewritten, a line per row, when replay changed anything
Rewritten(recovered) ==
  LET changed == \/ TornAt # 0
                 \/ Len(Replayed) # Cardinality(DOMAIN recovered)
                 \/ \E r \in DOMAIN recovered : recovered[r] # LastFor(r)
  IN  IF changed THEN SetToSortSeq({recovered[r] : r \in DOMAIN recovered},
                                   LAMBDA a, b : a.row < b.row)
      ELSE lines

Open ==
  /\ ~up
  /\ up' = TRUE
  /\ rows' = Recovered
  /\ lines' = Rewritten(Recovered)
  /\ dataLen' = Max({0} \cup {Recovered[r].cell : r \in {q \in DOMAIN Recovered : ~Recovered[q].lost}})
  /\ pack' = SubSeq(pack, 1, dataLen')
  /\ UNCHANGED <<acquiring, reads, doubtful, rowCounts>>

RowNext ==
  \/ \E t \in Reader :
       \/ \E w \in Wanted : ReadRows(t, w)
       \/ Get(t)
       \/ ReadEnds(t)
       \/ Acquire(t)
       \/ FetchFails(t)
       \/ FetchAndAppend(t)
       \/ IndexWriteFails(t)
  \/ Stop
  \/ StopAppending
  \/ Cut
  \/ Open

RowSpec == RowInit /\ [][RowNext]_rowVars

----------------------------------------------------------------------------
(* Properties.                                                             *)

\* Every record stored in memory is of its own row, one reader at most
\* acquires, and it has rows to fetch.
RowTypeOK ==
  /\ \A r \in DOMAIN rows : rows[r].row = r /\ rows[r].digest[1] = r /\ rows[r].cell \in Nat \ {0}
  /\ dataLen \in Nat
  /\ \A t \in acquiring : acquiring = {t} /\ Missing(t) # {}

\* A record says where the bytes of its digest are: appends, replays, cuts and
\* stops never leave a row that reads but does not match.  The exception is a
\* line written by an append that then reported an error: the process does not
\* know of it and writes the next rows over its bytes.
RowsReadBack ==
  /\ RowTypeOK
  /\ up => \A r \in DOMAIN rows :
             \/ rows[r].lost
             \/ <<r, rows[r].cell>> \in doubtful
             \/ rows[r].cell <= Len(pack) /\ pack[rows[r].cell] = rows[r].digest

\* A lost row comes back only as the bytes it had, whoever fetches it and
\* however many restarts later.
LostKeepsDigest ==
  \A r \in DOMAIN rows :
    rows[r].lost /\ up => r \in DOMAIN rows' /\ rows'[r].digest = rows[r].digest

\* A start knows every row the process knew when it stopped, with its digest,
\* and has lost exactly those whose bytes were cut off (once no index write has
\* failed: lines after a torn one are not replayed).
OpenKeepsRows ==
  ~up /\ up' /\ indexErrors = 0 =>
    \A r \in DOMAIN rows :
      /\ r \in DOMAIN rows'
      /\ \/ rows'[r].digest = rows[r].digest /\ (rows'[r].lost <=> rows[r].lost \/ rows[r].cell > Len(pack))
         \/ rows'[r].cell > dataLen

\* Through stops, torn lines and cuts no row changes: what a start finds is what
\* was known, and what it lost only comes back as it was.
RowsSurvive == [][LostKeepsDigest /\ OpenKeepsRows]_rowVars
=============================================================================
