------------------------------ MODULE ProviderWrite ------------------------------
(***************************************************************************)
(* A statement over provider tables and stream functions: it is bound and    *)
(* planned, its scans run, and an INSERT, UPDATE or DELETE then sends what   *)
(* they produced to the provider's function in one call                      *)
(* (src/provider/provider_table_catalog.cpp, provider_table_entry.cpp,       *)
(* provider_table_insert.cpp, _update.cpp, _delete.cpp, provider_arrow.cpp). *)
(*                                                                         *)
(* A provider table has no row ids: UPDATE and DELETE identify a row by its  *)
(* index in a buffer of the keys that the scans of the table read.  Scans    *)
(* run on several threads and share the buffer.                              *)
(*                                                                         *)
(* What the plan does between a scan and the sink (joins, filters) is        *)
(* DuckDB's: rows reach the sink in any order, not at all, or twice.         *)
(***************************************************************************)
EXTENDS ProviderStream

CONSTANTS
    Workers,     \* the threads of a scan
    Statements,  \* the statements that may run
    Table,       \* the rows of the provider table
    Key,         \* Key[r]: the key of row r of it
    Reads,       \* what the scan function may answer: one of Answers(Table), None for NULL
    Unreadable,  \* rows whose key has an Arrow layout that ReadArrowValue refuses
    VectorSize,  \* STANDARD_VECTOR_SIZE
    MaxSunk      \* bound: rows that reach the sink

Kinds == {"explain", "select", "insert", "update", "delete"}
Verbs == {"insert", "update", "delete"}

\* scan[s] says what scan s reads: a stream function, the statement's table or another one; rowid
\* the scans asked for row ids, written the one whose rows an UPDATE or DELETE writes.
Statement ==
    [kind: Kinds, scan: [Scans -> {"stream", "target", "other", "unused"}], rowid: SUBSET Scans,
     written: Scans \cup {None}, returning: BOOLEAN, supports: SUBSET Verbs, keyed: BOOLEAN]

ASSUME WriteAssumption ==
    /\ Statements \subseteq Statement /\ Table \subseteq Rows /\ IsFiniteSet(Table)
    /\ DOMAIN Key = Table /\ Unreadable \subseteq Table
    /\ Reads \subseteq Answers(Table) \cup {None}
    /\ VectorSize \in Nat \ {0} /\ MaxSunk \in Nat

VARIABLES
    stmt,      \* the statement
    scan,      \* scan[s]: a scan of a provider table
    buffer,    \* ProviderPKBuffer::rows, shared by every scan of the target
    passed,    \* the rows the plan has passed to the sink
    sunk,      \* what the sink's global state holds of them
    payload,   \* the Arrow stream handed to the write function, None before
    outcome,   \* what the write function did: the rows it wrote and how it answered
    affected   \* the count the statement reports, None if it reports none

writeVars == <<stmt, scan, buffer, passed, sunk, payload, outcome, affected>>
vars == <<streamVars, writeVars>>

Streams == {s \in Scans : stmt.scan[s] = "stream"}
TableScans == {s \in Scans : stmt.scan[s] \in {"target", "other"}}

\* AttachPKBufferToTargetScans: every scan of the table an UPDATE or DELETE writes, and no other.
Attached(s) == stmt.kind \in {"update", "delete"} /\ stmt.scan[s] = "target"

NoScan == [consumed |-> FALSE, batches |-> <<>>, hand |-> [w \in Workers |-> <<>>], emitted |-> {}]

NoOutcome == [rows |-> {}, answer |-> None]

--------------------------------------------------------------------------------
(* Planning *)

\* PlanInsert, PlanUpdate and PlanDelete: what the provider cannot do is refused.
Refused ==
    /\ stmt.kind \in Verbs
    /\ \/ stmt.returning
       \/ stmt.kind \notin stmt.supports
       \/ stmt.kind \in {"update", "delete"} /\ ~stmt.keyed

\* The statement is bound: every stream function of it is open.  EXPLAIN stops there.
Plan ==
    /\ phase = "bind" /\ \A s \in Streams : call[s].step = "bound"
    /\ phase' = IF Refused THEN "failed" ELSE IF stmt.kind = "explain" THEN "done" ELSE "run"
    /\ UNCHANGED <<hostVars, live, gens, counter, call, writeVars>>

--------------------------------------------------------------------------------
(* Scanning a provider table *)

\* ProviderScanInitGlobal: a row id, asked for with other columns, is refused where no key buffer gives one.
NoRowId(s) == s \in stmt.rowid /\ ~Attached(s)

\* The answers of the scan function that a scan can use.
Usable ==
    {a \in Reads \ {None} :
        /\ a.is = "frame"
        /\ \A i \in 1..Len(a.frame) : a.frame[i].type # "relaid"
        /\ \E d \in {PushFrame(NewDecoder, a.frame)} : HasSchema(d) /\ ~d.failed}

\* RunScanUdfAndDecodeArrowResult: the scan function is called once and its answer decoded whole,
\* so an unreadable answer yields no row at all.
ReadBatches == {PushFrame(NewDecoder, a.frame).batches : a \in Usable}

\* ProviderScanInitGlobal: a schema other than the declared one is refused.
StartScan(s) ==
    /\ phase = "run" /\ s \in TableScans /\ ~scan[s].consumed
    /\ \/ /\ ~NoRowId(s)
          /\ \E batches \in ReadBatches :
                scan' = [scan EXCEPT ![s].consumed = TRUE, ![s].batches = batches]
          /\ UNCHANGED phase
       \/ /\ NoRowId(s) \/ Usable # Reads
          /\ Throws
          /\ UNCHANGED scan
    /\ UNCHANGED <<hostVars, live, gens, counter, call>>
    /\ UNCHANGED <<stmt, buffer, passed, sunk, payload, outcome, affected>>

\* A plan that starts the scan again is refused.
RestartScan(s) ==
    /\ phase = "run" /\ scan[s].consumed
    /\ Throws
    /\ UNCHANGED <<hostVars, live, gens, counter, call, writeVars>>

\* ArrowScanParallelStateNext: a thread takes the next batch.
TakeBatch(s, w) ==
    /\ phase = "run" /\ scan[s].hand[w] = <<>> /\ scan[s].batches # <<>>
    /\ scan' = [scan EXCEPT ![s].hand[w] = Head(scan[s].batches), ![s].batches = Tail(@)]
    /\ UNCHANGED <<streamVars, stmt, buffer, passed, sunk, payload, outcome, affected>>

NewRowIdMutPerScan(s) == Cardinality(scan[s].emitted)

\* ProviderPKBuffer::Append returns the index the row lands at.
NewRowId(s) == Len(buffer)

\* ReadArrowValue: a key in a layout it does not know is refused, not guessed at.
KeyIsReadable(row) == row \notin Unreadable

\* AppendPKValuesAndEmitBufferRowIds: the key of a row goes into the buffer, under the buffer's lock.
AppendsKey(row) == KeyIsReadable(row) /\ buffer' = Append(buffer, Key[row])

\* A scan gives row ids where it has the key buffer and is asked for them.
GivesIds(s) == Attached(s) /\ s \in stmt.rowid

\* EmitProviderScanChunk, one row of the chunk: a row id is the index of the row's key in the buffer.
EmitRow(s, w) ==
    LET row == Head(scan[s].hand[w])
        emits(id) == scan' = [scan EXCEPT ![s].hand[w] = Tail(@), ![s].emitted = @ \cup {[row |-> row, id |-> id]}]
    IN  /\ phase = "run" /\ scan[s].hand[w] # <<>>
        /\ \/ ~GivesIds(s) /\ emits(None) /\ UNCHANGED <<phase, buffer>>
           \/ GivesIds(s) /\ AppendsKey(row) /\ emits(NewRowId(s)) /\ UNCHANGED phase
           \/ GivesIds(s) /\ ~KeyIsReadable(row) /\ Throws /\ UNCHANGED <<buffer, scan>>
        /\ UNCHANGED <<hostVars, live, gens, counter, call>>
        /\ UNCHANGED <<stmt, passed, sunk, payload, outcome, affected>>

--------------------------------------------------------------------------------
(* Writing *)

\* The rows that may reach the sink: those of the scan whose rows the statement writes, and for an
\* INSERT those of any scan.
Emitted ==
    IF stmt.kind = "insert"
    THEN (UNION {scan[s].emitted : s \in TableScans}) \cup
         {[row |-> r, id |-> None] : r \in UNION {ToSet(call[s].got) : s \in Streams}}
    ELSE UNION {scan[s].emitted : s \in Scans \cap {stmt.written}}

SinkMutDropsId(r) == Append(sunk, [row |-> r.row])
SinkMutReference(r) == [i \in 1..(Len(sunk) + 1) |-> r]

\* Sink copies each chunk: the child fills the same one again.
Sink(r) == Append(sunk, r)

\* A row reaches the sink.
PassRow ==
    /\ phase = "run" /\ stmt.kind \in Verbs /\ Len(passed) < MaxSunk
    /\ \E r \in Emitted : passed' = Append(passed, r.row) /\ sunk' = Sink(r)
    /\ UNCHANGED <<streamVars, stmt, scan, buffer, payload, outcome, affected>>

\* Every scan the plan has is at its end.
Drained ==
    /\ \A s \in Streams : call[s].step = "ended"
    /\ \A s \in TableScans :
          scan[s].consumed /\ scan[s].batches = <<>> /\ \A w \in Workers : scan[s].hand[w] = <<>>

\* PKBufferRow: an id that is not an index of the buffer is an error.
InRange(r) == r.id # None /\ r.id < Len(buffer)
PKBufferRow(r) == buffer[r.id + 1]
Resolvable == stmt.kind # "insert" => \A i \in 1..Len(sunk) : InRange(sunk[i])

\* RowChunkBuilder: the rows again, in chunks of a vector's size.
Chunks(rows) ==
    [i \in 1..((Len(rows) + VectorSize - 1) \div VectorSize) |->
        SubSeq(rows, (i - 1) * VectorSize + 1,
               IF i * VectorSize < Len(rows) THEN i * VectorSize ELSE Len(rows))]

\* What the provider is sent of a row: a whole row, its key, or its key and the changed columns.
Sent(r) ==
    CASE stmt.kind = "insert" -> <<r.row>>
      [] stmt.kind = "delete" -> <<PKBufferRow(r)>>
      [] stmt.kind = "update" -> <<PKBufferRow(r), r.row>>

\* EncodeChunksAsIpc.
Encode(chunks) ==
    <<[type |-> "schema", rows |-> <<>>]>>
      \o [i \in 1..Len(chunks) |-> [type |-> "batch", rows |-> chunks[i]]]
      \o <<[type |-> "eos", rows |-> <<>>]>>

\* Finalize with no rows: the write function is not called.
FinalizeEmpty ==
    /\ phase = "run" /\ Drained /\ sunk = <<>>
    /\ phase' = "done"
    /\ affected' = IF stmt.kind \in Verbs THEN 0 ELSE None
    /\ UNCHANGED <<hostVars, live, gens, counter, call>>
    /\ UNCHANGED <<stmt, scan, buffer, passed, sunk, payload, outcome>>

FinalizeMutAnyTime ==
    /\ phase = "run" /\ sunk # <<>>
    /\ phase' = IF Resolvable THEN "writing" ELSE "failed"
    /\ payload' = IF Resolvable THEN Encode(Chunks([i \in 1..Len(sunk) |-> Sent(sunk[i])])) ELSE None
    /\ UNCHANGED <<hostVars, live, gens, counter, call>>
    /\ UNCHANGED <<stmt, scan, buffer, passed, sunk, outcome, affected>>

\* Finalize, up to the call of the write function.
Finalize ==
    /\ phase = "run" /\ Drained /\ sunk # <<>>
    /\ phase' = IF Resolvable THEN "writing" ELSE "failed"
    /\ payload' = IF Resolvable THEN Encode(Chunks([i \in 1..Len(sunk) |-> Sent(sunk[i])])) ELSE None
    /\ UNCHANGED <<hostVars, live, gens, counter, call>>
    /\ UNCHANGED <<stmt, scan, buffer, passed, sunk, outcome, affected>>

\* The rows the provider finds in what it was sent.
Received == FlattenSeq(PushFrame(NewDecoder, payload).batches)

\* The rows of the table with one of the keys, also those the scans were not shown.
Written ==
    IF stmt.kind = "insert" THEN {Received[i][1] : i \in 1..Len(Received)}
    ELSE {r \in Table : \E i \in 1..Len(Received) : Key[r] = Received[i][1]}

EnsureKeyIsUniqueMutOffByOne(n, keys_sent) == n <= keys_sent + 1

\* EnsureKeyIsUnique: fewer rows than keys is not an error.
EnsureKeyIsUnique(n, keys_sent) == n <= keys_sent

\* CallWriteUdf and the rest of Finalize.  The function has run by the time its count is looked at.
WriteUdf ==
    /\ phase = "writing"
    /\ \/ \* It raises, or cannot be called.
          Throws /\ outcome' = [NoOutcome EXCEPT !.answer = "raise"] /\ UNCHANGED affected
       \/ \* It returns NULL, or nothing.
          /\ outcome' = [rows |-> Written, answer |-> "null"]
          /\ phase' = "done" /\ affected' = 0
       \/ \* It returns a negative count.
          Throws /\ outcome' = [rows |-> Written, answer |-> "negative"] /\ UNCHANGED affected
       \/ \* It returns, but the client has interrupted the statement meanwhile.
          Throws /\ outcome' = [rows |-> Written, answer |-> "late"] /\ UNCHANGED affected
       \/ \* It returns how many rows it wrote.
          LET n == IF stmt.kind = "insert" THEN Len(Received) ELSE Cardinality(Written)
              accepted == stmt.kind = "insert" \/ EnsureKeyIsUnique(n, Len(sunk))
          IN  /\ outcome' = [rows |-> Written, answer |-> "count"]
              /\ \/ accepted /\ phase' = "done" /\ affected' = n
                 \/ ~accepted /\ Throws /\ UNCHANGED affected
    /\ UNCHANGED <<hostVars, live, gens, counter, call>>
    /\ UNCHANGED <<stmt, scan, buffer, passed, sunk, payload>>

\* The client interrupts the statement.
Cancel ==
    /\ phase \in {"bind", "run"}
    /\ Throws
    /\ UNCHANGED <<hostVars, live, gens, counter, call, writeVars>>

--------------------------------------------------------------------------------

Init ==
    /\ phase = "bind" /\ StreamInit
    /\ stmt \in Statements
    /\ scan = [s \in Scans |-> NoScan]
    /\ buffer = <<>> /\ passed = <<>> /\ sunk = <<>>
    /\ payload = None /\ outcome = NoOutcome /\ affected = None

\* The steps the engine takes by itself once they are possible.
Engine ==
    \/ \E s \in Streams : StreamStep(s) /\ UNCHANGED writeVars
    \/ \E s \in Streams : BeginOpen(s) /\ UNCHANGED writeVars
    \/ Plan \/ FinalizeEmpty \/ Finalize \/ WriteUdf
    \/ \E s \in Scans : StartScan(s)
    \/ \E s \in Scans, w \in Workers : TakeBatch(s, w) \/ EmitRow(s, w)

\* What the host does matters to a statement that calls it.
Host == Streams # {} /\ \E h \in Hosts : HostStep(h) /\ UNCHANGED writeVars

Plans ==
    \/ PassRow \/ Cancel
    \/ \E s \in Streams : (RestartStream(s) \/ EnoughRows(s)) /\ UNCHANGED writeVars
    \/ \E s \in Scans : RestartScan(s)

Next == Engine \/ Host \/ Plans

\* A thread that can move does, a host answers the calls it gets and finishes the teardown it
\* began.  Nothing makes a host withdraw or a client cancel.
Fairness == WF_vars(Engine) /\ \A h \in Hosts : WF_vars(Teardown(h) /\ UNCHANGED writeVars)

Spec == Init /\ [][Next]_vars /\ Fairness

ScannedRow == [row: Rows, id: Nat \cup {None}]

TableScan ==
    [consumed: BOOLEAN, batches: Seq(Seq(Rows)), hand: [Workers -> Seq(Rows)], emitted: SUBSET ScannedRow]

\* The types of the statement's state, of its streams and of its scans.
TypeOK ==
    /\ phase \in {"bind", "run", "writing", "done", "failed"}
    /\ StreamTypeOK
    /\ stmt \in Statements /\ scan \in [Scans -> TableScan]
    /\ buffer \in Seq({Key[r] : r \in Table})
    /\ passed \in Seq(Rows) /\ sunk \in Seq(ScannedRow)
    /\ outcome \in [rows: SUBSET Rows, answer: {None, "raise", "null", "negative", "late", "count"}]
    /\ affected \in Nat \cup {None}

--------------------------------------------------------------------------------
(* What a write promises *)

\* vcat_pk_buffer.hpp:20: however the threads of all the scans of the table interleave, a row's id
\* leads to the key of that very row, and no two rows that were scanned share an id.
RowIdNamesItsRow ==
    \A s, t \in TableScans : \A q \in scan[s].emitted, r \in scan[t].emitted :
        q.id # None =>
            /\ buffer[q.id + 1] = Key[q.row]
            /\ q.id = r.id => s = t /\ q = r

\* provider_table_update.cpp:106, provider_arrow.cpp:287: what the provider is sent, once decoded, is
\* the rows that reached the sink, each with its own key and values, in their order, none lost
\* between two chunks.
WriteCarriesTheRows ==
    payload # None =>
        Received = [i \in 1..Len(passed) |->
                       CASE stmt.kind = "insert" -> <<passed[i]>>
                         [] stmt.kind = "delete" -> <<Key[passed[i]]>>
                         [] stmt.kind = "update" -> <<Key[passed[i]], passed[i]>>]

\* provider_table_insert.cpp:36: a statement one of whose sources broke off has sent the provider
\* nothing, although the sink may already hold rows of it.
NoWriteFromBrokenSource ==
    (\E s \in Scans : call[s].step = "broken" \/ call[s].decoder.failed) => payload = None

\* vcat_key_check.hpp:23: an UPDATE or DELETE whose key also matched a row it was not shown does not
\* report success, provided the function counts what it wrote and no row reached the sink twice.
HiddenRowsAreReported ==
    /\ phase = "done" /\ stmt.kind \in {"update", "delete"}
    /\ outcome.answer = "count" /\ IsInjective(passed)
    => outcome.rows \subseteq ToSet(passed)

================================================================================
