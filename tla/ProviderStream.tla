----------------------------- MODULE ProviderStream -----------------------------
(***************************************************************************)
(* Stream functions: table functions whose rows a host's generator yields    *)
(* one Arrow frame at a time (src/provider/vcat_stream_function.cpp,         *)
(* arrow_frame_decoder.cpp, and rpc_stream.py on the host's side).           *)
(*                                                                         *)
(* The generator is opened when a statement is bound and closed when the     *)
(* stream is exhausted or released, whichever comes first.  A host may       *)
(* register again, which replaces the function's catalog entry, and may      *)
(* withdraw its functions while a statement is reading them.                 *)
(*                                                                         *)
(* The statement itself is ProviderWrite's: here `phase' says only whether   *)
(* it is being bound, runs, has failed or is done.                           *)
(***************************************************************************)
EXTENDS Integers, Sequences, FiniteSets, SequencesExt

CONSTANTS
    Scans,       \* the scans of the statement
    Hosts,       \* registrations of the function, HostStreamUdfs each
    FirstHost,   \* the one in place when the statement starts
    Generators,  \* Generators[s]: what the generator of the function s calls may do
    Rows,        \* the rows it may yield
    None

\* The messages of an Arrow stream with the rows of a set: only a batch has any.
Messages(rows) ==
    [type: {"batch"}, rows: Seq(rows)]
    \cup [type: {"schema", "relaid", "dictionary", "eos", "unreadable"}, rows: {<<>>}]

\* What a host's function may answer.
Answers(rows) == [is: {"frame"}, frame: Seq(Messages(rows))] \cup [is: {"raise"}, frame: {<<>>}]

Generator == [schema: Seq(Messages(Rows)) \cup {None}, answers: Seq(Answers(Rows))]

ASSUME StreamAssumption ==
    /\ IsFiniteSet(Scans) /\ FirstHost \in Hosts
    /\ None \notin Hosts /\ Generators \in [Scans -> SUBSET Generator]

VARIABLES
    phase,    \* of the statement: "bind", "run", "writing", "done" or "failed"
    entry,    \* the registration the function's catalog entry calls, None if there is no entry
    host,     \* host[h]: how far registration and teardown of h have come
    live,     \* live[h]: HostStreamUdfs._live, the handles of its open generators
    gens,     \* gens[n]: the generator opened under handle n
    counter,  \* OpenHostStream's handle_counter
    call      \* call[s]: the HostStream of scan s

streamVars == <<phase, entry, host, live, gens, counter, call>>
hostVars == <<entry, host>>

Handles == 1..Cardinality(Scans)

--------------------------------------------------------------------------------
(* ArrowFrameDecoder *)

\* The layout of the schema that came first: either of the two a host may send.
Layouts == {"schema", "relaid"}

Decoders(rows) ==
    [schema: Layouts \cup {"none"}, done: BOOLEAN, failed: BOOLEAN, batches: Seq(Seq(rows))]

NewDecoder == [schema |-> "none", done |-> FALSE, failed |-> FALSE, batches |-> <<>>]

HasSchema(d) == d.schema # "none"

HasBatch(d) == d.batches # <<>>

\* SameLayout: a schema sent again must be laid out as the first one.
SchemaIsRefused(d, m) == m.type \in Layouts /\ HasSchema(d) /\ d.schema # m.type

ComesTooEarly(d, m) == m.type \in {"batch", "dictionary"} /\ ~HasSchema(d)

\* One message of a frame; what a dictionary holds is nanoarrow's.
Decode(d, m) ==
    IF d.failed THEN d
    ELSE IF m.type = "unreadable" \/ SchemaIsRefused(d, m) \/ ComesTooEarly(d, m)
    THEN [d EXCEPT !.failed = TRUE, !.schema = IF SchemaIsRefused(d, m) THEN "none" ELSE @]
    ELSE [d EXCEPT !.schema = IF m.type \in Layouts THEN m.type ELSE @,
                   !.batches = IF m.type = "batch" THEN Append(@, m.rows) ELSE @]

IsEndOfStream(m) == m.type = "eos"

\* The messages up to the end-of-stream mark are decoded and what follows it in the frame is
\* not looked at.  A later frame is decoded all the same; only `done' stays.
PushFrame(d, frame) ==
    LET eos == SelectInSeq(frame, IsEndOfStream)
        read == FoldLeft(Decode, d, IF eos = 0 THEN frame ELSE SubSeq(frame, 1, eos - 1))
    IN  IF d.failed THEN d ELSE [read EXCEPT !.done = @ \/ (eos # 0 /\ ~read.failed)]

\* TryPopBatch: batches leave in the order they came.
Pop(d) == [d EXCEPT !.batches = Tail(@)]

--------------------------------------------------------------------------------
(* What the host answers *)

\* Prepare finds the three functions until the teardown removes them.
Callable(h) == host[h] \in {"up", "dropped"}

\* HostStreamUdfs._open: the generator is in _live before its schema is returned.  A call that was
\* under way when the teardown emptied _live still puts it there, where nobody looks again.
OpenGenerator(h, n, g) ==
    LET state == IF host[h] = "gone" THEN "missed" ELSE "open"
    IN  /\ live' = [live EXCEPT ![h] = @ \cup {n}]
        /\ gens' = [gens EXCEPT ![n] = [does |-> g, pos |-> 0, busy |-> FALSE, state |-> state, closes |-> 0]]

\* HostStreamUdfs._close: the first call takes the handle out and runs the generator's `finally'.
CloseUdf(h, n, gs) ==
    LET found == Callable(h) /\ n \in live[h]
    IN  /\ live' = [live EXCEPT ![h] = IF found THEN @ \ {n} ELSE @]
        /\ gens' = [gs EXCEPT ![n].closes = @ + 1, ![n].state = IF found THEN "closed" ELSE @]

--------------------------------------------------------------------------------
(* HostStream *)

NoCall ==
    [step |-> "none", host |-> None, handle |-> None, opened |-> FALSE, exhausted |-> FALSE,
     closed |-> FALSE, decoder |-> NewDecoder, got |-> <<>>]

\* An error in any scan fails the statement; what it holds is destroyed afterwards.
Throws == phase' = "failed"

CloseOnceMutForgets(s, c, gs) ==
    /\ call' = [call EXCEPT ![s] = c]
    /\ IF c.opened THEN CloseUdf(c.host, c.handle, gs) ELSE gens' = gs /\ UNCHANGED live

\* CloseOnce, which leaves c behind; whatever the close function does is swallowed.
CloseOnce(s, c, gs) ==
    IF c.opened /\ ~c.closed
    THEN call' = [call EXCEPT ![s] = [c EXCEPT !.closed = TRUE]] /\ CloseUdf(c.host, c.handle, gs)
    ELSE call' = [call EXCEPT ![s] = c] /\ gens' = gs /\ UNCHANGED live

\* The binder finds the function's entry, and OpenHostStream gives the call a handle of its own.
BeginOpen(s) ==
    /\ phase = "bind" /\ call[s].step = "none"
    /\ \A t \in Scans : call[t].step \notin {"opening", "opened"}
    /\ \/ /\ entry # None
          /\ counter' = counter + 1
          /\ call' = [call EXCEPT ![s] = [NoCall EXCEPT !.step = "opening", !.host = entry,
                                                         !.handle = counter + 1]]
          /\ UNCHANGED phase
       \/ entry = None /\ Throws /\ UNCHANGED <<counter, call>>
    /\ UNCHANGED <<hostVars, live, gens>>

\* The open function raises or returns no schema: there is no generator to close.
OpenFails(s) ==
    /\ call[s].step = "opening"
    /\ ~Callable(call[s].host) \/ \E g \in Generators[s] : g.schema = None
    /\ call' = [call EXCEPT ![s].step = "broken"]
    /\ Throws
    /\ UNCHANGED <<hostVars, live, gens, counter>>

\* It returns a schema message, which may be empty or unreadable: then the stream is destroyed.
OpenSucceeds(s) ==
    /\ call[s].step = "opening"
    /\ \E g \in Generators[s] :
          /\ g.schema # None
          /\ OpenGenerator(call[s].host, call[s].handle, g)
          /\ \E d \in {PushFrame(NewDecoder, g.schema)} :
                \/ /\ HasSchema(d) /\ ~d.failed
                   /\ call' = [call EXCEPT ![s].opened = TRUE, ![s].decoder = d, ![s].step = "opened"]
                   /\ UNCHANGED phase
                \/ /\ d.failed \/ ~HasSchema(d)
                   /\ call' = [call EXCEPT ![s].opened = TRUE, ![s].decoder = d, ![s].step = "broken"]
                   /\ Throws
    /\ UNCHANGED <<hostVars, counter>>

\* The next function is prepared while the statement is still being bound.
PrepareNext(s) ==
    /\ call[s].step = "opened"
    /\ \/ Callable(call[s].host) /\ call' = [call EXCEPT ![s].step = "bound"] /\ UNCHANGED phase
       \/ ~Callable(call[s].host) /\ call' = [call EXCEPT ![s].step = "broken"] /\ Throws
    /\ UNCHANGED <<hostVars, live, gens, counter>>

\* TakeHostStreamOnce: the scan's wrapper becomes the stream's only owner.
TakeHostStreamOnce(s) ==
    /\ phase = "run" /\ call[s].step = "bound"
    /\ call' = [call EXCEPT ![s].step = "reading"]
    /\ UNCHANGED <<phase, hostVars, live, gens, counter>>

\* A plan that starts the scan again is refused.
RestartStream(s) ==
    /\ phase = "run" /\ call[s].step \in {"reading", "ended"}
    /\ Throws
    /\ UNCHANGED <<hostVars, live, gens, counter, call>>

\* HostStreamGetNext, a batch of the last frame is still there.
PopBatch(s) ==
    /\ phase = "run" /\ call[s].step = "reading" /\ HasBatch(call[s].decoder)
    /\ call' = [call EXCEPT ![s].decoder = Pop(@), ![s].got = @ \o Head(call[s].decoder.batches)]
    /\ UNCHANGED <<phase, hostVars, live, gens, counter>>

\* HostStreamGetNext, the next function is called; it may be gone, or not know the handle.
CallNext(s) ==
    LET c == call[s]
        known == Callable(c.host) /\ c.handle \in live[c.host]
    IN  /\ phase = "run" /\ c.step = "reading" /\ ~HasBatch(c.decoder)
        /\ \/ /\ known
              /\ gens' = [gens EXCEPT ![c.handle].busy = TRUE]
              /\ call' = [call EXCEPT ![s].step = "pulling"]
              /\ UNCHANGED phase
           \/ ~known /\ Throws /\ UNCHANGED <<gens, call>>
        /\ UNCHANGED <<hostVars, live, counter>>

EndsMutIgnoresQueue(d) == d.done

\* A frame that left no batch ends the stream if an end-of-stream mark was ever seen.
Ends(d) == ~HasBatch(d) /\ d.done

Script(s) == gens[call[s].handle].does.answers
Pos(s) == gens[call[s].handle].pos
AnswerOf(s) == Script(s)[Pos(s) + 1]

\* The generator has answered, and waits for the next call.
Answered(s, n) == [gens EXCEPT ![call[s].handle].busy = FALSE, ![call[s].handle].pos = n]

\* HostStreamGetNext, NULL: the generator is over, and closed at once.
NextEnds(s) ==
    /\ call[s].step = "pulling" /\ Pos(s) = Len(Script(s))
    /\ CloseOnce(s, [call[s] EXCEPT !.step = "ended", !.exhausted = TRUE], Answered(s, Pos(s)))
    /\ UNCHANGED <<phase, hostVars, counter>>

\* HostStreamGetNext, an error: the generator stays open until the stream is released.
NextRaises(s) ==
    /\ call[s].step = "pulling" /\ Pos(s) < Len(Script(s)) /\ AnswerOf(s).is = "raise"
    /\ call' = [call EXCEPT ![s].step = "broken"]
    /\ gens' = Answered(s, Pos(s) + 1)
    /\ Throws
    /\ UNCHANGED <<hostVars, live, counter>>

\* HostStreamGetNext, a frame: an error if it cannot be decoded, the end if it only carries the
\* mark.  One that carries nothing is not the end: the next call follows.
NextYields(s) ==
    /\ call[s].step = "pulling" /\ Pos(s) < Len(Script(s)) /\ AnswerOf(s).is = "frame"
    /\ \E d \in {PushFrame(call[s].decoder, AnswerOf(s).frame)} :
          \/ /\ d.failed
             /\ call' = [call EXCEPT ![s].step = "broken", ![s].decoder = d]
             /\ gens' = Answered(s, Pos(s) + 1)
             /\ Throws /\ UNCHANGED live
          \/ /\ ~d.failed /\ Ends(d)
             /\ CloseOnce(s, [call[s] EXCEPT !.step = "ended", !.exhausted = TRUE, !.decoder = d],
                          Answered(s, Pos(s) + 1))
             /\ UNCHANGED phase
          \/ /\ ~d.failed /\ ~Ends(d)
             /\ call' = [call EXCEPT ![s].step = "reading", ![s].decoder = d]
             /\ gens' = Answered(s, Pos(s) + 1)
             /\ UNCHANGED <<phase, live>>
    /\ UNCHANGED <<hostVars, counter>>

\* The plan has all the rows it wants (LIMIT) and asks for no more.
EnoughRows(s) ==
    /\ phase = "run" /\ call[s].step = "reading"
    /\ call' = [call EXCEPT ![s].step = "ended"]
    /\ UNCHANGED <<phase, hostVars, live, gens, counter>>

ReleaseMutOnlyTaken(s) ==
    /\ phase \in {"done", "failed"} /\ call[s].step \in {"reading", "ended", "broken"}
    /\ CloseOnce(s, [call[s] EXCEPT !.step = "gone"], gens)
    /\ UNCHANGED <<phase, hostVars, counter>>

\* The end of the statement releases the stream: its wrapper does, or, if no scan ever took it,
\* HostStreamData's destructor.
Release(s) ==
    /\ phase \in {"done", "failed"} /\ call[s].step \in {"bound", "reading", "ended", "broken"}
    /\ CloseOnce(s, [call[s] EXCEPT !.step = "gone"], gens)
    /\ UNCHANGED <<phase, hostVars, counter>>

--------------------------------------------------------------------------------
(* The host registers and withdraws *)

\* CreateStreamFunctionEntries: an entry of that name is replaced.
Register(h) ==
    /\ host[h] = "new"
    /\ host' = [host EXCEPT ![h] = "up"]
    /\ entry' = h
    /\ UNCHANGED <<phase, live, gens, counter, call>>

\* DropStreamFunctionEntries: whatever has the name is dropped, also another registration's
\* entry; that there is none is not an error.
DropEntries(h) ==
    /\ host[h] = "up"
    /\ host' = [host EXCEPT ![h] = "dropped"]
    /\ entry' = None
    /\ UNCHANGED <<phase, live, gens, counter, call>>

RemoveUdfs(h) ==
    /\ host[h] = "dropped"
    /\ host' = [host EXCEPT ![h] = "removed"]
    /\ UNCHANGED <<phase, entry, live, gens, counter, call>>

\* Every generator still open is closed.  One that is answering a call cannot be: aclose() raises,
\* which is logged, and its handle is forgotten with the others.
CloseStreams(h) ==
    /\ host[h] = "removed"
    /\ host' = [host EXCEPT ![h] = "gone"]
    /\ live' = [live EXCEPT ![h] = {}]
    /\ gens' = [n \in Handles |->
                  IF n \notin live[h] THEN gens[n]
                  ELSE [gens[n] EXCEPT !.state = IF gens[n].busy THEN "missed" ELSE "closed"]]
    /\ UNCHANGED <<phase, entry, counter, call>>

--------------------------------------------------------------------------------

StreamInit ==
    /\ entry = FirstHost
    /\ host = [h \in Hosts |-> IF h = FirstHost THEN "up" ELSE "new"]
    /\ live = [h \in Hosts |-> {}]
    /\ gens = [n \in Handles |-> None]
    /\ counter = 0
    /\ call = [s \in Scans |-> NoCall]

StreamStep(s) ==
    \/ OpenFails(s) \/ OpenSucceeds(s) \/ PrepareNext(s) \/ TakeHostStreamOnce(s)
    \/ PopBatch(s) \/ CallNext(s) \/ NextEnds(s) \/ NextRaises(s) \/ NextYields(s) \/ Release(s)

Teardown(h) == RemoveUdfs(h) \/ CloseStreams(h)

HostStep(h) == Register(h) \/ DropEntries(h) \/ Teardown(h)

Calls ==
    [step: {"none", "opening", "opened", "bound", "reading", "pulling", "ended", "broken", "gone"},
     host: Hosts \cup {None}, handle: Handles \cup {None}, opened: BOOLEAN, exhausted: BOOLEAN,
     closed: BOOLEAN, decoder: Decoders(Rows), got: Seq(Rows)]

OpenGenerators ==
    [does: UNION {Generators[s] : s \in Scans}, pos: Nat, busy: BOOLEAN, state: {"open", "closed", "missed"}, closes: Nat]

StreamTypeOK ==
    /\ entry \in Hosts \cup {None}
    /\ host \in [Hosts -> {"new", "up", "dropped", "removed", "gone"}]
    /\ live \in [Hosts -> SUBSET Handles]
    /\ gens \in [Handles -> OpenGenerators \cup {None}]
    /\ counter \in 0..Cardinality(Scans)
    /\ call \in [Scans -> Calls]

--------------------------------------------------------------------------------
(* What a stream function promises *)

\* vcat_stream_function.cpp:93: the close function is called at most once for a handle, whether the
\* stream is drained, cut short, cancelled or fails, and never for another call's handle.
ClosedOnce ==
    /\ \A n \in Handles : gens[n] # None => gens[n].closes <= 1
    /\ \A s, t \in Scans : s # t /\ call[s].handle # None => call[s].handle # call[t].handle

\* The rows of the schema message and of the first n answers, in the order the host sent them; a
\* frame is read up to its end-of-stream mark.
RowsOf(frame) ==
    LET eos == SelectInSeq(frame, IsEndOfStream)
        read == IF eos = 0 THEN frame ELSE SubSeq(frame, 1, eos - 1)
    IN  FlattenSeq([i \in 1..Len(read) |-> read[i].rows])
RowsSent(g, n) == RowsOf(g.does.schema) \o FlattenSeq([i \in 1..n |-> RowsOf(g.does.answers[i].frame)])

\* vcat_stream_function.cpp:112: a call delivers the rows of its own generator, in order and none
\* twice; one that was read to its end has delivered every row of the frames it pulled, and has
\* stopped at the generator's end or after an end-of-stream mark.
DeliversWhatWasSent ==
    \A s \in Scans : call[s].opened =>
        LET c == call[s]
            g == gens[c.handle]
        IN  /\ ~c.decoder.failed => c.got \o FlattenSeq(c.decoder.batches) = RowsSent(g, g.pos)
            /\ c.exhausted => /\ c.got = RowsSent(g, g.pos)
                              /\ g.pos = Len(g.does.answers) \/ c.decoder.done

IsOpen(n) == gens[n] # None /\ gens[n].state = "open"

\* vcat_stream_function.cpp:86, :239: in the end every generator that was opened is closed, by its
\* call or by the host's teardown.  Only one that is answering a call, or still being opened, when the
\* teardown empties _live is not.
GeneratorsAreClosed == <>[](\A n \in Handles : ~IsOpen(n))

================================================================================
