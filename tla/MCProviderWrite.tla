---------------------------- MODULE MCProviderWrite ----------------------------
(***************************************************************************)
(* One statement with up to two scans; a table of four rows, two of them     *)
(* with the same key of which the scans are shown one; two registrations.    *)
(***************************************************************************)
EXTENDS ProviderWrite

CONSTANTS s1, s2

Msg(type) == [type |-> type, rows |-> <<>>]
Batch(rows) == [type |-> "batch", rows |-> rows]
Frame(messages) == [is |-> "frame", frame |-> messages]
Raise == [is |-> "raise", frame |-> <<>>]

MCRows == 1..6
MCTable == 1..4
MCKey == <<"k1", "k1", "k2", "k3">>
MCUnreadable == {4}

Yields(answers) == [schema |-> <<Msg("schema")>>, answers |-> answers]

\* An empty yield in the middle, marks of end of stream, an error after rows, a frame that breaks
\* off after a batch, and openings that fail.
MCGenerators ==
    s1 :> {Yields(<<Frame(<<Batch(<<5>>)>>), Frame(<<>>), Frame(<<Batch(<<6>>)>>)>>),
           Yields(<<Frame(<<Batch(<<5>>), Batch(<<6>>), Msg("eos"), Batch(<<5>>)>>)>>),
           Yields(<<Frame(<<Msg("schema"), Msg("dictionary"), Batch(<<5>>), Msg("eos")>>),
                    Frame(<<Msg("eos")>>), Frame(<<Batch(<<6>>)>>)>>),
           Yields(<<Frame(<<Batch(<<5>>)>>), Raise>>),
           Yields(<<Frame(<<Batch(<<5>>), Msg("relaid")>>)>>),
           [schema |-> <<Msg("relaid")>>, answers |-> <<Frame(<<Batch(<<5>>)>>), Frame(<<Msg("schema")>>)>>],
           [schema |-> None, answers |-> <<>>], [schema |-> <<>>, answers |-> <<>>],
           [schema |-> <<Msg("unreadable")>>, answers |-> <<>>]}
    @@ s2 :> {Yields(<<>>)}

MCReads ==
    {Frame(<<Msg("schema"), Batch(<<1>>), Batch(<<3>>), Msg("eos")>>),
     Frame(<<Msg("schema"), Batch(<<1, 3>>)>>),
     Frame(<<Msg("schema"), Batch(<<1>>), Batch(<<4>>)>>),
     Frame(<<Msg("schema"), Batch(<<1>>), Msg("unreadable")>>),
     Frame(<<Batch(<<1>>)>>), Frame(<<Msg("relaid"), Batch(<<1>>)>>), Frame(<<>>), Raise, None}

Reading(kind, a, b, rowid) ==
    [kind |-> kind, scan |-> (s1 :> a @@ s2 :> b), rowid |-> rowid,
     written |-> IF kind \in {"update", "delete"} THEN s1 ELSE None, returning |-> FALSE, supports |-> Verbs, keyed |-> TRUE]

MCStatements ==
    {Reading("explain", "stream", "unused", {}),
     Reading("select", "stream", "stream", {}),
     Reading("select", "target", "unused", {s1}),
     Reading("insert", "other", "unused", {}),
     Reading("insert", "stream", "unused", {}),
     Reading("delete", "target", "target", {s1, s2}),
     Reading("update", "target", "target", {s1}),
     Reading("update", "target", "other", {s1}),
     [Reading("delete", "target", "unused", {s1}) EXCEPT !.keyed = FALSE],
     [Reading("insert", "stream", "unused", {}) EXCEPT !.supports = {}],
     [Reading("update", "target", "unused", {s1}) EXCEPT !.returning = TRUE]}

================================================================================
