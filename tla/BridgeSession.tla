----------------------------- MODULE BridgeSession -----------------------------
(***************************************************************************)
(* Target transactions that send DDL through one live bridge                *)
(* (DuckDBSession, src/bridge/duckdb_source.cpp; the commit order is        *)
(* BridgeTransactionManager's, bridge_catalog.cpp).                         *)
(*                                                                         *)
(* A session runs its statements in one transaction of the source.  What a  *)
(* statement does to the tables is the source transaction's; what it does   *)
(* to the bridge's grants is written at once to the GrantBook all sessions  *)
(* share, with an undo for a rollback.  While any undo is outstanding the   *)
(* owner cannot change the policy (uncommitted_ddl).                        *)
(*                                                                         *)
(* The source database is DuckDB itself and is modelled from how the bridge *)
(* uses it: a transaction sees the catalog as it was when it began and its  *)
(* own changes, and a statement that would change an entry another open     *)
(* transaction changed, or that was committed since, is refused.            *)
(*                                                                         *)
(* A grant is "policied" when the owner made it and "full" when RecordDdl   *)
(* made it; the tables are those of one schema the target may create in.    *)
(* A statement that is refused changes nothing and is a stuttering step.    *)
(***************************************************************************)
EXTENDS Integers, Sequences, SequencesExt, FiniteSetsExt

CONSTANTS
    Sessions,     \* target transactions that may be open together
    Names,        \* table names
    None,         \* no grant, no table, no session
    MaxUndo,      \* bound: grant changes of one transaction
    MaxFailures   \* bound: source commits that fail in a behaviour

ASSUME SessionBounds == IsFiniteSet(Sessions) /\ MaxUndo \in Nat /\ MaxFailures \in Nat

Grant == {"policied", "full"}

Ddl ==
    [verb: {"create", "drop", "alter"}, name: Names]
    \cup [verb: {"rename"}, name: Names, to: Names]

Undo ==
    [verb: {"create", "drop"}, name: Names, old: Grant \cup {None}]
    \cup [verb: {"rename"}, name: Names, to: Names]

\* view: the tables the source transaction sees; written: the catalog entries it changed; stale:
\* entries committed by others since it began; ddl: the statement the source ran that is not
\* recorded yet.  A session that "left" was destroyed, but its connection is still there.
DuckDBSession ==
    [step: {"open", "committed", "failed", "undone", "left"}, view: SUBSET Names, written: SUBSET Names,
     stale: SUBSET Names, ddl: Ddl \cup {None}, undo: Seq(Undo)]

ASSUME NoneIsNew == None \notin Sessions \cup Grant \cup Ddl \cup DuckDBSession

VARIABLES
    grants,           \* GrantBook::tables
    shaping,          \* GrantBook::shaping: the session whose connection describes a table
    uncommitted_ddl,  \* GrantBook::uncommitted_ddl
    sess,             \* the sessions with a connection to the source
    catalog,          \* the committed tables of the source
    failures          \* how many source commits failed

bookVars == <<grants, shaping, uncommitted_ddl>>
vars == <<grants, shaping, uncommitted_ddl, sess, catalog, failures>>

Init ==
    /\ catalog = Names
    /\ grants \in [Names -> {"policied", None}]
    /\ shaping = [n \in Names |-> None]
    /\ uncommitted_ddl = 0
    /\ sess = [s \in Sessions |-> None]
    /\ failures = 0

--------------------------------------------------------------------------------
(* The source's transactions *)

InStep(s, step) == sess[s] # None /\ sess[s].step = step

\* s is between two statements.
Ready(s) == InStep(s, "open") /\ sess[s].ddl = None

\* The source lets s change the entry n.
MayChange(s, n) ==
    /\ n \notin sess[s].stale
    /\ \A t \in Sessions \ {s} : sess[t] # None => n \notin sess[t].written

\* The open sessions of `all' learn that the entries in S were committed by another transaction.
OthersStale(all, S) ==
    [t \in Sessions |-> IF all[t] # None /\ all[t].step = "open"
                          THEN [all[t] EXCEPT !.stale = @ \cup S] ELSE all[t]]

\* Shared(): the first statement opens the connection and begins its transaction.
Shared(s) ==
    /\ sess[s] = None
    /\ sess' = [sess EXCEPT ![s] =
                  [step |-> "open", view |-> catalog, written |-> {}, stale |-> {}, ddl |-> None,
                   undo |-> <<>>]]
    /\ UNCHANGED <<bookVars, catalog, failures>>

\* The source ran statement d of s: it changed the entries in S, which now are `view'.
Ran(s, d, S, view) ==
    /\ \A n \in S : MayChange(s, n)
    /\ sess' = [sess EXCEPT ![s].view = view, ![s].written = @ \cup S, ![s].ddl = d]
    /\ UNCHANGED <<bookVars, catalog, failures>>

--------------------------------------------------------------------------------
(* DuckDBSession::Ddl, up to the statement on the source *)

\* CreateWouldCreate: OR REPLACE of an existing table needs a grant on it, IF NOT EXISTS changes
\* nothing, and a plain CREATE is left to fail on the source.
CreateTable(s, n, replace) ==
    /\ Ready(s) /\ Len(sess[s].undo) < MaxUndo
    /\ n \in sess[s].view => replace /\ grants[n] # None
    /\ Ran(s, [verb |-> "create", name |-> n], {n}, sess[s].view \cup {n})

\* A drop, and every change below, is sent for a table the bridge serves.
DropTable(s, n) ==
    /\ Ready(s) /\ Len(sess[s].undo) < MaxUndo
    /\ n \in sess[s].view /\ grants[n] # None
    /\ Ran(s, [verb |-> "drop", name |-> n], {n}, sess[s].view \ {n})

\* Any ALTER that keeps the table's name.
AlterTable(s, n) ==
    /\ Ready(s)
    /\ n \in sess[s].view /\ grants[n] # None
    /\ Ran(s, [verb |-> "alter", name |-> n], {n}, sess[s].view)

RenameTable(s, n, m) ==
    /\ Ready(s) /\ Len(sess[s].undo) < MaxUndo
    /\ n \in sess[s].view /\ grants[n] # None /\ m \notin sess[s].view
    /\ Ran(s, [verb |-> "rename", name |-> n, to |-> m], {n, m},
           (sess[s].view \ {n}) \cup {m})

--------------------------------------------------------------------------------
(* RecordDdl, under GrantBook::lock *)

RecordedMutUncounted(s, undo) ==
    /\ sess' = [sess EXCEPT ![s].ddl = None, ![s].undo = @ \o undo]
    /\ UNCHANGED <<uncommitted_ddl, catalog, failures>>

\* PushGrantUndo, and the statement is done.
Recorded(s, undo) ==
    /\ sess' = [sess EXCEPT ![s].ddl = None, ![s].undo = @ \o undo]
    /\ uncommitted_ddl' = uncommitted_ddl + Len(undo)
    /\ UNCHANGED <<catalog, failures>>

Recording(s, verb) == InStep(s, "open") /\ sess[s].ddl # None /\ sess[s].ddl.verb = verb

RecordCreateMutDropsReplaced(s) ==
    /\ Recording(s, "create")
    /\ LET n == sess[s].ddl.name
       IN  /\ grants' = [grants EXCEPT ![n] = "full"]
           /\ shaping' = [shaping EXCEPT ![n] = s]
           /\ Recorded(s, <<[verb |-> "create", name |-> n, old |-> None]>>)

\* The created table is granted every verb, in place of the grant its name had.
RecordCreate(s) ==
    /\ Recording(s, "create")
    /\ LET n == sess[s].ddl.name
       IN  /\ grants' = [grants EXCEPT ![n] = "full"]
           /\ shaping' = [shaping EXCEPT ![n] = s]
           /\ Recorded(s, <<[verb |-> "create", name |-> n, old |-> grants[n]]>>)

RecordDrop(s) ==
    /\ Recording(s, "drop")
    /\ LET n == sess[s].ddl.name
       IN  /\ grants' = [grants EXCEPT ![n] = None]
           /\ UNCHANGED shaping
           /\ Recorded(s, IF grants[n] = None THEN <<>>
                          ELSE <<[verb |-> "drop", name |-> n, old |-> grants[n]]>>)

RecordAlter(s) ==
    /\ Recording(s, "alter")
    /\ shaping' = [shaping EXCEPT ![sess[s].ddl.name] = s]
    /\ UNCHANGED grants
    /\ Recorded(s, <<>>)

\* The grant moves to the new name, over whatever grant that name still had.
RecordRename(s) ==
    /\ Recording(s, "rename")
    /\ LET n == sess[s].ddl.name
           m == sess[s].ddl.to
       IN  IF grants[n] = None
             THEN /\ shaping' = [shaping EXCEPT ![n] = s]
                  /\ UNCHANGED grants
                  /\ Recorded(s, <<>>)
             ELSE /\ shaping' = [shaping EXCEPT ![n] = s, ![m] = s]
                  /\ grants' = [grants EXCEPT ![n] = None, ![m] = grants[n]]
                  /\ Recorded(s, <<[verb |-> "rename", name |-> n, to |-> m]>>)

--------------------------------------------------------------------------------
(* The end of the transaction *)

\* One undo; a renamed grant that is gone stays gone.
Undone(u, book) ==
    CASE u.verb \in {"create", "drop"} -> [book EXCEPT ![u.name] = u.old]
      [] u.verb = "rename" ->
            IF book[u.to] = None THEN book
            ELSE [book EXCEPT ![u.to] = None, ![u.name] = book[u.to]]

\* UndoGrants, the last change first.
UndoGrants(book, undo) == FoldRight(Undone, undo, book)

\* ForgetShaping.
ShapingWithout(s) == [n \in Names |-> IF shaping[n] = s THEN None ELSE shaping[n]]

\* The source transaction of s is over: it sees and holds nothing any more.
Ended(s, step) ==
    [sess EXCEPT ![s].step = step, ![s].view = {}, ![s].written = {}, ![s].stale = {}]

\* Commit, first the source: the tables change for everyone who begins later.
CommitSource(s) ==
    /\ Ready(s)
    /\ catalog' = (catalog \ sess[s].written) \cup (sess[s].view \cap sess[s].written)
    /\ sess' = OthersStale(Ended(s, "committed"), sess[s].written)
    /\ UNCHANGED <<bookVars, failures>>

\* conn->Commit() throws (a key another transaction inserted, a failed write of the log): the source
\* transaction is over and its changes with it, the grants are as they were.
CommitSourceFails(s) ==
    /\ Ready(s)
    /\ failures < MaxFailures
    /\ failures' = failures + 1
    /\ sess' = Ended(s, "failed")
    /\ UNCHANGED <<bookVars, catalog>>

ForgetGrantUndoMutKeepsCount(s) == UNCHANGED uncommitted_ddl

ForgetGrantUndo(s) == uncommitted_ddl' = uncommitted_ddl - Len(sess[s].undo)

FinishCommitMutKeepsShaping(s) ==
    /\ InStep(s, "committed")
    /\ ForgetGrantUndo(s)
    /\ UNCHANGED <<grants, shaping>>
    /\ sess' = [sess EXCEPT ![s] = None]
    /\ UNCHANGED <<catalog, failures>>

FinishCommitMutKeepsUndo(s) ==
    /\ InStep(s, "committed")
    /\ ForgetGrantUndo(s)
    /\ shaping' = ShapingWithout(s)
    /\ sess' = [sess EXCEPT ![s].step = "open", ![s].view = catalog]
    /\ UNCHANGED <<grants, catalog, failures>>

\* Then, under GrantBook::lock, the grants stay as they are.
FinishCommit(s) ==
    /\ InStep(s, "committed")
    /\ ForgetGrantUndo(s)
    /\ shaping' = ShapingWithout(s)
    /\ sess' = [sess EXCEPT ![s] = None]
    /\ UNCHANGED <<grants, catalog, failures>>

\* The catch block of a commit that failed: the grants go back.
FinishFailedCommit(s) ==
    /\ InStep(s, "failed")
    /\ grants' = UndoGrants(grants, sess[s].undo)
    /\ ForgetGrantUndo(s)
    /\ shaping' = ShapingWithout(s)
    /\ sess' = [sess EXCEPT ![s] = None]
    /\ UNCHANGED <<catalog, failures>>

RollbackMutSourceFirst(s) ==
    /\ Ready(s)
    /\ sess' = Ended(s, "failed")
    /\ UNCHANGED <<bookVars, catalog, failures>>

\* Rollback, or a target commit that failed natively: the grants go back while the source
\* transaction still holds the tables it changed.
Rollback(s) ==
    /\ Ready(s)
    /\ grants' = UndoGrants(grants, sess[s].undo)
    /\ ForgetGrantUndo(s)
    /\ shaping' = ShapingWithout(s)
    /\ sess' = [sess EXCEPT ![s].step = "undone", ![s].view = {}, ![s].stale = {}, ![s].undo = <<>>]
    /\ UNCHANGED <<catalog, failures>>

\* Then the source rolls back.
FinishRollback(s) ==
    /\ InStep(s, "undone")
    /\ sess' = [sess EXCEPT ![s] = None]
    /\ UNCHANGED <<bookVars, catalog, failures>>

\* ~DuckDBSession of a transaction that neither committed nor rolled back, as when the target goes
\* away: the undos are forgotten, the grants and the shaping stay.  The connection, and with it the
\* source transaction, lives on in `shaping'; if it is not there, the source rolls back.
DestroySession(s) ==
    /\ Ready(s)
    /\ ForgetGrantUndo(s)
    /\ sess' = [sess EXCEPT ![s] = IF \E n \in Names : shaping[n] = s
                                     THEN [@ EXCEPT !.step = "left", !.undo = <<>>] ELSE None]
    /\ UNCHANGED <<grants, shaping, catalog, failures>>

--------------------------------------------------------------------------------
(* The owner *)

SetPolicyMutIgnoresDdl(n, grant) ==
    /\ grant # None => n \in catalog
    /\ grants' = [grants EXCEPT ![n] = grant]
    /\ UNCHANGED <<shaping, uncommitted_ddl, sess, catalog, failures>>

\* CommitPolicy on a live bridge: a change of the table policies waits for every undo.
SetPolicy(n, grant) ==
    /\ uncommitted_ddl = 0
    /\ grant # None => n \in catalog
    /\ grants' = [grants EXCEPT ![n] = grant]
    /\ UNCHANGED <<shaping, uncommitted_ddl, sess, catalog, failures>>

\* The owner creates or drops a table on the source, in a statement of its own; its grant, if it has
\* one, stays.
OwnerDdl(n) ==
    /\ \A s \in Sessions : sess[s] # None => n \notin sess[s].written
    /\ catalog' = IF n \in catalog THEN catalog \ {n} ELSE catalog \cup {n}
    /\ sess' = OthersStale(sess, {n})
    /\ UNCHANGED <<bookVars, failures>>

Statement(s) ==
    \/ \E n \in Names, replace \in BOOLEAN : CreateTable(s, n, replace)
    \/ \E n \in Names : DropTable(s, n) \/ AlterTable(s, n)
    \/ \E n, m \in Names : RenameTable(s, n, m)

Record(s) == RecordCreate(s) \/ RecordDrop(s) \/ RecordAlter(s) \/ RecordRename(s)

Finish(s) == FinishCommit(s) \/ FinishFailedCommit(s) \/ FinishRollback(s)

Next ==
    \/ \E s \in Sessions : \/ Shared(s) \/ Statement(s) \/ Record(s)
                           \/ CommitSource(s) \/ CommitSourceFails(s) \/ Rollback(s) \/ Finish(s)
                           \/ DestroySession(s)
    \/ \E n \in Names : \/ \E grant \in {"policied", None} : SetPolicy(n, grant)
                        \/ OwnerDdl(n)

Spec == Init /\ [][Next]_vars

--------------------------------------------------------------------------------
(* Properties *)

\* Types; a transaction of the source changes only entries it may change.
TypeOK ==
    /\ grants \in [Names -> Grant \cup {None}]
    /\ shaping \in [Names -> Sessions \cup {None}]
    /\ uncommitted_ddl \in Nat
    /\ sess \in [Sessions -> DuckDBSession \cup {None}]
    /\ catalog \subseteq Names
    /\ failures \in 0..MaxFailures

\* The undos of one session of `all', and of all of them.
Owes(all, s) == IF all[s] = None THEN 0 ELSE Len(all[s].undo)
Owed(all) == FoldSet(LAMBDA s, n : n + Owes(all, s), 0, Sessions)

\* uncommitted_ddl counts the undos that are outstanding, however the transactions that owe them
\* interleave and end: the owner is locked out exactly while there is one.
DdlIsCounted == uncommitted_ddl = Owed(sess)

UndoNames(s) ==
    {sess[s].undo[i].name : i \in DOMAIN sess[s].undo}
    \cup {u.to : u \in {v \in Range(sess[s].undo) : v.verb = "rename"}}

\* An open transaction owes undos only for tables it holds on the source, so the undos of two open
\* transactions never name the same table, and a rollback touches nobody else's grant.
UndoHoldsItsTables ==
    \A s \in Sessions : InStep(s, "open") => UndoNames(s) \subseteq sess[s].written

\* A table is described through the connection of the session that holds it on the source, destroyed
\* or not, and of nobody else; only between the end of a commit on the source and FinishCommit or
\* FinishFailedCommit does `shaping' name a session that holds it no longer.
ShaperHoldsTheTable ==
    \A n \in Names : shaping[n] # None =>
        /\ sess[shaping[n]] # None
        /\ \/ sess[shaping[n]].step \in {"committed", "failed"}
           \/ sess[shaping[n]].step \in {"open", "left"} /\ n \in sess[shaping[n]].written

\* The tables an open transaction created, by name, and that it did not drop or rename since.
Created(s) ==
    {n \in sess[s].view : \E i \in DOMAIN sess[s].undo :
                             sess[s].undo[i].verb = "create" /\ sess[s].undo[i].name = n}

\* test/sql/bridge/ddl.test:2: "a created table is granted every verb, undone on rollback".
\* While the transaction that created a table is open and between statements, the table is granted.
CreatedIsGranted ==
    \A s \in Sessions : Ready(s) => \A n \in Created(s) : grants[n] # None

\* It is, as long as no commit failed on the source.
CreatedIsGrantedUnlessCommitFailed == failures = 0 => CreatedIsGranted

\* Recording a statement adds the undo that takes exactly it back: what the grants would return to
\* on a rollback is the same before and after.  A rename over a grant that outlived its table is the
\* exception: the undo does not know of that grant.
UndoInvertsUnlessRenamedOver ==
    [][\A s \in Sessions :
          /\ Record(s)
          /\ sess[s].ddl.verb = "rename" => grants[sess[s].ddl.to] = None
          => UndoGrants(grants', sess'[s].undo) = UndoGrants(grants, sess[s].undo)]_vars

\* The policy the owner set is not changed under an undo: while one is outstanding, the only grants
\* that change are those of tables a target transaction holds on the source, or held until its
\* commit failed.
OnlyHeldGrantsChange ==
    [][uncommitted_ddl > 0 =>
          \A n \in Names : grants'[n] # grants[n] =>
              \E s \in Sessions : /\ sess[s] # None
                                  /\ n \in sess[s].written \cup UndoNames(s)]_vars

================================================================================
