---------------------------- MODULE BridgeStatement ----------------------------
(***************************************************************************)
(* Statements of the target that cross a live bridge, and the owner who      *)
(* changes the policy, the context and the attached databases of the source  *)
(* meanwhile (src/bridge/duckdb_source.cpp, bridge_catalog.cpp,              *)
(* predicate_fold.cpp).                                                      *)
(*                                                                         *)
(* GrantBook::lock and BridgeContext::lock are held for one lookup at a      *)
(* time, so a statement meets the book in several critical sections: one     *)
(* action each.  A statement that throws is over and leaves nothing behind.  *)
(*                                                                         *)
(* `history' is the book after each of the owner's changes; the last one is  *)
(* the book.  How a change is checked and committed is BridgePolicy's, what  *)
(* DDL does to the grants is BridgeSession's: here the owner is one client,  *)
(* and the only DDL is an ALTER that keeps the table's name.                 *)
(*                                                                         *)
(* Two parts are not in the repository.  The crossing library that plans the *)
(* statements describes a table before it plans a statement on it, refuses a *)
(* verb the description lacks, and runs the plan later.  DuckDB's catalog,   *)
(* in which the target keeps its native schemas, is multi-versioned: a       *)
(* transaction goes on seeing a schema whose DROP committed after it began,  *)
(* and what the system transaction creates is seen by all.                   *)
(***************************************************************************)
EXTENDS Integers, Sequences

CONSTANTS
    Sessions,         \* target transactions that may be open together
    Tables,           \* tables the source may grant
    Schemas,          \* schemas of the source
    SchemaOf,         \* SchemaOf[t]
    Preds,            \* policy predicates
    TruePred,         \* the predicate that is literally 'true'
    Names,            \* context names
    Values,           \* context values
    Unset,            \* no value
    Uses,             \* Uses[p]: the $names in p
    FoldsWith,        \* FoldsWith[p]: the values with which the optimizer folds p to true
    Mentions,         \* Mentions[p]: the columns p names
    Grants,           \* Grants[t]: the grants table t may have
    InitialBooks,     \* the books a bridge may be attached with
    Columns,          \* columns
    Statements,       \* the statements the target runs
    CatalogNames,     \* names under which the source attaches databases
    Databases,        \* databases the source attaches
    Pinned,           \* the one the bridge was registered for
    None,
    MaxChanges        \* bound: changes the owner makes in a behaviour

Verbs == {"select", "insert", "update", "delete", "alter"}

\* A grant the owner made has a predicate for every verb; one RecordDdl made has verbs only.
\* InstallVerb leaves no predicate behind for a verb that is not granted.
SourceGrant ==
    {g \in [verbs: SUBSET Verbs, using: [Verbs -> Preds \cup {None}],
            check: [Verbs -> Preds \cup {None}], key: SUBSET Columns] :
        \A v \in Verbs \ g.verbs : g.using[v] = None /\ g.check[v] = None}

Statement ==
    [kind: Verbs, table: Tables, floors: Seq(Tables), reads_rows: BOOLEAN,
     column: Columns \cup {None}, expression: BOOLEAN]

\* GrantBook and BridgeContext.
Books == [grants: [Tables -> SourceGrant \cup {None}], values: [Names -> Values \cup {Unset}]]

ASSUME StatementAssumption ==
    /\ SchemaOf \in [Tables -> Schemas]
    /\ TruePred \in Preds /\ Uses \in [Preds -> SUBSET Names] /\ Uses[TruePred] = {}
    /\ FoldsWith \in [Preds -> SUBSET Values] /\ Mentions \in [Preds -> SUBSET Columns]
    /\ Unset \notin Values /\ None \notin Preds \cup Tables \cup Columns
    /\ \A p \in Preds : None \notin [pred: {p}, values: [Uses[p] -> Values \cup {Unset}]]
    /\ Grants \in [Tables -> SUBSET SourceGrant] /\ InitialBooks \subseteq Books
    /\ \A s \in Statements :
          /\ s \in Statement
          /\ s.kind = "select" => s.floors # <<>> /\ s.floors[1] = s.table
    /\ Pinned \in Databases /\ None \notin Databases \cup CatalogNames
    /\ MaxChanges \in Nat

VARIABLES
    history,     \* the book after each change
    schemas,     \* the native schemas of the target's catalog, as committed
    dropping,    \* the DROP SCHEMA under way: None, checked only, or dropped and not yet committed
    lingering,   \* schemas whose drop has committed while an older transaction may still see them
    begun,       \* the sessions whose transaction on the target has begun
    seen,        \* seen[c]: the dropped schemas the transaction of c still sees
    bound,       \* DuckDBSource::bound, and whether Bind has created the served schemas
    stmt,        \* stmt[c]: the statement c is in the middle of
    autocommit,  \* DuckDBSession::autocommit
    refs,        \* refs[c]: the databases the source transaction of c refers to, by name
    attached,    \* the databases the source has attached, by name
    moves        \* how often they changed

dropVars == <<dropping, lingering>>
catalogVars == <<schemas, bound, dropping, lingering>>
ownerVars == <<history, attached, moves>>
targetVars == <<begun, seen>>
vars == <<catalogVars, targetVars, stmt, autocommit, refs, ownerVars>>

book == history[Len(history)]

NoRefs == [n \in CatalogNames |-> None]

Served(b) == {SchemaOf[t] : t \in {u \in Tables : b.grants[u] # None}}

PredsOf(grant) ==
    ({grant.using[v] : v \in Verbs} \cup {grant.check[v] : v \in Verbs}) \ {None}

\* RedeemBridge takes the book over as it is, also one whose policy uses a name without a value.
Init ==
    /\ \E b \in InitialBooks : history = <<b>>
    /\ \/ bound = "unbound" /\ schemas = {}
       \/ bound = "served" /\ schemas = Served(book)
    /\ dropping = None /\ lingering = {} /\ begun = {} /\ seen = [c \in Sessions |-> {}]
    /\ stmt = [c \in Sessions |-> None]
    /\ autocommit \in [Sessions -> BOOLEAN]
    /\ refs = [c \in Sessions |-> NoRefs]
    /\ attached \in {a \in [CatalogNames -> Databases \cup {None}] :
                        /\ \E n \in CatalogNames : a[n] = Pinned
                        /\ \A m, n \in CatalogNames : a[m] = a[n] /\ a[m] # None => m = n}
    /\ moves = 0

--------------------------------------------------------------------------------
(* The statement c is in the middle of, and how it moves on *)

At(c, step) == stmt[c] # None /\ stmt[c].step = step

Goes(c, step) ==
    /\ stmt' = [stmt EXCEPT ![c].step = step]
    /\ UNCHANGED <<catalogVars, ownerVars, targetVars, autocommit, refs>>

\* The statement goes on with what it just learned.
Learns(c, s) ==
    /\ stmt' = [stmt EXCEPT ![c] = s]
    /\ UNCHANGED <<catalogVars, ownerVars, targetVars, autocommit, refs>>

\* The statement is over; an autocommit statement ends its transactions on both sides with it.
Ends(c) ==
    /\ stmt' = [stmt EXCEPT ![c] = None]
    /\ refs' = [refs EXCEPT ![c] = IF autocommit[c] THEN NoRefs ELSE @]
    /\ seen' = [seen EXCEPT ![c] = IF autocommit[c] THEN {} ELSE @]
    /\ begun' = IF autocommit[c] THEN begun \ {c} ELSE begun
    /\ UNCHANGED <<catalogVars, ownerVars, autocommit>>

GrantOf(t) == book.grants[t]

\* Grants, UsingFor and CheckFor: each reads the book once, under its lock.
Has(t, verb) == GrantOf(t) # None /\ verb \in GrantOf(t).verbs
UsingFor(t, verb) == IF GrantOf(t) = None THEN None ELSE GrantOf(t).using[verb]
CheckFor(t, verb) == IF GrantOf(t) = None THEN None ELSE GrantOf(t).check[verb]

\* FillContext: what the values make of a predicate, None if it throws.
Fills(p, values) == p = None \/ \A n \in Uses[p] : values[n] # Unset
FilledMutRaw(p, values) == p

Filled(p, values) ==
    IF p = None THEN None ELSE [pred |-> p, values |-> [n \in Uses[p] |-> values[n]]]

--------------------------------------------------------------------------------
(* The target's catalog: schemas appear as they are served *)

\* Served schemas with another transaction's drop on top, uncommitted or not yet cleaned up: DuckDB
\* refuses to create such a schema (a TransactionException out of CreateServedSchemas).
Contested ==
    {s \in Served(book) : s \in lingering \/ dropping = [schema |-> s, dropped |-> TRUE]}

\* CreateServedSchemas: one native schema per schema the book serves by now, in a system transaction.
CreateServedSchemas ==
    /\ Contested = {}
    /\ schemas' = schemas \cup Served(book)

\* Or it throws in the middle: the schemas before the contested one have been created.
CreateConflicts ==
    /\ Contested # {}
    /\ \E created \in SUBSET (Served(book) \ Contested) : schemas' = schemas \cup created

\* BridgeCatalog::Bind: first the source is bound and calls pass, then the schemas are created.
Bind ==
    /\ bound = "unbound"
    /\ bound' = "bound"
    /\ UNCHANGED <<ownerVars, schemas, dropVars, targetVars, stmt, autocommit, refs>>

BindSchemas ==
    /\ bound = "bound"
    /\ bound' = "served"
    /\ CreateServedSchemas \/ CreateConflicts
    /\ UNCHANGED <<ownerVars, dropVars, targetVars, stmt, autocommit, refs>>

ScanSchemas ==
    /\ bound # "unbound"
    /\ CreateServedSchemas \/ CreateConflicts
    /\ UNCHANGED <<ownerVars, bound, dropVars, targetVars, stmt, autocommit, refs>>

--------------------------------------------------------------------------------
(* DROP SCHEMA, in a transaction of some connection of the target *)

\* ThrowIfSchemaStillServed asks the book, and lets go of it.
CheckDrop(s) ==
    /\ bound # "unbound" /\ dropping = None
    /\ s \notin Served(book)
    /\ dropping' = [schema |-> s, dropped |-> FALSE]
    /\ UNCHANGED <<ownerVars, schemas, bound, lingering, targetVars, stmt, autocommit, refs>>

\* DropEntry, whatever the book serves by now; without the schema nothing happens, or an error.
DropEntry ==
    /\ dropping # None /\ ~dropping.dropped
    /\ dropping' = IF dropping.schema \in schemas THEN [dropping EXCEPT !.dropped = TRUE] ELSE None
    /\ UNCHANGED <<ownerVars, schemas, bound, lingering, targetVars, stmt, autocommit, refs>>

\* The drop is seen by the transactions that begin from now on.
CommitDrop ==
    /\ dropping # None /\ dropping.dropped
    /\ schemas' = schemas \ {dropping.schema}
    /\ lingering' = lingering \cup {dropping.schema}
    /\ seen' = [c \in Sessions |-> IF c \in begun THEN seen[c] \cup {dropping.schema} ELSE seen[c]]
    /\ dropping' = None
    /\ UNCHANGED <<ownerVars, bound, begun, stmt, autocommit, refs>>

RollbackDrop ==
    /\ dropping # None /\ dropping.dropped
    /\ dropping' = None
    /\ UNCHANGED <<ownerVars, schemas, bound, lingering, targetVars, stmt, autocommit, refs>>

\* The last transaction that could see the dropped schema has ended.
CleanUpDrop(s) ==
    /\ s \in lingering /\ \A c \in Sessions : s \notin seen[c]
    /\ lingering' = lingering \ {s}
    /\ UNCHANGED <<ownerVars, schemas, bound, dropping, targetVars, stmt, autocommit, refs>>

--------------------------------------------------------------------------------
(* LookupSchema *)

Begun(s) ==
    [of |-> s, step |-> "schema", began |-> Len(history), verbs |-> {},
     catalog |-> None, database |-> None, values |-> None, shown |-> None, filters |-> <<>>,
     using |-> None, check |-> None, visible |-> None, grant |-> None]

\* An unbound bridge answers nothing, so that no statement reaches it.  The first lookup begins the
\* transaction on the target.
Begin(c, s) ==
    /\ bound # "unbound" /\ stmt[c] = None
    /\ stmt' = [stmt EXCEPT ![c] = Begun(s)]
    /\ begun' = begun \cup {c}
    /\ UNCHANGED <<catalogVars, ownerVars, seen, autocommit, refs>>

\* What the transaction of c sees.
SeesSchema(c) == SchemaOf[stmt[c].of.table] \in schemas \cup seen[c]

FindSchema(c) ==
    /\ At(c, "schema")
    /\ Goes(c, IF SeesSchema(c) THEN "describe" ELSE "served")

\* The schema is not in the catalog: is it one the book serves since?
AskServed(c) ==
    /\ At(c, "served")
    /\ Goes(c, IF SchemaOf[stmt[c].of.table] \in Served(book) THEN "create" ELSE "again")

CreateMissingMutOnlyAtAttach(c) == At(c, "create") /\ Goes(c, "again")

CreateMissing(c) ==
    /\ At(c, "create")
    /\ \/ CreateServedSchemas /\ stmt' = [stmt EXCEPT ![c].step = "again"]
       \/ CreateConflicts /\ stmt' = [stmt EXCEPT ![c].step = "conflict"]
    /\ UNCHANGED <<ownerVars, bound, dropVars, targetVars, autocommit, refs>>

FindSchemaAgain(c) ==
    /\ At(c, "again")
    /\ Goes(c, IF SeesSchema(c) THEN "describe" ELSE "no_schema")

--------------------------------------------------------------------------------
(* Describing the table and planning the statement *)

\* The name under which the pinned database is attached; SourcePin::Use throws without one.
PinnedIsAttached == \E n \in CatalogNames : attached[n] = Pinned
PinnedName == CHOOSE n \in CatalogNames : attached[n] = Pinned

\* Describe: the verbs, copied under GrantBook::lock.
DescribeGrant(c) ==
    /\ At(c, "describe")
    /\ IF GrantOf(stmt[c].of.table) = None THEN Ends(c)
       ELSE Learns(c, [stmt[c] EXCEPT !.step = "columns", !.verbs = GrantOf(stmt[c].of.table).verbs])

\* Then the columns and constraints, in a transaction of its own on the pinned database; the table
\* may be gone from the source by then.
DescribeColumns(c) ==
    /\ At(c, "columns")
    /\ \/ PinnedIsAttached /\ Goes(c, "plan")
       \/ Ends(c)

\* The library refuses a verb the description lacks.
LibraryRefuses(c) == stmt[c].of.kind \notin stmt[c].verbs

\* DuckDBSource::Plan looks at no grant: a read becomes a floor of its table, a write a seam.
Plan(c) ==
    /\ At(c, "plan")
    /\ IF LibraryRefuses(c) THEN Ends(c) ELSE Goes(c, "use")

--------------------------------------------------------------------------------
(* SourcePin::Use, on the connection the statement runs on *)

\* What a name means in the transaction of c: the database it referred to first, then the attached one.
Resolve(c, n) == IF refs[c][n] # None THEN refs[c][n] ELSE attached[n]

\* ThrowIfDdlCarriesExpression: an ALTER may bring no expression to the source.
CarriesExpression(s) == s.kind = "alter" /\ s.expression

\* Read, Write and Ddl all begin with SourcePin::Use.
AfterUse(s) ==
    CASE s.kind = "select" -> "resolver"
      [] s.kind \in {"insert", "update", "delete"} -> "shaper"
      [] s.kind = "alter" -> "alter_grant"

UseMutByName(c) ==
    /\ At(c, "use")
    /\ IF \/ ~PinnedIsAttached \/ refs[c][PinnedName] \notin {None, Pinned}
          \/ CarriesExpression(stmt[c].of)
         THEN Ends(c)
         ELSE Learns(c, [stmt[c] EXCEPT !.step = AfterUse(stmt[c].of), !.catalog = PinnedName])

\* The pinned database must still be the one under its name, and what the transaction already means
\* by that name; from here on the name means the pinned database in this transaction.
Use(c) ==
    /\ At(c, "use")
    /\ IF \/ ~PinnedIsAttached \/ refs[c][PinnedName] \notin {None, Pinned}
          \/ CarriesExpression(stmt[c].of)
         THEN Ends(c)
         ELSE /\ stmt' = [stmt EXCEPT ![c].step = AfterUse(stmt[c].of), ![c].catalog = PinnedName]
              /\ refs' = [refs EXCEPT ![c][PinnedName] = Pinned]
              /\ UNCHANGED <<catalogVars, ownerVars, targetVars, autocommit>>

--------------------------------------------------------------------------------
(* Reads: PolicyResolver, one floor after the other *)

Floor(c) == stmt[c].of.floors[Len(stmt[c].filters) + 1]

\* After the last floor a read runs, a write is shaped.
AfterFloors(s) == IF s.kind = "select" THEN "run" ELSE "using"

\* ContextSnapshot, once for all floors of the plan.
ResolverSnapshot(c) ==
    /\ At(c, "resolver")
    /\ Learns(c, [stmt[c] EXCEPT !.step = "floor", !.shown = book.values])

CheckFloor(c) ==
    /\ At(c, "floor")
    /\ IF Has(Floor(c), "select") THEN Goes(c, "filter") ELSE Ends(c)

FilterFloorMutLiveContext(c) ==
    /\ At(c, "filter")
    /\ LET filters == Append(stmt[c].filters, Filled(UsingFor(Floor(c), "select"), book.values))
       IN  IF ~Fills(UsingFor(Floor(c), "select"), book.values) THEN Goes(c, "unfilled")
           ELSE Learns(c, [stmt[c] EXCEPT
                    !.filters = filters,
                    !.step = IF Len(filters) < Len(stmt[c].of.floors) THEN "floor"
                             ELSE AfterFloors(stmt[c].of)])

\* The grant is read again for its predicate: without one the floor is the table itself.
FilterFloor(c) ==
    /\ At(c, "filter")
    /\ LET filters == Append(stmt[c].filters, Filled(UsingFor(Floor(c), "select"), stmt[c].shown))
       IN  IF ~Fills(UsingFor(Floor(c), "select"), stmt[c].shown) THEN Goes(c, "unfilled")
           ELSE Learns(c, [stmt[c] EXCEPT
                    !.filters = filters,
                    !.step = IF Len(filters) < Len(stmt[c].of.floors) THEN "floor"
                             ELSE AfterFloors(stmt[c].of)])

--------------------------------------------------------------------------------
(* Writes: PolicyShaper *)

ReadsRows(s) == s.reads_rows /\ s.kind # "insert"

ShaperSnapshot(c) ==
    /\ At(c, "shaper")
    /\ Learns(c, [stmt[c] EXCEPT !.step = "may_read", !.values = book.values])

\* An update or delete that reads the rows it writes needs the select grant; then the floors of a
\* plan that feeds the write are bound.
MayRead(c) ==
    /\ At(c, "may_read")
    /\ IF ReadsRows(stmt[c].of) /\ ~Has(stmt[c].of.table, "select") THEN Ends(c)
       ELSE Goes(c, IF stmt[c].of.floors = <<>> THEN "using" ELSE "resolver")

ShapeUsing(c) ==
    /\ At(c, "using")
    /\ Learns(c, [stmt[c] EXCEPT !.step = "check",
                                 !.using = UsingFor(stmt[c].of.table, stmt[c].of.kind)])

ShapeCheckMutUsesUsing(c) ==
    /\ At(c, "check")
    /\ Learns(c, [stmt[c] EXCEPT !.step = "visible", !.check = stmt[c].using])

ShapeCheck(c) ==
    /\ At(c, "check")
    /\ Learns(c, [stmt[c] EXCEPT !.step = "visible",
                                 !.check = CheckFor(stmt[c].of.table, stmt[c].of.kind)])

\* The select policy narrows the write too when it reads its rows; then the three predicates are
\* filled from the snapshot and grafted onto the statement.
ShapeVisible(c) ==
    /\ At(c, "visible")
    /\ LET visible == IF ReadsRows(stmt[c].of) THEN UsingFor(stmt[c].of.table, "select") ELSE None
           parts == {stmt[c].using, stmt[c].check, visible}
       IN  IF \E p \in parts : ~Fills(p, stmt[c].values) THEN Goes(c, "unfilled")
           ELSE Learns(c, [stmt[c] EXCEPT
                    !.step = "run", !.visible = Filled(visible, stmt[c].values),
                    !.using = Filled(@, stmt[c].values), !.check = Filled(@, stmt[c].values)])

--------------------------------------------------------------------------------
(* ALTER: allowed only to a target that sees the whole table *)

\* PredicateFoldsToTrue: the optimizer's rewriter leaves no filter but TRUE.
FoldsToTrue(p, values) ==
    \/ p = TruePred
    \/ Uses[p] # {} /\ Mentions[p] = {} /\ \A n \in Uses[p] : values[n] \in FoldsWith[p]

Holds(grant, verb, values) ==
    /\ verb \in grant.verbs
    /\ grant.using[verb] = None \/ FoldsToTrue(grant.using[verb], values)

\* ThrowUnlessAlterGrantedOverFullTable: the grant is copied, then the context.
AlterGrant(c) ==
    /\ At(c, "alter_grant")
    /\ IF GrantOf(stmt[c].of.table) = None THEN Ends(c)
       ELSE Learns(c, [stmt[c] EXCEPT !.step = "alter_context", !.grant = GrantOf(stmt[c].of.table)])

AlterContextMutAlterOnly(c) ==
    /\ At(c, "alter_context")
    /\ IF Holds(stmt[c].grant, "alter", book.values)
         THEN Learns(c, [stmt[c] EXCEPT !.step = "alter_column", !.values = book.values])
         ELSE Ends(c)

AlterContext(c) ==
    /\ At(c, "alter_context")
    /\ LET grant == stmt[c].grant
           fills(verb) == verb \in grant.verbs => Fills(grant.using[verb], book.values)
       IN  IF ~fills("alter") THEN Goes(c, "unfilled")
           ELSE IF ~Holds(grant, "alter", book.values) THEN Ends(c)
           ELSE IF ~fills("select") THEN Goes(c, "unfilled")
           ELSE IF ~Holds(grant, "select", book.values) THEN Ends(c)
           ELSE Learns(c, [stmt[c] EXCEPT !.step = "alter_column", !.values = book.values])

\* The key columns and the columns the predicates name.
PolicyColumns(grant) ==
    grant.key \cup UNION {Mentions[p] : p \in PredsOf(grant)}

\* ThrowIfAlterOrphansPolicy, with the grant the book has by now.
AlterColumn(c) ==
    /\ At(c, "alter_column")
    /\ LET grant == GrantOf(stmt[c].of.table)
       IN  IF grant # None /\ stmt[c].of.column \in PolicyColumns(grant) THEN Ends(c)
           ELSE Goes(c, "run")

--------------------------------------------------------------------------------
(* The source runs the statement *)

\* Every name in it means what the transaction resolves it to; a predicate may name a further
\* database, which the transaction refers to from then on.
Run(c) ==
    /\ At(c, "run")
    /\ \E also \in CatalogNames :
          IF Resolve(c, stmt[c].catalog) = None THEN Ends(c)
          ELSE /\ stmt' = [stmt EXCEPT ![c].step = "ran",
                                       ![c].database = Resolve(c, stmt[c].catalog)]
               /\ refs' = [refs EXCEPT ![c] =
                             [n \in CatalogNames |-> IF n = also THEN Resolve(c, n) ELSE @[n]]]
               /\ UNCHANGED <<catalogVars, ownerVars, targetVars, autocommit>>

\* The result is read, or the error reported.
Finish(c) ==
    /\ stmt[c] # None /\ stmt[c].step \in {"ran", "unfilled", "no_schema", "conflict"}
    /\ Ends(c)

\* The target transaction ends; the next one begins with its first statement.
EndTransaction(c) ==
    /\ stmt[c] = None
    /\ refs' = [refs EXCEPT ![c] = NoRefs]
    /\ seen' = [seen EXCEPT ![c] = {}] /\ begun' = begun \ {c}
    /\ autocommit' \in {[autocommit EXCEPT ![c] = a] : a \in BOOLEAN}
    /\ UNCHANGED <<catalogVars, ownerVars, stmt>>

--------------------------------------------------------------------------------
(* The owner *)

MayChange == Len(history) - 1 + moves < MaxChanges

Edit(b) ==
    /\ MayChange /\ b # book
    /\ history' = Append(history, b)
    /\ UNCHANGED <<catalogVars, targetVars, stmt, autocommit, refs, attached, moves>>

SetPolicyMutUnsetNames(t, grant) ==
    /\ grant # None => \A v \in grant.verbs : grant.using[v] # None
    /\ Edit([book EXCEPT !.grants[t] = grant])

\* CommitPolicy, of a grant that has a predicate for every verb, all of which bind with the context.
SetPolicy(t, grant) ==
    /\ grant # None => \A v \in grant.verbs : grant.using[v] # None
    /\ grant # None => \A p \in PredsOf(grant) : Fills(p, book.values)
    /\ Edit([book EXCEPT !.grants[t] = grant])

SetContext(n, v) == Edit([book EXCEPT !.values[n] = v])

\* DETACH, ATTACH and ALTER DATABASE ... RENAME on the source.  The pinned database, once detached,
\* comes back only as another one.
Move(a) ==
    /\ MayChange
    /\ attached' = a /\ moves' = moves + 1
    /\ UNCHANGED <<catalogVars, history, targetVars, stmt, autocommit, refs>>

Detach(n) == attached[n] # None /\ Move([attached EXCEPT ![n] = None])

Attach(n, d) ==
    /\ attached[n] = None /\ d # Pinned /\ \A m \in CatalogNames : attached[m] # d
    /\ Move([attached EXCEPT ![n] = d])

Rename(n, m) ==
    /\ attached[n] # None /\ attached[m] = None
    /\ Move([attached EXCEPT ![n] = None, ![m] = attached[n]])

--------------------------------------------------------------------------------
TargetStep(c) ==
    \/ \E s \in Statements : Begin(c, s)
    \/ FindSchema(c) \/ AskServed(c) \/ CreateMissing(c) \/ FindSchemaAgain(c)
    \/ DescribeGrant(c) \/ DescribeColumns(c) \/ Plan(c) \/ Use(c)
    \/ ResolverSnapshot(c) \/ CheckFloor(c) \/ FilterFloor(c)
    \/ ShaperSnapshot(c) \/ MayRead(c) \/ ShapeUsing(c) \/ ShapeCheck(c) \/ ShapeVisible(c)
    \/ AlterGrant(c) \/ AlterContext(c) \/ AlterColumn(c)
    \/ Run(c) \/ Finish(c) \/ EndTransaction(c)

CatalogStep ==
    \/ Bind \/ BindSchemas \/ ScanSchemas
    \/ DropEntry \/ CommitDrop \/ RollbackDrop
    \/ \E s \in Schemas : CheckDrop(s) \/ CleanUpDrop(s)

OwnerStep ==
    \/ \E t \in Tables : \E grant \in Grants[t] \cup {None} : SetPolicy(t, grant)
    \/ \E n \in Names, v \in Values : SetContext(n, v)
    \/ \E n \in CatalogNames : Detach(n)
    \/ \E n \in CatalogNames, d \in Databases : Attach(n, d)
    \/ \E n, m \in CatalogNames : Rename(n, m)

Next ==
    \/ \E c \in Sessions : TargetStep(c)
    \/ CatalogStep
    \/ OwnerStep

Spec == Init /\ [][Next]_vars

--------------------------------------------------------------------------------
(* Properties *)

Steps ==
    {"schema", "served", "create", "again", "no_schema", "conflict", "describe", "columns", "plan",
     "use", "resolver", "floor", "filter", "shaper", "may_read", "using", "check", "visible",
     "alter_grant", "alter_context", "alter_column", "run", "ran", "unfilled"}

\* A predicate with the values it was filled with, or none.
IsFilter(f) ==
    \/ f = None
    \/ f \in UNION {[pred: {p}, values: [Uses[p] -> Values]] : p \in Preds}

\* Types; a predicate reaches the source only with every $name filled in by a value.
TypeOK ==
    /\ \A i \in DOMAIN history : history[i] \in Books
    /\ schemas \subseteq Schemas /\ bound \in {"unbound", "bound", "served"}
    /\ dropping \in [schema: Schemas, dropped: BOOLEAN] \cup {None} /\ lingering \subseteq Schemas
    /\ begun \subseteq Sessions /\ seen \in [Sessions -> SUBSET Schemas]
    /\ autocommit \in [Sessions -> BOOLEAN] /\ moves \in 0..MaxChanges
    /\ refs \in [Sessions -> [CatalogNames -> Databases \cup {None}]]
    /\ attached \in [CatalogNames -> Databases \cup {None}]
    /\ \A c \in Sessions : stmt[c] # None =>
          /\ stmt[c].of \in Statements /\ stmt[c].step \in Steps
          /\ \A i \in DOMAIN stmt[c].filters : IsFilter(stmt[c].filters[i])
          /\ stmt[c].step \in {"run", "ran"} =>
                IsFilter(stmt[c].using) /\ IsFilter(stmt[c].check) /\ IsFilter(stmt[c].visible)

\* The books that were in force at some moment since the statement of c began.
InForce(c) == {history[i] : i \in stmt[c].began..Len(history)}

GrantedIn(b, t, verb) == b.grants[t] # None /\ verb \in b.grants[t].verbs

\* The part of the policy the statement took: what the verb's grant said at some moment of the
\* statement, with `values' for the context.
TookPolicy(c, taken, t, verb, clause, values) ==
    \E b \in InForce(c) :
        GrantedIn(b, t, verb) /\ taken = Filled(b.grants[t][clause][verb], values)

\* The verb was not granted at some moment of the statement.
Revoked(c, t, verb) == \E b \in InForce(c) : ~GrantedIn(b, t, verb)

UnderPolicy(c, taken, t, verb, clause, values) ==
    \/ TookPolicy(c, taken, t, verb, clause, values)
    \/ taken = None /\ Revoked(c, t, verb)

\* PolicyResolver: a plan on the source reads a table only if its select was granted at some moment
\* of the statement, through the select predicate of such a moment, and all its floors see one
\* context, though the owner may change it between two of them.  Only a table whose grant was
\* revoked during the statement may be read without its predicate (see RunsUnderPolicy).
FilteredUnlessRevoked ==
    \A c \in Sessions : stmt[c] # None =>
        \E b \in InForce(c) : \A i \in DOMAIN stmt[c].filters :
            LET t == stmt[c].of.floors[i]
            IN  /\ \E granted \in InForce(c) : GrantedIn(granted, t, "select")
                /\ UnderPolicy(c, stmt[c].filters[i], t, "select", "using", b.values)

IsWrite(s) == s.kind \in {"insert", "update", "delete"}

\* PolicyShaper: a write reaches the source with a USING and a check of its verb, and if it reads
\* rows with a select predicate, each of some moment of the statement and all three under one
\* context.  Only a verb that was revoked during the statement may be without them; and the plan
\* that feeds the write has a context of its own (see OneContext).
ShapedUnlessRevoked ==
    \A c \in Sessions :
        stmt[c] # None /\ stmt[c].step \in {"run", "ran"} /\ IsWrite(stmt[c].of) =>
            LET t == stmt[c].of.table
                verb == stmt[c].of.kind
            IN  \E b \in InForce(c) :
                  /\ UnderPolicy(c, stmt[c].using, t, verb, "using", b.values)
                  /\ UnderPolicy(c, stmt[c].check, t, verb, "check", b.values)
                  /\ ReadsRows(stmt[c].of) =>
                        UnderPolicy(c, stmt[c].visible, t, "select", "using", b.values)

\* "reading the table; the predicate is which rows it reads", "INSERT; the predicate is the check every
\* inserted row must pass" (docs/vcatbridge.md): whatever the source runs carries, for every table it
\* reads and for what it writes, the predicates of a grant of some moment of the statement.
RunsUnderPolicy ==
    \A c \in Sessions : At(c, "ran") =>
        LET t == stmt[c].of.table
            verb == stmt[c].of.kind
        IN  /\ \A i \in DOMAIN stmt[c].filters :
                  TookPolicy(c, stmt[c].filters[i], stmt[c].of.floors[i], "select", "using", stmt[c].shown)
            /\ IsWrite(stmt[c].of) =>
                  /\ TookPolicy(c, stmt[c].using, t, verb, "using", stmt[c].values)
                  /\ TookPolicy(c, stmt[c].check, t, verb, "check", stmt[c].values)
                  /\ ReadsRows(stmt[c].of) =>
                        TookPolicy(c, stmt[c].visible, t, "select", "using", stmt[c].values)

\* "Each target statement takes one snapshot of the context ... so all tables in a statement see the
\* same values" (docs/vcatbridge.md): the write and the plan that feeds it ran under one context.
OneContext ==
    \A c \in Sessions : At(c, "ran") /\ IsWrite(stmt[c].of) /\ stmt[c].filters # <<>> =>
        stmt[c].shown = stmt[c].values

\* "an ALTER runs over every row on the source, including rows the select policy would hide"
\* (duckdb_source.hpp): it runs only if at some moment of the statement both predicates folded to
\* true under a context of the statement.
AlterSeesWholeTable ==
    \A c \in Sessions : At(c, "ran") /\ stmt[c].of.kind = "alter" =>
        \E b1, b2 \in InForce(c) :
            /\ b1.grants[stmt[c].of.table] # None
            /\ \A verb \in {"alter", "select"} : Holds(b1.grants[stmt[c].of.table], verb, b2.values)

\* Whatever is detached, attached or renamed on the source, before or between the steps of a
\* statement or of a transaction, a statement runs on the database the bridge was registered for.
RunsOnPinned == \A c \in Sessions : At(c, "ran") => stmt[c].database = Pinned

\* The names the policy used without a value when the bridge was attached.
UnboundAtAttach ==
    {n \in Names : /\ history[1].values[n] = Unset
                   /\ \E t \in Tables : /\ history[1].grants[t] # None
                                        /\ \E p \in PredsOf(history[1].grants[t]) : n \in Uses[p]}

\* FillContext meets a $name without a value (an internal error) only for a name that had none when
\* the statement began, and that the owner either first set during the statement, or had left
\* without one when the bridge was attached with a policy that uses it.
UnfilledHasReason ==
    \A c \in Sessions : At(c, "unfilled") =>
        \E n \in Names : /\ history[stmt[c].began].values[n] = Unset
                         /\ book.values[n] # Unset \/ n \in UnboundAtAttach

\* "A grant made after ATTACH can serve a schema Initialize did not create" (bridge_catalog.cpp):
\* a lookup that is not refused by a conflict finds every schema that was served all through it, even
\* if a DROP SCHEMA that was checked before the grant removes it in the middle.
ServedSchemaIsFound ==
    \A c \in Sessions : At(c, "no_schema") =>
        \E b \in InForce(c) : SchemaOf[stmt[c].of.table] \notin Served(b)

================================================================================
