# Verification of duckdb-virtual-catalog

TLA+ models of the bridge half of the repository (`src/bridge`: registry, policy,
sessions, statements) and of the provider half (`src/provider` with its Python host:
catalog, stream functions, scans and writes), the TLC configurations that check them,
and TLAPS proofs about every one of these parts. Paths are relative to the repository root.

## 1. The system

The repository builds two DuckDB extensions over a common base.

* **vcatbridge** (`src/bridge`) serves tables of one `DatabaseInstance`, the
  *source*, inside another one of the same process, the *target*, under a policy
  the source's owner writes. The owner registers a source and gets a token, sets a
  policy, and the target redeems the token in `ATTACH` (or `vcatbridge_init`).
* **vcatprovider** (`src/provider`) serves tables whose rows come from user
  functions of a host (Python, mostly) as Arrow streams.
* **vcat** (`src/vcat`) is the virtual catalog base both build on.

| Component | State | Operations | Hard behaviour | Correct when |
|---|---|---|---|---|
| Registry and handshake (`duckdb_source.cpp`, `bridge_catalog.cpp`) | `PendingSources`, `LiveBridges`, both process-wide under `PendingMutex`; instance references | register, look up, finalize, redeem, destroy; purge on every visit | inactivity timeout racing a redemption, wrong-token limit, instances closing, catalogs outliving their DETACH | an id carries one registration; a token opens one bridge, while fresh; finalization survives ATTACH; ids are freed |
| Policy and context (`duckdb_source.cpp`) | tables, verbs, predicates, keys, foreign keys, function lists of a registration; context values; two finalized flags | `set_policy`, `configure_policy`, `set_context`, `finalize_*` | every call looks up, lets go of the lock, asks the source, comes back to install | stored predicates bind with the context; a live policy holds together; finalized means frozen |
| Sessions and DDL (`duckdb_source.cpp`, `bridge_catalog.cpp`) | one source transaction per target transaction; `GrantBook` shared by all: grants, `shaping`, `uncommitted_ddl`; the undos a session owes | create, drop, alter, rename, commit, rollback | grants change at once, tables only on commit; commit may fail; sessions interleave | an undo takes back exactly what was recorded and nobody else's grant; the count that locks the owner out is exact |
| Statement shaping (`PolicyResolver`, `PolicyShaper`, `AcceptsCall`, `Describe`, `SourcePin`; `predicate_fold.cpp`) | the databases a source transaction refers to; reads GrantBook and context | describe a table, check a call, pin the catalog, bind the floors of a plan, shape a write, let an ALTER through | reads the book in several critical sections while the owner edits it; the source's databases are attached, detached and renamed meanwhile | what runs was granted, and filtered by a predicate that was in force, at some moment of the statement; one context per plan; always on the pinned database |
| Policy documents (`policy_config.cpp`), builtin list (`builtin_functions.cpp`) | none | parse | none | (conversion, data) |
| Lockdown (`lockdown.cpp`) | instance settings, dropped system functions | `vcatbridge_lockdown` | order of steps that cannot be undone; failure between them | an instance is locked entirely, or the call can be repeated |
| Bridge catalog (`bridge_catalog.cpp`) | the bound source; served schemas | attach, init, look up, create, drop, alter, commit | native commit first, source commit second | errors leave the session rolled back on the source |
| Virtual catalog base (`src/vcat`) | schema wrappers | native-first lookup, listing, permissions | entries retired while queries hold them | extension entries never hide native ones |
| Provider catalog (`provider_virtual_catalog.cpp`, `provider_table_*.cpp`) | provider, listing with version and epoch, entry cache per schema | register, list, look up, alter, invalidate | slow listings finishing out of order; re-entrant listing | the cache never goes back behind an invalidation that was seen |
| Provider stream (`vcat_stream_function.cpp`, `arrow_frame_decoder.cpp`, `rpc_stream.py`) | handle counter, `HostStream` with its decoder; `HostStreamUdfs._live` on the host | open at bind, next, close; register and withdraw | cancelled scans, errors, scans that never start, a host that withdraws in the middle | opened generators are closed, once; the rows arrive as sent |
| Provider scans (`provider_table_catalog.cpp`, `provider_arrow.cpp`) | decoded batches, `ProviderPKBuffer` shared by the scans of a statement's target | call the scan function, hand batches to threads, give rows their ids | threads of several scans append to one key buffer | a row id leads to the key of that row |
| Provider writes (`provider_table_insert/update/delete.cpp`) | the rows that reached the sink | plan, sink, finalize | a source that fails after rows were sunk; keys that match rows the statement was not shown | the function is sent exactly the sunk rows, in one call, and only if every source ended |

Interactions. Owner and target connections are threads of one process. They meet in
the registry (`PendingMutex`), in the live bridge's `GrantBook` (`GrantBook::lock`,
taken inside `PendingMutex`), in `BridgeContext::lock`, and in the source database,
where each target transaction has a transaction of its own and finds the databases the
owner has attached by then. Statements reach a
session through `CrossingAttach`, a library whose source is a submodule and not
part of the repository. The threads that use a provider's database meet in the
`provider_lock` of its catalog, which is never held while the host's list function
runs, and in the `provider_lock` of a schema wrapper, which is held while the list and
schema functions run and given up for the alter function. A statement and a host meet
in the three functions of a stream (open, next, close), which the host may withdraw or
register anew at any time, and in the scan and write functions, which are called once
each. The threads of a statement meet in the key buffer and in the sink.

## 2. Modules

| Module | Models | State -> code |
|---|---|---|
| `BridgeHandshake` | what the registry promises | abstract: number offered, number served, frozen |
| `BridgeRegistry` | the registry | `pending` = `PendingSources`, `live` = `LiveBridges` with the `DuckDBSource` that keeps its book, `conns` = instances a client holds, `bound` = main databases bound by `vcatbridge_init`, `nextReg` names registrations |
| `BridgePolicy` (EXTENDS the registry) | policy, context and the calls that edit them | `policy`, `values`, `ctxFinalized` per registration; `call[c]` = what connection c is in the middle of |
| `BridgeSession` | DDL through one live bridge | `grants`, `shaping`, `uncommitted_ddl` = `GrantBook`; `sess` = `DuckDBSession` with its source transaction; `catalog` = committed tables |
| `ProviderCatalog` | a vcatprovider database: listing, entry cache, creation of schemas | `cat` = the fields of `VirtualCatalogProvider`, `wrapper` = `cached_epoch` and `provider_cache` of a schema wrapper, `holder` = who holds its lock, `version` = `ProviderInfo::version`; `th[c]` = where thread c is; `answers`, `now` = the host |
| `BridgeStatement` | statements crossing a live bridge while the owner edits it | `history` = book and context after each owner change (the last is `GrantBook` and `BridgeContext`), `schemas` = native schemas of the target's catalog, `bound` = `DuckDBSource::bound`, `stmt[c]` = where a statement is and what it has read so far, `autocommit` = `DuckDBSession::autocommit`, `refs` = databases the source transaction refers to by name, `attached` = databases of the source by name, `moves` = how often those changed; `dropping`, `lingering`, `begun`, `seen` = DuckDB's versions of a schema that is being dropped |
| `ProviderStream` | stream functions and their host | `entry` = the catalog entry's registration, `host` = how far registration and teardown are, `live` = `HostStreamUdfs._live`, `gens` = generators, `counter` = `handle_counter`, `call[s]` = `HostStream` and its decoder |
| `ProviderWrite` (EXTENDS the streams) | one statement over provider tables and stream functions | `scan[s]` = a table scan's batches and threads, `buffer` = `ProviderPKBuffer::rows`, `passed` and `sunk` = what the plan sent to the sink and what the sink kept, `payload` = the encoded Arrow stream, `outcome` and `affected` = what the write function did and the statement reports |
| `MCBridge*`, `MCProvider*` | instances for TLC | |
| `BridgeRegistryProofs` | proofs about `BridgeRegistry` | |
| `BridgePolicyProofs` (EXTENDS those of the registry) | proofs about `BridgePolicy` | |
| `BridgeSessionProofs` | proofs about `BridgeSession` | |
| `BridgeStatementProofs`, `BridgeShapingProofs` | proofs about `BridgeStatement`, the second on top of the first | |
| `ProviderCatalogProofs` | proofs about `ProviderCatalog` | |
| `ProviderWriteProofs` | proofs about `ProviderStream` and `ProviderWrite` | |
| `FoldLemmas` | induction over the naturals, and that folds over finite sets have a value | |

One action is one critical section. In `BridgeRegistry` that is a whole operation,
since each runs under `PendingMutex` from the purge to its last assignment. In
`BridgePolicy` a call has up to three steps, cut where the code lets go of the lock:
look up (`BeginPolicy`, `BeginSetContext`), ask the source (`ResolvePolicy`,
`ProbeContext`), install (`CommitPolicy`, `InstallContext`). In `BridgeSession` a DDL
statement runs on the source first (`CreateTable`, ...) and is recorded in the book
afterwards (`Record...`); a commit ends the source transaction and then settles the
book, a rollback settles the book and then ends the source transaction. A session
that is destroyed with neither (`DestroySession`, `~DuckDBSession`) forgets its undos and
nothing else: its grants stay, and so does its connection, and with it the source
transaction, wherever `shaping` still names it. In
`ProviderCatalog` a lookup is check, list, install (`RefreshProviderNames`), ensure,
create (`EnsureProviderSchemas`), resolve, then lock, the refresh once more, read and
describe; an ALTER reads, calls the host and evicts. In `BridgeStatement` every lookup in
the book or the context is a step (`Grants`, `UsingFor` and `CheckFor` each take
`GrantBook::lock` anew), as are `SourcePin::Use`, the run on the source and each half of
`Bind`; `DROP SCHEMA` is a check, the drop and the end of its transaction. In `ProviderStream` a next call is two steps, since the host runs its generator
between them; `_open` is one, and the host's teardown is three (drop the entries,
remove the functions, close the generators). In `ProviderWrite` a thread takes a batch
and then emits one row per step; `Finalize` up to the call of the write function is one
step and the call another.

Abstractions. Time is the idle time of an entry, saturating one past the limit.
Tokens are numbers: a generated one is the number of its registration, `ChosenToken`
is one the owner may use again. Predicates are model values with the context names
they use and the values they bind with; binding itself is DuckDB's. The registry
leaves out which catalog of the source is pinned. `BridgeSession` calls a grant
"policied" or "full" and does not look inside; the source is DuckDB, modelled from
its use: snapshot of the catalog at the start of a transaction, write-write conflicts
refused. Refusals that change nothing are stuttering steps. Re-registering by a
different instance is possible in `BridgeRegistry` and in the policy module; in the
policy runs there is one instance. In `ProviderCatalog` what the host answers is a
*generation*, a number that grows with every change of the host's tables; an entry is
the generation its columns come from, so "old" can be said of a name list and of an
entry alike. There is one schema with one wrapper, never dropped, and no native table.
The ghosts `invalidated`, `altered` and a lookup's `since` remember which generation a
lookup is entitled to. In `BridgeStatement` a predicate is a model value with the names
it uses, the columns it mentions and the values with which the optimizer folds it to
true; `history` is there so that a property can speak of "some moment of the statement".
The target's native schemas live in DuckDB's own catalog, of which the model assumes that
a transaction goes on seeing a schema whose drop committed after it began, that all see
what the system transaction creates, and that creating a schema conflicts with a drop of it
that is uncommitted or still seen by an older transaction. The dropper is a connection of
its own. A bridge may be attached with a policy that uses a name without a value, since
`RedeemBridge` does not look (run `policy_reregister` shows how one comes about).
In the provider modules an Arrow stream is a sequence of messages (schema, dictionary,
batch of rows, end mark, or one that cannot be read) and rows are numbers with keys.

## 3. Runs

| Run | Bounds | Result |
|---|---|---|
| `registry` | 2 ids, 2 instances, 2 registrations, limit of 1 idle unit and 2 wrong tokens, 1 transaction per bridge | pass: `TypeOK`, `IdPendingOrLive`, `RegistrationsDistinct`, `RedeemsOnlyFresh`, `FinalizedForever`, `DetachedIdIsFreed`, `ImplementsHandshake` |
| `policy` | 1 id, 1 registration, one owner connection; child table with a foreign key to a parent; 1 context name, 2 values, 2 predicates; 12 edits | pass: `PolicyTypeOK`, `NamesAreSet`, `PoliciesBind`, `LivePolicyHolds`, `FinalizedPolicyIsFrozen`, `FinalizedContextIsFrozen` |
| `policy_race` | as before with two owner connections and one edit | violation of `PoliciesBind` |
| `policy_reregister` | one connection, two registrations | violation of `NamesAreSet` |
| `session` | 2 transactions, 2 names, 2 undos per transaction, 1 failed commit, symmetric in both sets | pass: `TypeOK`, `DdlIsCounted`, `UndoHoldsItsTables`, `ShaperHoldsTheTable`, `CreatedIsGrantedUnlessCommitFailed`, `UndoInvertsUnlessRenamedOver`, `OnlyHeldGrantsChange` |
| `session_commit_race` | the same | violation of `CreatedIsGranted` |
| `provider` | 2 threads (symmetric), 1 table, 2 providers registered one after the other, 2 generations (new providers and ALTERs included), 1 invalidation per provider, list function that looks back into the catalog | pass: `TypeOK`, `CurrentListIsFresh`, `EntryIsFresh` |
| `provider_schema` | 1 thread, a provider named in ATTACH and one registered later | violation of `NamedSchemaIsMade` |
| `statement` | 1 session, 2 tables in 2 schemas, 4 predicates, 2 context names (one unset at first), 2 values, 7 statements (one of each kind and the refused forms), 2 owner changes, 2 databases under 2 names (symmetric), one `DROP SCHEMA` at a time | pass: `TypeOK`, `FilteredUnlessRevoked`, `ShapedUnlessRevoked`, `AlterSeesWholeTable`, `RunsOnPinned`, `UnfilledHasReason`, `ServedSchemaIsFound` |
| `statement_revoked` | the same | violation of `RunsUnderPolicy` |
| `statement_context` | the same | violation of `OneContext` |
| `provider_statement` | 1 statement out of 11, 2 scans, 2 registrations of the host, 2 threads; 4 rows of which one has another's key and is hidden and one has a key that cannot be read; 10 generators, 9 answers of the scan function; vectors of 2 rows, 3 sunk rows | pass: `TypeOK`, `ClosedOnce`, `DeliversWhatWasSent`, `GeneratorsAreClosed`, `RowIdNamesItsRow`, `WriteCarriesTheRows`, `NoWriteFromBrokenSource`, `HiddenRowsAreReported` |

Why the bounds are enough. Two ids and two instances let one instance take over an id
the other gave up and let two instances hold each other open; a second registration is
what makes an old token or an old entry distinguishable from a new one; two wrong
tokens distinguish "one more" from "the last". In the policy runs a second predicate
or value adds nothing a predicate that binds with exactly one of two values does not
show; the child and parent tables are what `ValidateGrantSet` needs to refuse. In the
session runs two names give a rename somewhere to go and two undos are the least at
which their order matters; two transactions are the least that conflict. In the
provider run two threads are the least whose listings finish in the wrong order, two
generations are the least that let an answer be old, and
a second provider is what a late listing of the first could be mistaken for. In the
statement run two owner changes are what it takes to revoke a grant and change the
context, or to move the pinned database away and put another under its name, between
two steps of a statement. Sessions share only the book and the owner's databases, which
no statement changes, so a second session adds nothing but schemas created or
dropped by someone else, which `ScanSchemas` and the steps of `DROP SCHEMA` do at any time. In the
provider run two scans with two threads each append to one key buffer, three sunk rows
fill one vector and begin another, and a second registration is what a teardown can take
away by mistake. `provider_statement` does not check for deadlock: one statement runs,
and when it is over everything stops.

Fairness. `registry` needs it for `DetachedIdIsFreed`: weak fairness of ending a
transaction (a client that never ends its transaction keeps the id, by design) and of
`~DuckDBSource`, which runs at once when the last reference goes. `provider_statement`
needs it for `GeneratorsAreClosed`: weak fairness of the engine (a thread that can move
does, a host answers the calls it gets; a generator that never answers blocks its
statement and is outside the claim) and of the rest of a teardown once it has begun.
Nothing else is assumed to happen: no ATTACH, DETACH or passing of time, no client that
cancels, no host that withdraws.

### What the passing runs show that a reader may not expect

* `FilteredUnlessRevoked` and `ShapedUnlessRevoked` leave out a verb that was revoked during
  the statement, and only that; `statement_revoked` shows what happens then.
* The verb of a write is checked only against the description the statement was planned
  with; a grant revoked later does not stop it. That the description is asked at all is
  the crossing library's part.
* `FillContext`'s internal error can be reached, for a name the owner set for the first
  time after the statement began, or one the attached policy used without a value.
* A lookup can end in DuckDB's conflict error when the schema it wants to create is being
  dropped, or was dropped while an older transaction still sees it; that error ends
  `vcatbridge_init` and a listing of the schemas too. A schema can also be dropped after it was
  granted, if the check came before; the next lookup creates it again.
* An ALTER's test for columns the policy needs reads the book after the test for a
  whole-table grant; the owner's change can fall between the two.
* A host's teardown drops the entry by its name, even one a newer registration made.
* A generator that is answering a call when the teardown reaches it is never closed:
  `aclose()` raises, which is logged, and the handle is forgotten; so is one whose `_open`
  was under way when the teardown emptied `_live`. `GeneratorsAreClosed` says nothing of
  such a generator (state "missed"), though `rpc_stream.py` sets out to close all.
* A decoder that has seen an end-of-stream mark stays "done" for every later frame, but
  goes on decoding: a batch in a later frame is still delivered if it is pulled.
* A row that reaches the sink twice (`DELETE ... USING`) raises the number of keys sent
  and so can hide that the function wrote a row the statement was not shown;
  `HiddenRowsAreReported` asks for distinct rows. The write has happened in any case when
  its count is refused, or when the client's interrupt is noticed; NULL counts as 0.

### What the violations show

* `policy_race`: two connections of the owner. `set_context` collects the predicates
  that use the name, then a `set_policy` resolved with the old value commits, then the
  new value is installed without having met the new predicate.
* `policy_reregister`: a `set_policy` in flight outlasts its registration; the id is
  registered again and the policy lands in the new registration, whose context lacks
  the name the predicate uses.
* `session_commit_race`: a commit that fails on the source releases its tables before
  it takes its grants back; a table another session creates in between loses its grant.
* `statement_revoked`: a floor of a plan is checked (`Grants`) and filtered (`UsingFor`) in two
  critical sections. If the owner revokes the grant in between, the second finds no
  predicate and the table is bound without one: the statement reads every row, where
  `docs/vcatbridge.md` says the predicate is which rows the grant lets it read. The same
  holds for the USING and the check of a write.
* `statement_context`: an `INSERT ... SELECT` takes the context twice, once for the rows it
  writes and once for the floors it reads; set in between, a name has two values in one
  statement, where `docs/vcatbridge.md` says one snapshot.
* `provider_schema`: a lookup sees no provider (or the one before), a provider is
  registered, and the lookup goes on to note the new epoch's schemas as created, of
  which it has no names. The first listing does not move the epoch, so no later lookup
  creates them until an invalidation does. The swallowed `TransactionException` (the
  other transaction then rolls back) and a list function that looks into the catalog
  lead to the same state.

Two smaller divergences from `docs/vcatbridge.md` show in a single trace each and have no run:
the fifth wrong token drops the pending source (line 127 says every refusal leaves it;
the bound itself is in the registry's `TypeOK`), and an ALTER that is no rename owes no
undo and so does not hold the owner's policy changes up (line 79 says DDL does).

## 4. Proofs

### The registry

`BridgeRegistryProofs` proves, for every number of ids, instances, registrations and
transactions and every limit:

| Theorem | Statement |
|---|---|
| `TypeCorrect` | `Spec => []TypeOK` |
| `PendingOrLive` | `Spec => []IdPendingOrLive` |
| `OneEntryPerRegistration` | `Spec => []RegistrationsDistinct` |
| `OpensOnlyFresh` | `Spec => RedeemsOnlyFresh` |
| `StaysFinalized` | `Spec => FinalizedForever` |
| `RefinesHandshake` | `Spec => ImplementsHandshake` |

Assumptions: the idle limit is a natural number, the wrong-token limit a positive one,
the two bounds naturals, and `None` is no entry.

Argument. `IInv` is the conjunction of the types, `IdPendingOrLive` and
`RegistrationsDistinct`. The two are inductive only together and with the numbers
bounded by `nextReg`: a redemption puts its number on the live side, where it is new
only because the id was pending and no other entry has it, and a registration is
new only because every number in use is below `nextReg`. Most of the 16 operations do
nothing to registrations but lose some that wait; `Quiet` says so, `Steps` shows that
every step is quiet or is one of register, redeem, finalize and destroy, and each of
those has a *footprint* lemma that says what it does to its id and that it is quiet
about the others. The invariant, the action properties and the refinement are all
proved from these five cases. The refinement maps a registry entry to its number and
its finalized flag; a quiet step is `Expire` or a stutter, the four others are
`Issue`, `Attach`, `Freeze` and `Release`.

### Statements across the bridge

All seven invariants of run `statement`, for every number of sessions, tables, predicates,
context names, statements, schemas, databases and owner changes:

| Theorem | Statement | Module |
|---|---|---|
| `StatementsAreSound` | `Spec => []IInv` | `BridgeStatementProofs` |
| `PinnedHolds` | `Spec => []RunsOnPinned` | |
| `AlterNeedsWholeTable` | `Spec => []AlterSeesWholeTable` | |
| `ServedIsFound` | `Spec => []ServedSchemaIsFound` | |
| `PolicyIsTaken` | `Spec => []JInv` | `BridgeShapingProofs` |
| `ReadsFilteredUnlessRevoked` | `Spec => []FilteredUnlessRevoked` | |
| `WritesShapedUnlessRevoked` | `Spec => []ShapedUnlessRevoked` | |
| `ContextHolds` | `Spec => []KInv` | |
| `UnfilledIsExplained` | `Spec => []UnfilledHasReason` | |
| `StatementTypeCorrect` | `Spec => []TypeOK` | |

Assumptions (`StatementAssumption`, which TLC evaluates on the instance): the constants
have their types, the books a bridge is attached with are books, `None` and `Unset` are
none of the values they stand beside, `true` uses no context name, and a read's first
floor is its table.

Argument. The properties speak of a statement that runs or has run, and compare it with
books of the past; none is inductive, because what decides is read several steps
earlier and from a book that may be gone. The invariants carry each fact from the step
that reads it to the step that needs it, always in the form "in some book since the
statement began" (`InForce`). Since an owner's change only appends a book, that form
survives it, whatever the change is; one lemma (`Untouched`) says so for all of them.

* `IInv`: the description a statement was planned with, the grant an ALTER fetched and the
  schemas served were each so in some book of the statement; a lookup that has created the
  served schemas sees its own until it has looked again, though a drop commits in between,
  since its transaction has begun; and from `SourcePin::Use` on, the catalog name it uses refers
  to the pinned database *in its transaction*. The last part is why a database detached
  or renamed between two steps does no harm: a transaction keeps the databases it has
  referred to.
* `JInv`: a predicate taken from the book and not yet filled in is one of a book of the
  statement, a bound one is such a predicate filled with the snapshot, and the snapshot
  is the context of one book. It needs the stage a statement is in to tell which of its
  fields are in use.
* `KInv`: a context name once set stays set, and every book has values for all names its
  own predicates use, except those the bridge was attached without. So a name missing from
  a snapshot was set after the statement began, or was one of these.

Each layer has one lemma per kind of step; the many steps that pass what was read along
unchanged share one (`GoesOn`, `Carries`, `Passes`), with the side conditions listed
action by action.

### Policy and context

`BridgePolicyProofs`, for every number of connections, registrations, tables, predicates,
names, values and edits:

| Theorem | Statement |
|---|---|
| `PoliciesTypeCorrect` | `PolicySpec => []PolicyTypeOK` |
| `LivePoliciesHold` | `PolicySpec => []LivePolicyHolds` |
| `FinalizedPoliciesStay` | `PolicySpec => FinalizedPolicyIsFrozen` |
| `FinalizedContextsStay` | `PolicySpec => FinalizedContextIsFrozen` |
| `SetBeforeUse` | `PolicySpec /\ []CallsKeepTheirBridge => []NamesAreSet` |
| `CheckedOnChange` | `PolicySpec /\ []CallsKeepTheirBridge /\ []ContextCallsRunAlone => []PoliciesBind` |

Assumptions: those of the registry, `PolicyAssumption` and `EditsAssumption` (the edits are
edits).

Argument. A step of the policy module is a step of the registry, with the policy calls as
stutters (`IsRegistryStep`); so the registry's invariant holds and its lemmas say what
happens to entries. `LivePolicyHolds` is inductive with it, since each registration has one
entry: a policy is checked by ATTACH for the registration that becomes live, and by
`CommitPolicy` for the one that is. The last two theorems have hypotheses because the code
does not keep the properties without them: the runs `policy_reregister` and `policy_race`
are the counterexamples. The hypotheses say exactly what those counterexamples break. A
policy call that commits finds the registration it looked up (`CallsKeepTheirBridge`), and
while one connection is setting a context value of a registration no other is in the middle
of a call for it (`ContextCallsRunAlone`); policy calls may overlap one another. The
invariants then carry, with a call in flight, what `ResolvePolicy` and `ProbeContext` have
established about the predicates the call will install or has tested.

### Sessions and DDL

`BridgeSessionProofs`, for every finite set of sessions, every set of names and every bound:

| Theorem | Statement |
|---|---|
| `SessionsAreSound` | `Spec => []IInv` |
| `SessionsTypeCorrect` | `Spec => []TypeOK` |
| `EveryUndoIsCounted` | `Spec => []DdlIsCounted` |
| `UndosAreHeld` | `Spec => []UndoHoldsItsTables` |
| `ShapersHold` | `Spec => []ShaperHoldsTheTable` |
| `CreatorsAreGranted` | `Spec => []CreatedIsGrantedUnlessCommitFailed` |
| `UndoneGrantsWereHeld` | `Spec => OnlyHeldGrantsChange` |
| `RollbackTargetIsKept` | `Spec => UndoInvertsUnlessRenamedOver` |

Assumptions: the sessions are a finite set, the bounds are naturals, and `None` is none of
the values it stands beside.

Argument. The invariant adds to the properties that two open transactions have written
different tables (the source refuses write-write conflicts; a destroyed session whose
connection lives on counts as open), that a table is being shaped by a session that is there, and for each session what its undo list is to what it has
written and to the grants: a statement that ran and is not recorded yet holds its tables
already, and while no commit has failed every table it created and still sees is granted.
Without the disjointness a rollback could take another session's grant; the counterexample
of `session_commit_race` is the case in which the disjointness is gone.

The two folds of the model need induction: `Owed`, the sum over the sessions that
`uncommitted_ddl` is compared with, and `UndoGrants`, the undo list run backwards. The
library's induction theorems take an operator, which the provers cannot instantiate;
`FoldLemmas` proves induction in the form "a set with 0 and the successor of each of its
naturals has them all", by the least counterexample, and from it that the recursive
function behind a fold over a finite set exists. From there `BridgeSessionProofs` shows
that changing one session changes `Owed` by the difference of its undo lists, and that an
undo list undoes its newest entry first.

### The provider's catalog

`ProviderCatalogProofs`, for every number of threads, tables, generations, versions and
providers:

| Theorem | Statement |
|---|---|
| `CatalogIsFresh` | `Spec => []IInv` |
| `CatalogTypeCorrect` | `Spec => []TypeOK` |
| `ListsAreFresh` | `Spec => []CurrentListIsFresh` |
| `EntriesAreFresh` | `Spec => []EntryIsFresh` |

Assumptions: the bounds are naturals, an ATTACH that names a provider has one, `Content`
says what each generation lists, `None` is no generation and no thread.

Argument. `EntryIsFresh` speaks of a lookup that is over; what decides is the snapshot of
provider and version it took, and whether its listing was installed. The invariant says of
a thread at every step what its snapshot is worth (`SnapshotIsFresh`) and that an entry it
may still find is fresh for it or will be retired before it reads (`FindsFresh`); of the
cache, that entries of the catalog's epoch are at least as new as the listing
(`CacheIsFresh`); and that nobody is entitled to more than the provider answers now
(`ProviderIsFresh`). The lock of the wrapper matters: at most one thread is between its
listing and its read.

### Streams and writes

`ProviderWriteProofs`, for every finite set of scans, every finite table, any hosts,
threads, generators, answers of the scan function, vector size and bound on the sink:

| Theorem | Statement |
|---|---|
| `WritesAreSound` | `Spec => []IInv` |
| `WriteTypeOK` | `Spec => []TypeOK` |
| `StreamsAreClosedOnce` | `Spec => []ClosedOnce` |
| `StreamsDeliver` | `Spec => []DeliversWhatWasSent` |
| `RowIdsName` | `Spec => []RowIdNamesItsRow` |
| `WritesCarryTheRows` | `Spec => []WriteCarriesTheRows` |
| `BrokenSourcesWriteNothing` | `Spec => []NoWriteFromBrokenSource` |
| `HiddenRowsAreNoticed` | `Spec => []HiddenRowsAreReported` |

Assumptions (`StreamAssumption`, `WriteAssumption`): the scans and the table are finite,
the generators and the scan function answer with well-formed messages (readable or not,
in any order), `Key` gives each row of the table a key, not necessarily a unique one, and
a vector holds at least one row.

Argument. First, what the operators compute. `PushFrame` either fails or appends to the
queued batches the rows of the frame up to its end mark (`PushKeeps`); `Chunks` cuts a
sequence into pieces that make it up again (`ChunksAreRows`); what `Encode` makes of
chunks decodes to their rows (`EncodedIsDecoded`). These are inductions on a length over
the partial results of `FlattenSeq` and `FoldLeft`.

Then the streams (`StreamInv`). A call that has opened its generator is served by it
(`Serves`): the generator is closed as often as the call's flag says, and what the call
has delivered together with what its decoder still holds is what the generator has sent.
The handles of the calls that have begun are different and at most the counter, and every
generator is some call's, so a step of one call disturbs no other (`CallGoesOn`); the
host's teardown changes neither how often a generator was closed nor what it has sent.

Last the statement. Every id that was given out is an index of the key buffer under which
the row's key lies, and the buffer only grows (`IdsAreIndexes`, `BufferGrows`); the sink
holds the rows passed to it with such ids (`SinkHolds`); once there is something to send
every stream has ended without a failure and what was sent is what was to be sent
(`SentWhenSettled`). For `HiddenRowsAreReported` the rows written contain the rows passed
to the sink, as these have the keys sent; if no row was passed twice and the count is at
most the number of keys, the two sets are as large and so equal.

### Only model-checked

* `DetachedIdIsFreed` and `GeneratorsAreClosed`: liveness under fairness is beyond the
  prover.
* The small instances also show that the actions happen at all: a theorem `Spec => []Inv`
  does not say that a write is ever finished.

## 5. Not modelled

* `CrossingAttach`: not in the repository. What it hands to a session (which statement,
  for which table) is an input of `BridgeSession`.
* Policy documents, error wording, JSON of filters and arguments, conversion of values,
  the buffers inside an Arrow message (`ReadArrowValue`'s layouts, the filler column of
  `COUNT(*)`), the list of builtin functions: conversions and data.
* `vcatbridge_lockdown`: one caller sets DuckDB's own settings one after the other; what
  a half-locked instance still allows is DuckDB's behaviour, not the repository's.
* nanoarrow: vendored.
* Locks inside locks: `PendingLock::held` exists so that no reference is dropped under
  `PendingMutex`; the models take critical sections as atomic and do not see that.
* The failure of one half of a two-database commit: documented as not atomic.
* In the provider's catalog: scans of a whole schema and the permission listing (the
  same refresh and fill for every table), `DROP SCHEMA` and the wrappers and entries
  retired rather than freed, a host function whose query waits for the wrapper's lock.
* In statements across the bridge: `AcceptsCall` (one lookup in the function list decides, and
  nothing reads the list again), DDL other than ALTER (it is in `BridgeSession`),
  `CREATE SCHEMA` by the target and `create_schemas`, tables native to the target, and
  source tables whose foreign keys change under a grant.
* In streams and writes: the listing of a host's stream functions, an `_open` that fails
  half way on the host, and the size of the key buffer, which nothing bounds.

## 6. Plan

1. Done: `BridgeHandshake`, `BridgeRegistry` and its proofs, `BridgePolicy`,
   `BridgeSession`, `ProviderCatalog`, `BridgeStatement` and its proofs,
   `ProviderStream`, `ProviderWrite`.
2. Done: proofs of every safety invariant and action property a passing run checks.
3. Left: the two liveness properties stay with TLC.
