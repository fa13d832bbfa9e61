---------------------------- MODULE ProviderCatalog ----------------------------
(***************************************************************************)
(* The catalog of a vcatprovider database                                   *)
(* (src/provider/provider_virtual_catalog.cpp, provider_table_register.cpp):*)
(* the provider's list of tables, cached with the version it was listed at; *)
(* the table entries a schema wrapper caches, valid for one epoch of that   *)
(* list; and the schema that is created so that the list can be reached.    *)
(*                                                                         *)
(* Threads look tables up and alter them while the host changes what its    *)
(* functions answer, invalidates the list, and registers other providers.   *)
(* No lock of the catalog is held while the host's list function runs; the  *)
(* wrapper's lock is held while its list and schema functions run.          *)
(*                                                                         *)
(* What the host answers is a generation: a number that grows each time     *)
(* some provider changes its tables.  Content[g] are the tables listed in   *)
(* generation g, all of one schema, and an entry is the generation its      *)
(* columns come from.  Native tables win over provider tables and never get *)
(* here.  A function of the host that fails ends the statement.             *)
(***************************************************************************)
EXTENDS Integers

CONSTANTS
    Threads,        \* connections that use the catalog
    Tables,         \* table names of the schema
    None,           \* no listing, no entry, nobody
    Content,        \* Content[g]: the tables of generation g
    Attached,       \* ATTACH named the functions of a first provider
    Reentrant,      \* the list function's own query may look into this catalog
    MaxGeneration,  \* bound: changes of the host
    MaxVersion,     \* bound: invalidations of one provider
    MaxProviders    \* bound: providers registered

ASSUME ProviderBounds ==
    /\ MaxGeneration \in Nat /\ MaxVersion \in Nat /\ MaxProviders \in Nat
    /\ Reentrant \in BOOLEAN /\ Attached \in BOOLEAN
    /\ Attached => MaxProviders > 0

Generations == 0..MaxGeneration
Providers == 1..MaxProviders

ASSUME ProviderContent == Content \in [Generations -> SUBSET Tables]
ASSUME ProviderNone == None \notin Generations \cup Threads

\* listing: the generation tables_by_schema holds; a cleared one is None.
VirtualCatalogProvider ==
    [listing: Generations \cup {None}, listed_version: 0..MaxVersion, names_filled: BOOLEAN,
     epoch: Nat, ensured_epoch: Nat, schemas_ensured: BOOLEAN]

SchemaEntry == [cached_epoch: Nat, cache: [Tables -> Generations \cup {None}]]

\* What a thread is in the middle of.  inside: it holds, or is about to take, the wrapper's lock;
\* of, version: the snapshot RefreshProviderNames took; answer: what the host answered; since: the
\* generation its table had reached by an invalidation or an ALTER before it began.
Statement ==
    [op: {"lookup", "alter"}, table: Tables, inside: BOOLEAN, of: 0..MaxProviders,
     version: 0..MaxVersion, answer: Generations \cup {None}, since: Generations,
     step: {"check", "list", "install", "ensure", "create", "resolve", "lock", "read", "describe",
            "alter", "evict", "done"}]

VARIABLES
    provider,     \* the ProviderInfo registered last, 0 if none is
    registered,   \* how many were registered
    version,      \* version[p]: ProviderInfo::version
    answers,      \* answers[p]: the generation p's functions answer from
    now,          \* the latest generation
    cat,          \* the VirtualCatalogProvider
    wrapper,      \* the VirtualCatalogProviderSchemaEntry
    holder,       \* the thread that holds the wrapper's provider_lock
    schema,       \* the DuckSchemaEntry
    th,           \* the threads
    invalidated,  \* the generation reached when the list was last invalidated
    altered       \* altered[t]: the generation the last completed ALTER of t made

hostVars == <<provider, registered, version, answers, now>>
ghostVars == <<invalidated, altered>>
vars == <<hostVars, cat, wrapper, holder, schema, th, ghostVars>>

EmptyCache == [t \in Tables |-> None]

\* ATTACH with LIST, SCHEMA and SCAN brings the first provider, ATTACH without them none.
Init ==
    /\ provider = IF Attached THEN 1 ELSE 0
    /\ registered = provider
    /\ version = [p \in Providers |-> 0]
    /\ answers = [p \in Providers |-> 0]
    /\ now = 0
    /\ cat = [listing |-> None, listed_version |-> 0, names_filled |-> FALSE, epoch |-> 0,
              ensured_epoch |-> 0, schemas_ensured |-> FALSE]
    /\ wrapper = [cached_epoch |-> 0, cache |-> EmptyCache]
    /\ holder = None
    /\ schema = "absent"
    /\ th = [c \in Threads |-> None]
    /\ invalidated = 0
    /\ altered = [t \in Tables |-> 0]

--------------------------------------------------------------------------------
(* The host *)

SetProviderMutKeepsFilled(p) ==
    /\ provider' = p
    /\ cat' = [cat EXCEPT !.listing = None, !.listed_version = 0, !.schemas_ensured = FALSE,
                          !.epoch = @ + 1]
    /\ UNCHANGED <<version, wrapper, holder, schema, th, altered>>

\* SetProvider: everything cached about the provider before goes, and the epoch moves.
SetProvider(p) ==
    /\ provider' = p
    /\ cat' = [cat EXCEPT !.listing = None, !.names_filled = FALSE, !.listed_version = 0,
                          !.schemas_ensured = FALSE, !.epoch = @ + 1]
    /\ UNCHANGED <<version, wrapper, holder, schema, th, altered>>

\* vcatprovider_register: a provider with tables of its own.
Register ==
    /\ registered < MaxProviders /\ now < MaxGeneration
    /\ registered' = registered + 1
    /\ now' = now + 1
    /\ answers' = [answers EXCEPT ![registered'] = now']
    /\ invalidated' = now'
    /\ SetProvider(registered')

Unregister ==
    /\ provider # 0
    /\ SetProvider(0)
    /\ UNCHANGED <<registered, answers, now, invalidated>>

\* The tables behind the provider change.
HostChanges ==
    /\ provider # 0 /\ now < MaxGeneration
    /\ now' = now + 1
    /\ answers' = [answers EXCEPT ![provider] = now']
    /\ UNCHANGED <<provider, registered, version, cat, wrapper, holder, schema, th, ghostVars>>

\* vcatprovider_invalidate_tables.
Invalidate ==
    /\ provider # 0 /\ version[provider] < MaxVersion
    /\ version' = [version EXCEPT ![provider] = @ + 1]
    /\ invalidated' = answers[provider]
    /\ UNCHANGED <<provider, registered, answers, now, cat, wrapper, holder, schema, th, altered>>

--------------------------------------------------------------------------------
(* RefreshProviderNames *)

At(c, step) == th[c] # None /\ th[c].step = step

\* On to a step that needs nothing of what was read before.
Goto(c, step) ==
    th' = [th EXCEPT ![c].step = step, ![c].of = 0, ![c].version = 0, ![c].answer = None]

\* The statement ends and lets go of the lock.
Leave(c) ==
    /\ th' = [th EXCEPT ![c] = None]
    /\ holder' = IF holder = c THEN None ELSE holder

\* Where the caller of the refresh goes on: EnsureProviderSchemas or TablesForSchema.
AfterRefresh(c) == IF th[c].inside THEN "read" ELSE "ensure"

\* The generation t's entry had to reach before now.
Reached(t) == IF invalidated < altered[t] THEN altered[t] ELSE invalidated

Begin(c, op, t) ==
    /\ th[c] = None
    /\ th' = [th EXCEPT ![c] = [op |-> op, table |-> t, inside |-> FALSE, of |-> 0, version |-> 0,
                                answer |-> None, step |-> "check",
                                since |-> IF op = "lookup" THEN Reached(t) ELSE 0]]
    /\ UNCHANGED <<hostVars, cat, wrapper, holder, schema, ghostVars>>

\* Under the catalog's provider_lock: nothing to do, or a snapshot of the provider and its version.
Check(c) ==
    /\ At(c, "check")
    /\ IF provider = 0 \/ (cat.names_filled /\ version[provider] = cat.listed_version)
         THEN Goto(c, AfterRefresh(c))
         ELSE th' = [th EXCEPT ![c].of = provider, ![c].version = version[provider],
                               ![c].step = "list"]
    /\ UNCHANGED <<hostVars, cat, wrapper, holder, schema, ghostVars>>

\* The list function of the snapshot answers.
List(c) ==
    /\ At(c, "list")
    /\ th' = [th EXCEPT ![c].answer = answers[th[c].of], ![c].step = "install"]
    /\ UNCHANGED <<hostVars, cat, wrapper, holder, schema, ghostVars>>

Relisted(c, listed) ==
    [cat EXCEPT !.listing = th[c].answer, !.listed_version = listed, !.names_filled = TRUE,
                !.epoch = IF cat.names_filled /\ listed # cat.listed_version THEN @ + 1 ELSE @]

InstallMutLateVersion(c) ==
    /\ At(c, "install")
    /\ cat' = IF provider # th[c].of THEN cat ELSE Relisted(c, version[provider])
    /\ Goto(c, AfterRefresh(c))
    /\ UNCHANGED <<hostVars, wrapper, holder, schema, ghostVars>>

InstallMutKeepsEpoch(c) ==
    /\ At(c, "install")
    /\ cat' = IF provider # th[c].of THEN cat
              ELSE [Relisted(c, th[c].version) EXCEPT !.epoch = cat.epoch]
    /\ Goto(c, AfterRefresh(c))
    /\ UNCHANGED <<hostVars, wrapper, holder, schema, ghostVars>>

\* The answer is stored under the version read before the call, unless the provider was replaced;
\* the epoch moves only with the version.
Install(c) ==
    /\ At(c, "install")
    /\ cat' = IF provider # th[c].of THEN cat ELSE Relisted(c, th[c].version)
    /\ Goto(c, AfterRefresh(c))
    /\ UNCHANGED <<hostVars, wrapper, holder, schema, ghostVars>>

--------------------------------------------------------------------------------
(* LookupSchema *)

Ensured == cat.schemas_ensured /\ cat.ensured_epoch = cat.epoch

Ensuring == [cat EXCEPT !.schemas_ensured = TRUE, !.ensured_epoch = cat.epoch]

Listed == IF cat.listing = None THEN {} ELSE Content[cat.listing]

\* A schema of another transaction that has not committed makes this a TransactionException, which
\* is swallowed.
Created == IF schema = "absent" THEN "present" ELSE schema

\* EnsureProviderSchemas, under provider_lock: the schemas count as created from here on.
Ensure(c) ==
    /\ At(c, "ensure")
    /\ Goto(c, IF ~Ensured /\ Listed # {} THEN "create" ELSE "resolve")
    /\ cat' = IF Ensured THEN cat ELSE Ensuring
    /\ UNCHANGED <<hostVars, wrapper, holder, schema, ghostVars>>

\* Then, outside the lock, the system transaction creates what is missing.
Create(c) ==
    /\ At(c, "create")
    /\ schema' = Created
    /\ Goto(c, "resolve")
    /\ UNCHANGED <<hostVars, cat, wrapper, holder, ghostVars>>

\* The list function's query comes back to this catalog: ListingGuard spares it the refresh, not
\* EnsureProviderSchemas.
Reenter(c) ==
    /\ Reentrant
    /\ At(c, "list") /\ ~Ensured
    /\ cat' = Ensuring
    /\ schema' = IF Listed # {} THEN Created ELSE schema
    /\ UNCHANGED <<hostVars, wrapper, holder, th, ghostVars>>

\* DuckCatalog::LookupSchema and GetOrCreateWrapper: without the schema the statement ends.
Resolve(c) ==
    /\ At(c, "resolve")
    /\ IF schema = "present" THEN Goto(c, "lock") /\ UNCHANGED holder ELSE Leave(c)
    /\ UNCHANGED <<hostVars, cat, wrapper, schema, ghostVars>>

--------------------------------------------------------------------------------
(* The schema wrapper *)

\* LookupExtensionEntry and TryGetProviderForTable take the wrapper's lock and refresh again.
Lock(c) ==
    /\ At(c, "lock") /\ holder = None
    /\ holder' = c
    /\ th' = [th EXCEPT ![c].inside = TRUE, ![c].step = "check"]
    /\ UNCHANGED <<hostVars, cat, wrapper, schema, ghostVars>>

\* The cache of another epoch is retired.
CacheNow == IF cat.epoch = wrapper.cached_epoch THEN wrapper.cache ELSE EmptyCache

\* The statement has its entry, lets go of the lock and goes on with it.
Found(c, entry) ==
    /\ th' = [th EXCEPT ![c].step = "done", ![c].of = 0, ![c].answer = entry]
    /\ holder' = None

\* TablesForSchema and RefreshedTables, then what the caller does with the names.  A lookup keeps the
\* lock while it asks for the columns, an ALTER gives it up before it calls the alter function.
Read(c) ==
    /\ At(c, "read")
    /\ wrapper' = [cached_epoch |-> cat.epoch, cache |-> CacheNow]
    /\ LET t == th[c].table
       IN  \/ /\ provider = 0 \/ t \notin Listed
              /\ Leave(c)
           \/ /\ provider # 0 /\ t \in Listed
              /\ th[c].op = "alter"
              /\ th' = [th EXCEPT ![c].of = provider, ![c].step = "alter"]
              /\ holder' = None
           \/ /\ provider # 0 /\ t \in Listed
              /\ th[c].op = "lookup"
              /\ IF CacheNow[t] # None THEN Found(c, CacheNow[t])
                 ELSE /\ th' = [th EXCEPT ![c].of = provider, ![c].step = "describe"]
                      /\ UNCHANGED holder
    /\ UNCHANGED <<hostVars, cat, schema, ghostVars>>

\* GetOrQueryProviderEntry: the schema function answers with the table's columns, which are cached.
Describe(c) ==
    /\ At(c, "describe")
    /\ wrapper' = [wrapper EXCEPT !.cache[th[c].table] = answers[th[c].of]]
    /\ Found(c, answers[th[c].of])
    /\ UNCHANGED <<hostVars, cat, schema, ghostVars>>

\* TryAlterExtensionEntry: the alter function changes the table.
Alter(c) ==
    /\ At(c, "alter") /\ now < MaxGeneration
    /\ now' = now + 1
    /\ answers' = [answers EXCEPT ![th[c].of] = now']
    /\ th' = [th EXCEPT ![c].answer = now', ![c].step = "evict"]
    /\ UNCHANGED <<provider, registered, version, cat, wrapper, holder, schema, ghostVars>>

EvictMutNothing(c) ==
    /\ At(c, "evict") /\ holder = None
    /\ altered' = IF provider = th[c].of THEN [altered EXCEPT ![th[c].table] = th[c].answer]
                  ELSE altered
    /\ Leave(c)
    /\ UNCHANGED <<hostVars, cat, wrapper, schema, invalidated>>

\* Then its entry is evicted, and the statement is done.
Evict(c) ==
    /\ At(c, "evict") /\ holder = None
    /\ wrapper' = [wrapper EXCEPT !.cache[th[c].table] = None]
    /\ altered' = IF provider = th[c].of THEN [altered EXCEPT ![th[c].table] = th[c].answer]
                  ELSE altered
    /\ Leave(c)
    /\ UNCHANGED <<hostVars, cat, schema, invalidated>>

\* The caller is done with the entry.
Return(c) ==
    /\ At(c, "done")
    /\ Leave(c)
    /\ UNCHANGED <<hostVars, cat, wrapper, schema, ghostVars>>

\* A function of the host fails, or the schema function answers NULL: nothing is stored.
Fail(c) ==
    /\ th[c] # None /\ th[c].step \in {"list", "describe", "alter"}
    /\ Leave(c)
    /\ UNCHANGED <<hostVars, cat, wrapper, schema, ghostVars>>

--------------------------------------------------------------------------------
(* A transaction of another connection that creates the schema by name *)

UserCreatesSchema ==
    /\ schema = "absent"
    /\ schema' = "uncommitted"
    /\ UNCHANGED <<hostVars, cat, wrapper, holder, th, ghostVars>>

UserEnds(outcome) ==
    /\ schema = "uncommitted"
    /\ schema' = outcome
    /\ UNCHANGED <<hostVars, cat, wrapper, holder, th, ghostVars>>

Host == Register \/ Unregister \/ HostChanges \/ Invalidate

User == UserCreatesSchema \/ \E outcome \in {"present", "absent"} : UserEnds(outcome)

Step(c) ==
    \/ \E op \in {"lookup", "alter"}, t \in Tables : Begin(c, op, t)
    \/ Check(c) \/ List(c) \/ Install(c)
    \/ Ensure(c) \/ Create(c) \/ Reenter(c) \/ Resolve(c)
    \/ Lock(c) \/ Read(c) \/ Describe(c)
    \/ Alter(c) \/ Evict(c)
    \/ Return(c) \/ Fail(c)

Next == Host \/ User \/ \E c \in Threads : Step(c)

Spec == Init /\ [][Next]_vars

--------------------------------------------------------------------------------
(* Properties *)

\* Types.  The names count as filled exactly when there are some, across replaced providers too, and
\* no epoch that was noted is ahead of the catalog's.
TypeOK ==
    /\ provider \in 0..registered /\ registered \in 0..MaxProviders
    /\ version \in [Providers -> 0..MaxVersion]
    /\ answers \in [Providers -> Generations]
    /\ now \in Generations
    /\ cat \in VirtualCatalogProvider
    /\ cat.names_filled <=> cat.listing # None
    /\ wrapper \in SchemaEntry
    /\ cat.ensured_epoch <= cat.epoch /\ wrapper.cached_epoch <= cat.epoch
    /\ holder \in Threads \cup {None}
    /\ schema \in {"absent", "uncommitted", "present"}
    /\ th \in [Threads -> Statement \cup {None}]
    /\ invalidated \in Generations
    /\ altered \in [Tables -> Generations]

\* A list that counts as current is current: listings that finish in any order, for a provider that
\* may have been replaced meanwhile, never leave one from before the last
\* vcatprovider_invalidate_tables under the version the provider has now.
CurrentListIsFresh ==
    provider # 0 /\ cat.names_filled /\ cat.listed_version = version[provider] =>
        cat.listing >= invalidated

\* A lookup that begins after the list was invalidated, or after an ALTER of the table returned,
\* finds no columns from before: not in the cache and not from a lookup that was in flight.
EntryIsFresh ==
    \A c \in Threads : At(c, "done") => th[c].answer >= th[c].since

\* src/provider/include/provider_virtual_catalog.hpp:60, EnsureProviderSchemas: "Materialise a
\* DuckSchemaEntry for every schema the provider names".  A lookup that comes when the provider lists
\* tables, their schema does not exist and nobody is creating it goes on to create it.
NamedSchemaIsMade ==
    [][\A c \in Threads :
          /\ Ensure(c) /\ Listed # {} /\ schema = "absent"
          /\ \A d \in Threads : ~At(d, "create")
          => th'[c].step = "create"]_vars

================================================================================
