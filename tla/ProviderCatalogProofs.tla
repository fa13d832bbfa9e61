------------------------- MODULE ProviderCatalogProofs -------------------------
(***************************************************************************)
(* Proofs about ProviderCatalog, for every number of threads, tables,        *)
(* generations, versions and providers: lists and entries are never older    *)
(* than the invalidations and ALTERs that a lookup comes after.              *)
(***************************************************************************)
EXTENDS ProviderCatalog, TLAPS

--------------------------------------------------------------------------------
(* The inductive invariant *)

\* The wrapper's cache belongs to the catalog's epoch: the next reader will use it.
Current == cat.epoch = wrapper.cached_epoch

\* Nothing is newer than the latest generation.
Bounded ==
    /\ \A p \in Providers : answers[p] <= now
    /\ invalidated <= now
    /\ \A t \in Tables : altered[t] <= now
    /\ \A c \in Threads : th[c] # None => th[c].since <= now

\* What the registered provider answers now is fresh for everyone.
ProviderIsFresh ==
    provider # 0 =>
        /\ cat.listed_version <= version[provider]
        /\ invalidated <= answers[provider]
        /\ \A t \in Tables : altered[t] <= answers[provider]
        /\ \A c \in Threads : th[c] # None => th[c].since <= answers[provider]

\* An entry the next reader will use is fresh, unless that reader lists again.
CacheIsFresh ==
    \A t \in Tables : Current /\ wrapper.cache[t] # None =>
        /\ cat.names_filled /\ provider # 0
        /\ cat.listed_version = version[provider] =>
              invalidated <= wrapper.cache[t] /\ altered[t] <= wrapper.cache[t]

\* The steps at which a thread that is inside holds the wrapper's lock.
Locked == {"check", "list", "install", "read", "describe"}

\* Where a thread is, what it holds and what its snapshot is worth.
Placed(c) ==
    /\ th[c].step \in {"ensure", "create", "resolve", "lock"} => ~th[c].inside
    /\ th[c].step \in {"read", "describe"} => th[c].inside
    /\ th[c].inside /\ th[c].step \in Locked => holder = c
    /\ th[c].step \in {"list", "install", "describe", "alter", "evict"} => th[c].of \in 1..registered
    /\ th[c].step \in {"install", "evict", "done"} => th[c].answer # None

SnapshotIsFresh(c) ==
    /\ th[c].step \in {"list", "install"} /\ th[c].of = provider => th[c].version <= version[provider]
    /\ th[c].step = "install" /\ th[c].of = provider /\ th[c].version = version[provider] =>
          invalidated <= th[c].answer
    /\ th[c].step = "evict" => th[c].answer <= answers[th[c].of]
    /\ th[c].step = "describe" =>
          /\ th[c].since <= answers[th[c].of]
          /\ Current => th[c].of = provider /\ cat.names_filled
    /\ th[c].step = "done" => th[c].since <= th[c].answer

\* An entry the thread may find is fresh for it, or is retired before it reads.
FindsFresh(c) ==
    Current /\ wrapper.cache[th[c].table] # None =>
        /\ cat.listed_version = version[provider] => th[c].since <= wrapper.cache[th[c].table]
        /\ th[c].inside /\ th[c].step \in {"list", "install"} =>
              th[c].of = provider /\ cat.listed_version # th[c].version
        /\ th[c].step = "read" => th[c].since <= wrapper.cache[th[c].table]

IInv ==
    /\ TypeOK /\ Bounded /\ ProviderIsFresh /\ CacheIsFresh /\ CurrentListIsFresh
    /\ \A c \in Threads : th[c] # None => Placed(c) /\ SnapshotIsFresh(c) /\ FindsFresh(c)

--------------------------------------------------------------------------------
(* The threads *)

Steps ==
    {"check", "list", "install", "ensure", "create", "resolve", "lock", "read", "describe", "alter",
     "evict", "done"}

\* Thread c goes on to a step with what it has read; nobody else moves.
Moves(c, step, of, ver, answer, inside) ==
    /\ th' \in [Threads -> Statement \cup {None}]
    /\ \A d \in Threads \ {c} : th'[d] = th[d]
    /\ th'[c] \in Statement
    /\ th'[c].step = step /\ th'[c].of = of /\ th'[c].version = ver /\ th'[c].answer = answer
    /\ th'[c].inside = inside /\ th'[c].table = th[c].table /\ th'[c].since = th[c].since

Ends(c) ==
    /\ th' \in [Threads -> Statement \cup {None}]
    /\ \A d \in Threads \ {c} : th'[d] = th[d]
    /\ th'[c] = None

\* A thread that goes on keeps its table and what it has to see.
LEMMA GotoMoves ==
    ASSUME TypeOK, NEW c \in Threads, th[c] # None, NEW step \in Steps, Goto(c, step)
    PROVE  Moves(c, step, 0, 0, None, th[c].inside)
<1>1. th[c] \in Statement  BY DEF TypeOK
<1>2. [th[c] EXCEPT !.step = step, !.of = 0, !.version = 0, !.answer = None] \in Statement
  <2>1. 0 \in 0..MaxProviders /\ 0 \in 0..MaxVersion  BY ProviderBounds
  <2> QED  BY <1>1, <2>1 DEF Statement, Steps
<1>3. th' = [th EXCEPT ![c] = [th[c] EXCEPT !.step = step, !.of = 0, !.version = 0, !.answer = None]]
  BY <1>1 DEF Goto, TypeOK, Statement
<1> QED  BY <1>1, <1>2, <1>3 DEF Moves, TypeOK, Statement

\* A thread that leaves is gone.
LEMMA LeaveEnds ==
    ASSUME TypeOK, NEW c \in Threads, Leave(c)
    PROVE  Ends(c)
BY DEF TypeOK, Leave, Ends

\* The steps that change nothing but the thread and perhaps the lock.
LEMMA QuietKeeps ==
    ASSUME IInv, NEW c \in Threads, TypeOK', UNCHANGED <<hostVars, wrapper, ghostVars>>,
           cat'.epoch = cat.epoch, cat'.listing = cat.listing,
           cat'.listed_version = cat.listed_version, cat'.names_filled = cat.names_filled,
           \A d \in Threads \ {c} : th'[d] = th[d] /\ (holder = d => holder' = d),
           th'[c] # None => /\ th'[c].since <= now
                            /\ provider # 0 => th'[c].since <= answers[provider]
                            /\ Placed(c)' /\ SnapshotIsFresh(c)' /\ FindsFresh(c)'
    PROVE  IInv'
<1> USE DEF hostVars, ghostVars
<1>1. Bounded'  BY DEF IInv, Bounded
<1>2. ProviderIsFresh'  BY DEF IInv, ProviderIsFresh
<1>3. CacheIsFresh'  BY DEF IInv, CacheIsFresh, Current
<1>4. CurrentListIsFresh'  BY DEF IInv, CurrentListIsFresh
<1>5. ASSUME NEW d \in Threads \ {c}, th'[d] # None
      PROVE  Placed(d)' /\ SnapshotIsFresh(d)' /\ FindsFresh(d)'
  <2>1. th[d] # None /\ Placed(d) /\ SnapshotIsFresh(d) /\ FindsFresh(d)  BY <1>5 DEF IInv
  <2>2. Placed(d)'  BY <1>5, <2>1 DEF Placed
  <2>3. SnapshotIsFresh(d)'  BY <1>5, <2>1 DEF SnapshotIsFresh, Current
  <2>4. FindsFresh(d)'  BY <1>5, <2>1 DEF FindsFresh, Current
  <2> QED  BY <2>2, <2>3, <2>4
<1> QED  BY <1>1, <1>2, <1>3, <1>4, <1>5 DEF IInv

\* The same for a thread that ends.
LEMMA EndsKeeps ==
    ASSUME IInv, NEW c \in Threads, Leave(c), UNCHANGED <<hostVars, cat, wrapper, schema, ghostVars>>
    PROVE  IInv'
<1>1. Ends(c)  BY LeaveEnds DEF IInv
<1>2. TypeOK'  BY <1>1 DEF Ends, Leave, IInv, TypeOK, hostVars, ghostVars
<1>3. \A d \in Threads \ {c} : th'[d] = th[d] /\ (holder = d => holder' = d)
  BY <1>1 DEF Ends, Leave
<1> QED  BY <1>1, <1>2, <1>3, QuietKeeps DEF Ends

\* What a thread owes before it takes a step: it is where it should be, and its entry is fresh.
LEMMA ThreadHas ==
    ASSUME IInv, NEW c \in Threads, th[c] # None
    PROVE  /\ th[c] \in Statement /\ Placed(c) /\ SnapshotIsFresh(c) /\ FindsFresh(c)
           /\ th[c].since <= now /\ (provider # 0 => th[c].since <= answers[provider])
BY DEF IInv, TypeOK, Bounded, ProviderIsFresh

--------------------------------------------------------------------------------
(* The host *)

\* SetProvider retires the cache and forgets the list; no thread moves.
LEMMA SetProviderRetires ==
    ASSUME IInv, NEW p, SetProvider(p)
    PROVE  /\ cat' \in VirtualCatalogProvider /\ cat'.listing = None /\ ~cat'.names_filled
           /\ cat'.listed_version = 0 /\ cat'.ensured_epoch <= cat'.epoch
           /\ wrapper.cached_epoch < cat'.epoch
           /\ UNCHANGED <<version, wrapper, holder, schema, th, altered>>
           /\ \A c \in Threads : th[c] # None => Placed(c) /\ SnapshotIsFresh(c) /\ th[c] \in Statement
<1>1. /\ cat \in VirtualCatalogProvider /\ wrapper \in SchemaEntry
      /\ cat.ensured_epoch <= cat.epoch /\ wrapper.cached_epoch <= cat.epoch
  BY DEF IInv, TypeOK
<1>2. 0 \in 0..MaxVersion /\ cat.epoch + 1 \in Nat  BY <1>1, ProviderBounds DEF VirtualCatalogProvider
<1>3. /\ cat' \in VirtualCatalogProvider /\ cat'.listing = None /\ ~cat'.names_filled
      /\ cat'.listed_version = 0 /\ cat'.epoch = cat.epoch + 1 /\ cat'.ensured_epoch = cat.ensured_epoch
  BY <1>1, <1>2 DEF SetProvider, VirtualCatalogProvider
<1>4. cat'.ensured_epoch <= cat'.epoch /\ wrapper.cached_epoch < cat'.epoch
  BY <1>1, <1>3 DEF VirtualCatalogProvider, SchemaEntry
<1> QED  BY <1>3, <1>4, ThreadHas DEF SetProvider

\* So a cache is not in use after it, and the rest depends on what the new provider answers.
LEMMA SetProviderKeeps ==
    ASSUME IInv, NEW p, SetProvider(p), TypeOK', Bounded', ProviderIsFresh',
           registered <= registered',
           \A c \in Threads : th[c] # None =>
               /\ th[c].step \in {"list", "install"} => th[c].of # provider'
               /\ th[c].step \in {"evict", "describe"} => answers'[th[c].of] = answers[th[c].of]
    PROVE  IInv'
<1>1. /\ ~cat'.names_filled /\ wrapper.cached_epoch < cat'.epoch
      /\ UNCHANGED <<version, wrapper, holder, schema, th, altered>>
      /\ \A c \in Threads : th[c] # None => Placed(c) /\ SnapshotIsFresh(c) /\ th[c] \in Statement
  BY SetProviderRetires
<1>2. ~Current'
  BY <1>1 DEF Current, TypeOK, VirtualCatalogProvider, SchemaEntry
<1>3. CacheIsFresh' /\ CurrentListIsFresh'  BY <1>1, <1>2 DEF CacheIsFresh, CurrentListIsFresh
<1>4. ASSUME NEW c \in Threads, th'[c] # None
      PROVE  Placed(c)' /\ SnapshotIsFresh(c)' /\ FindsFresh(c)'
  <2>1. th'[c] = th[c] /\ Placed(c) /\ SnapshotIsFresh(c)  BY <1>1, <1>4
  <2>2. Placed(c)'
    <3>1. registered \in Nat /\ registered' \in Nat  BY ProviderBounds DEF IInv, TypeOK
    <3> QED  BY <1>1, <2>1, <3>1 DEF Placed
  <2>3. SnapshotIsFresh(c)'  BY <1>1, <1>2, <1>4, <2>1 DEF SnapshotIsFresh
  <2>4. FindsFresh(c)'  BY <1>2 DEF FindsFresh
  <2> QED  BY <2>2, <2>3, <2>4
<1> QED  BY <1>3, <1>4 DEF IInv

\* A new provider answers from a generation newer than everything.
LEMMA RegisterKeeps ==
    ASSUME IInv, Register
    PROVE  IInv'
<1>1. /\ now \in Nat /\ now' = now + 1 /\ now' \in Generations /\ invalidated' = now'
      /\ registered \in Nat /\ registered' = registered + 1 /\ registered' \in Providers
      /\ provider' = registered' /\ SetProvider(registered')
      /\ answers' = [answers EXCEPT ![registered'] = now']
      /\ answers \in [Providers -> Generations] /\ version \in [Providers -> 0..MaxVersion]
  BY ProviderBounds DEF Register, SetProvider, IInv, TypeOK, Generations, Providers
<1>2. /\ cat' \in VirtualCatalogProvider /\ cat'.listing = None /\ ~cat'.names_filled
      /\ cat'.listed_version = 0 /\ cat'.ensured_epoch <= cat'.epoch /\ wrapper.cached_epoch < cat'.epoch
      /\ UNCHANGED <<version, wrapper, holder, schema, th, altered>>
      /\ \A c \in Threads : th[c] # None => Placed(c) /\ th[c] \in Statement
  BY <1>1, SetProviderRetires
<1>3. TypeOK'
  <2>1. wrapper.cached_epoch <= cat'.epoch
    BY <1>2 DEF IInv, TypeOK, VirtualCatalogProvider, SchemaEntry
  <2>2. answers' \in [Providers -> Generations]  BY <1>1
  <2>3. provider' \in 0..registered' /\ registered' \in 0..MaxProviders
    BY <1>1, ProviderBounds DEF Providers
  <2> QED  BY <1>1, <1>2, <2>1, <2>2, <2>3 DEF IInv, TypeOK
<1>4. /\ \A c \in Threads : th[c] # None => th[c].since \in Nat /\ th[c].since <= now
      /\ \A t \in Tables : altered[t] \in Nat /\ altered[t] <= now
      /\ \A p \in Providers : answers[p] \in Nat /\ answers[p] <= now
  BY <1>1, <1>2, ProviderBounds DEF IInv, TypeOK, Bounded, Generations, Statement
<1>5. Bounded'  BY <1>1, <1>2, <1>4 DEF Bounded
<1>6. ProviderIsFresh'
  <2>1. answers'[provider'] = now' /\ 0 <= version[provider']  BY <1>1, ProviderBounds
  <2> QED  BY <1>1, <1>2, <1>4, <2>1 DEF ProviderIsFresh
<1>7. \A c \in Threads : th[c] # None =>
               /\ th[c].step \in {"list", "install"} => th[c].of # provider'
               /\ th[c].step \in {"evict", "describe"} => answers'[th[c].of] = answers[th[c].of]
  <2> SUFFICES ASSUME NEW c \in Threads, th[c] # None,
                      th[c].step \in {"list", "install", "evict", "describe"}
               PROVE  th[c].of # provider' /\ answers'[th[c].of] = answers[th[c].of]
    OBVIOUS
  <2>1. th[c].of \in 1..registered  BY <1>2 DEF Placed
  <2>2. th[c].of \in Providers /\ th[c].of # registered'
    BY <1>1, <2>1, ProviderBounds DEF Providers
  <2> QED  BY <1>1, <2>2
<1> QED  BY <1>1, <1>3, <1>5, <1>6, <1>7, SetProviderKeeps

\* Without a provider there is nothing to be fresh.
LEMMA UnregisterKeeps ==
    ASSUME IInv, Unregister
    PROVE  IInv'
<1>1. SetProvider(0) /\ provider' = 0 /\ UNCHANGED <<registered, answers, now, invalidated>>
  BY DEF Unregister, SetProvider
<1>2. /\ cat' \in VirtualCatalogProvider /\ cat'.listing = None /\ ~cat'.names_filled
      /\ cat'.listed_version = 0 /\ cat'.ensured_epoch <= cat'.epoch /\ wrapper.cached_epoch < cat'.epoch
      /\ UNCHANGED <<version, wrapper, holder, schema, th, altered>>
      /\ \A c \in Threads : th[c] # None => Placed(c) /\ th[c] \in Statement
  BY <1>1, SetProviderRetires
<1>3. TypeOK'
  <2>1. wrapper.cached_epoch <= cat'.epoch
    BY <1>2 DEF IInv, TypeOK, VirtualCatalogProvider, SchemaEntry
  <2>2. registered \in 0..MaxProviders /\ 0 \in 0..registered  BY ProviderBounds DEF IInv, TypeOK
  <2> QED  BY <1>1, <1>2, <2>1, <2>2 DEF IInv, TypeOK
<1>4. Bounded' /\ ProviderIsFresh'  BY <1>1, <1>2 DEF IInv, Bounded, ProviderIsFresh
<1>5. registered <= registered'  BY <1>1, ProviderBounds DEF IInv, TypeOK
<1>6. \A c \in Threads : th[c] # None /\ th[c].step \in {"list", "install"} => th[c].of # provider'
  BY <1>1, <1>2 DEF Placed
<1> QED  BY <1>1, <1>3, <1>4, <1>5, <1>6, SetProviderKeeps

\* The provider's answers only get newer.
LEMMA HostChangesKeeps ==
    ASSUME IInv, HostChanges
    PROVE  IInv'
<1>1. /\ provider \in Providers
      /\ now \in Nat /\ now' = now + 1 /\ now' \in Generations
      /\ answers' = [answers EXCEPT ![provider] = now'] /\ answers \in [Providers -> Generations]
      /\ UNCHANGED <<provider, registered, version, cat, wrapper, holder, schema, th, ghostVars>>
  BY ProviderBounds DEF HostChanges, IInv, TypeOK, Generations, Providers
<1>2. /\ \A c \in Threads : th[c] # None =>
            /\ th[c] \in Statement /\ Placed(c) /\ SnapshotIsFresh(c) /\ FindsFresh(c)
            /\ th[c].since \in Nat /\ th[c].since <= now
      /\ \A t \in Tables : altered[t] \in Nat /\ altered[t] <= now
      /\ \A p \in Providers : answers[p] \in Nat /\ answers[p] <= now
      /\ invalidated \in Nat /\ invalidated <= now
  BY ThreadHas, ProviderBounds DEF IInv, TypeOK, Bounded, Generations, Statement
<1>3. TypeOK'  BY <1>1 DEF IInv, TypeOK, ghostVars
<1>4. \A p \in Providers : answers'[p] \in Nat /\ answers[p] <= answers'[p] /\ answers'[p] <= now'
  BY <1>1, <1>2
<1>5. Bounded'  BY <1>1, <1>2, <1>4 DEF Bounded, ghostVars
<1>6. ProviderIsFresh'
  <2>1. answers'[provider] = now'  BY <1>1
  <2> QED  BY <1>1, <1>2, <2>1 DEF IInv, ProviderIsFresh, ghostVars
<1>7. CacheIsFresh' /\ CurrentListIsFresh'
  BY <1>1 DEF IInv, CacheIsFresh, CurrentListIsFresh, Current, ghostVars
<1>8. ASSUME NEW c \in Threads, th'[c] # None
      PROVE  Placed(c)' /\ SnapshotIsFresh(c)' /\ FindsFresh(c)'
  <2>1. th'[c] = th[c] /\ Placed(c) /\ SnapshotIsFresh(c) /\ FindsFresh(c) /\ th[c] \in Statement
        /\ th[c].since \in Nat
    BY <1>1, <1>2, <1>8
  <2>2. Placed(c)' /\ FindsFresh(c)'  BY <1>1, <2>1 DEF Placed, FindsFresh, Current
  <2>3. th[c].step \in {"evict", "describe"} => th[c].of \in Providers
    BY <2>1, ProviderBounds DEF Placed, IInv, TypeOK, Providers
  <2>4. th[c].step = "evict" => th[c].answer \in Nat
    BY <2>1, ProviderBounds DEF Placed, Statement, Generations
  <2>5. SnapshotIsFresh(c)'
    BY <1>1, <1>2, <1>4, <2>1, <2>3, <2>4 DEF SnapshotIsFresh, Current, ghostVars
  <2> QED  BY <2>2, <2>5
<1> QED  BY <1>3, <1>5, <1>6, <1>7, <1>8 DEF IInv

\* Every list and every snapshot is of an older version from here on.
LEMMA InvalidateKeeps ==
    ASSUME IInv, Invalidate
    PROVE  IInv'
<1>1. /\ provider # 0 /\ provider \in Providers
      /\ version' = [version EXCEPT ![provider] = version[provider] + 1]
      /\ version \in [Providers -> 0..MaxVersion] /\ version[provider] + 1 \in 0..MaxVersion
      /\ invalidated' = answers[provider] /\ answers[provider] \in Generations
      /\ UNCHANGED <<provider, registered, answers, now, cat, wrapper, holder, schema, th, altered>>
  BY ProviderBounds DEF Invalidate, IInv, TypeOK, Providers
<1>2. version'[provider] = version[provider] + 1 /\ version[provider] \in Nat  BY <1>1, ProviderBounds
<1>3. cat.listed_version \in Nat /\ cat.listed_version < version'[provider]
  BY <1>1, <1>2, ProviderBounds DEF IInv, ProviderIsFresh, TypeOK, VirtualCatalogProvider
<1>4. TypeOK'  BY <1>1 DEF IInv, TypeOK
<1>5. Bounded'  BY <1>1 DEF IInv, Bounded
<1>6. ProviderIsFresh'
  <2>1. answers[provider] \in Nat  BY <1>1, ProviderBounds DEF Generations
  <2> QED  BY <1>1, <1>2, <1>3, <2>1 DEF IInv, ProviderIsFresh
<1>7. CacheIsFresh' /\ CurrentListIsFresh'
  BY <1>1, <1>2, <1>3 DEF IInv, CacheIsFresh, CurrentListIsFresh, Current
<1>8. ASSUME NEW c \in Threads, th'[c] # None
      PROVE  Placed(c)' /\ SnapshotIsFresh(c)' /\ FindsFresh(c)'
  <2>1. th'[c] = th[c] /\ Placed(c) /\ SnapshotIsFresh(c) /\ FindsFresh(c) /\ th[c] \in Statement
    BY <1>1, <1>8, ThreadHas
  <2>2. Placed(c)'  BY <1>1, <2>1 DEF Placed
  <2>3. FindsFresh(c)'  BY <1>1, <1>2, <1>3, <2>1 DEF FindsFresh, Current
  <2>4. th[c].version \in Nat  BY <2>1, ProviderBounds DEF Statement
  <2>5. SnapshotIsFresh(c)'  BY <1>1, <1>2, <2>1, <2>4 DEF SnapshotIsFresh, Current
  <2> QED  BY <2>2, <2>3, <2>5
<1> QED  BY <1>4, <1>5, <1>6, <1>7, <1>8 DEF IInv

--------------------------------------------------------------------------------
(* RefreshProviderNames and LookupSchema *)

\* A statement begins with what its table has reached.
LEMMA BeginKeeps ==
    ASSUME IInv, NEW c \in Threads, NEW op \in {"lookup", "alter"}, NEW t \in Tables, Begin(c, op, t)
    PROVE  IInv'
<1> DEFINE since == IF op = "lookup" THEN Reached(t) ELSE 0
           r == [op |-> op, table |-> t, inside |-> FALSE, of |-> 0, version |-> 0,
                 answer |-> None, step |-> "check", since |-> since]
<1>1. /\ since \in Generations /\ since <= now /\ (provider # 0 => since <= answers[provider])
      /\ since = 0 \/ since = invalidated \/ since = altered[t]
  <2>1. now \in Generations /\ invalidated \in Generations /\ altered[t] \in Generations  BY DEF IInv, TypeOK
  <2>2. invalidated <= now /\ altered[t] <= now  BY DEF IInv, Bounded
  <2>3. provider # 0 => /\ invalidated <= answers[provider] /\ altered[t] <= answers[provider]
                        /\ answers[provider] \in Generations
    <3>1. provider # 0 => provider \in Providers  BY ProviderBounds DEF IInv, TypeOK, Providers
    <3> QED  BY <3>1 DEF IInv, ProviderIsFresh, TypeOK
  <2> QED  BY <2>1, <2>2, <2>3, ProviderBounds DEF Reached, Generations
<1>2. r \in Statement
  <2>1. 0 \in 0..MaxProviders /\ 0 \in 0..MaxVersion  BY ProviderBounds
  <2> HIDE DEF since
  <2> QED  BY <1>1, <2>1 DEF Statement
<1>3. th' = [th EXCEPT ![c] = r]  BY DEF Begin
<1> HIDE DEF r
<1>4. th'[c] = r /\ \A d \in Threads \ {c} : th'[d] = th[d]  BY <1>3 DEF IInv, TypeOK
<1>5. TypeOK'  BY <1>2, <1>3 DEF Begin, IInv, TypeOK, hostVars, ghostVars
<1>6. r.step = "check" /\ ~r.inside /\ r.table = t /\ r.since = since  BY DEF r
<1> HIDE DEF since
<1>7. Placed(c)'  BY <1>4, <1>6 DEF Placed
<1>8. SnapshotIsFresh(c)'  BY <1>4, <1>6 DEF SnapshotIsFresh
<1>9. FindsFresh(c)'
  <2>1. SUFFICES ASSUME Current, wrapper.cache[t] # None, cat.listed_version = version[provider]
                 PROVE  since <= wrapper.cache[t]
    BY <1>4, <1>6 DEF FindsFresh, Current, Begin, hostVars
  <2>2. invalidated <= wrapper.cache[t] /\ altered[t] <= wrapper.cache[t]  BY <2>1 DEF IInv, CacheIsFresh
  <2>3. wrapper.cache[t] \in Generations  BY <2>1 DEF IInv, TypeOK, SchemaEntry
  <2> QED  BY <1>1, <2>2, <2>3, ProviderBounds DEF Generations
<1> QED  BY <1>1, <1>4, <1>5, <1>6, <1>7, <1>8, <1>9, QuietKeeps DEF Begin

\* With a current list a thread goes on; without one it takes a snapshot of the provider.
LEMMA CheckKeeps ==
    ASSUME IInv, NEW c \in Threads, Check(c)
    PROVE  IInv'
<1> DEFINE fresh == provider = 0 \/ (cat.names_filled /\ version[provider] = cat.listed_version)
<1>1. th[c] # None /\ th[c].step = "check"  BY DEF Check, At
<1>2. /\ th[c] \in Statement /\ Placed(c) /\ SnapshotIsFresh(c) /\ FindsFresh(c)
      /\ th[c].since <= now /\ (provider # 0 => th[c].since <= answers[provider])
  BY <1>1, ThreadHas
<1>3. IInv /\ TypeOK /\ UNCHANGED <<hostVars, cat, wrapper, holder, schema, ghostVars>>  BY DEF Check, IInv
<1>4. CASE fresh
  <2>1. AfterRefresh(c) \in Steps  BY DEF AfterRefresh, Steps
  <2>2. Moves(c, AfterRefresh(c), 0, 0, None, th[c].inside)  BY <1>1, <1>3, <1>4, <2>1, GotoMoves DEF Check
  <2>3. TypeOK'  BY <1>3, <2>2 DEF Moves, TypeOK, hostVars, ghostVars
  <2>4. Placed(c)'  BY <1>1, <1>2, <1>3, <2>2 DEF Moves, Placed, AfterRefresh, Locked
  <2>5. SnapshotIsFresh(c)'  BY <2>2 DEF Moves, SnapshotIsFresh, AfterRefresh
  <2>6. FindsFresh(c)'
    BY <1>2, <1>3, <1>4, <2>2 DEF Moves, FindsFresh, AfterRefresh, Current, hostVars, IInv, CacheIsFresh, Statement
  <2> QED  BY <1>2, <1>3, <2>2, <2>3, <2>4, <2>5, <2>6, QuietKeeps DEF Moves
<1>5. CASE ~fresh
  <2>1. provider \in 1..registered /\ provider \in 0..MaxProviders /\ version[provider] \in 0..MaxVersion
    BY <1>3, <1>5, ProviderBounds DEF TypeOK, Providers
  <2>2. Moves(c, "list", provider, version[provider], th[c].answer, th[c].inside)
    <3>1. th' = [th EXCEPT ![c].of = provider, ![c].version = version[provider], ![c].step = "list"]
      BY <1>5 DEF Check
    <3>2. [th[c] EXCEPT !.of = provider, !.version = version[provider], !.step = "list"] \in Statement
      BY <1>2, <2>1 DEF Statement
    <3>3. th' = [th EXCEPT ![c] = [th[c] EXCEPT !.of = provider, !.version = version[provider], !.step = "list"]]
      BY <1>2, <3>1 DEF Statement
    <3> QED  BY <1>2, <1>3, <3>2, <3>3 DEF Moves, TypeOK, Statement
  <2>3. TypeOK'  BY <1>3, <2>2 DEF Moves, TypeOK, hostVars, ghostVars
  <2>4. Placed(c)'  BY <1>1, <1>2, <1>3, <2>1, <2>2 DEF Moves, Placed, Locked, hostVars
  <2>5. SnapshotIsFresh(c)'  BY <1>3, <2>1, <2>2 DEF Moves, SnapshotIsFresh, hostVars
  <2>6. FindsFresh(c)'
    BY <1>2, <1>3, <1>5, <2>2 DEF Moves, FindsFresh, Current, hostVars, IInv, CacheIsFresh, Statement
  <2> QED  BY <1>2, <1>3, <2>2, <2>3, <2>4, <2>5, <2>6, QuietKeeps DEF Moves
<1> QED  BY <1>4, <1>5

\* What the provider of the snapshot answers is fresh if it is still the one.
LEMMA ListKeeps ==
    ASSUME IInv, NEW c \in Threads, List(c)
    PROVE  IInv'
<1>1. th[c] # None /\ th[c].step = "list"  BY DEF List, At
<1>2. /\ th[c] \in Statement /\ Placed(c) /\ SnapshotIsFresh(c) /\ FindsFresh(c)
      /\ th[c].since <= now /\ (provider # 0 => th[c].since <= answers[provider])
  BY <1>1, ThreadHas
<1>3. IInv /\ TypeOK /\ UNCHANGED <<hostVars, cat, wrapper, holder, schema, ghostVars>>  BY DEF List, IInv
<1>4. th[c].of \in 1..registered /\ answers[th[c].of] \in Generations
  BY <1>1, <1>2, <1>3, ProviderBounds DEF Placed, TypeOK, Providers
<1>5. Moves(c, "install", th[c].of, th[c].version, answers[th[c].of], th[c].inside)
  <2>1. [th[c] EXCEPT !.answer = answers[th[c].of], !.step = "install"] \in Statement
    BY <1>2, <1>4 DEF Statement
  <2>2. th' = [th EXCEPT ![c] = [th[c] EXCEPT !.answer = answers[th[c].of], !.step = "install"]]
    BY <1>2 DEF List, Statement
  <2> QED  BY <1>2, <1>3, <2>1, <2>2 DEF Moves, TypeOK, Statement
<1>6. TypeOK'  BY <1>3, <1>5 DEF Moves, TypeOK, hostVars, ghostVars
<1>7. Placed(c)'  BY <1>1, <1>2, <1>3, <1>4, <1>5, ProviderNone DEF Moves, Placed, Locked, hostVars
<1>8. SnapshotIsFresh(c)'
  BY <1>1, <1>2, <1>3, <1>4, <1>5 DEF Moves, SnapshotIsFresh, hostVars, ghostVars, IInv, ProviderIsFresh
<1>9. FindsFresh(c)'  BY <1>1, <1>2, <1>3, <1>5 DEF Moves, FindsFresh, Current, hostVars
<1> QED  BY <1>2, <1>3, <1>5, <1>6, <1>7, <1>8, <1>9, QuietKeeps DEF Moves

\* EnsureProviderSchemas touches no list and no entry.
LEMMA EnsureKeeps ==
    ASSUME IInv, NEW c \in Threads, Ensure(c)
    PROVE  IInv'
<1> DEFINE next == IF ~Ensured /\ Listed # {} THEN "create" ELSE "resolve"
<1>1. th[c] # None /\ th[c].step = "ensure"  BY DEF Ensure, At
<1>2. /\ th[c] \in Statement /\ Placed(c) /\ SnapshotIsFresh(c) /\ FindsFresh(c)
      /\ th[c].since <= now /\ (provider # 0 => th[c].since <= answers[provider])
  BY <1>1, ThreadHas
<1>3. IInv /\ TypeOK /\ UNCHANGED <<hostVars, wrapper, holder, schema, ghostVars>>  BY DEF Ensure, IInv
<1>4. Moves(c, next, 0, 0, None, th[c].inside)
  <2>1. next \in Steps  BY DEF Steps
  <2>2. Goto(c, next)  BY DEF Ensure
  <2> QED  BY <1>1, <1>3, <2>1, <2>2, GotoMoves
<1>5. /\ cat' \in VirtualCatalogProvider /\ cat'.epoch = cat.epoch /\ cat'.listing = cat.listing
      /\ cat'.listed_version = cat.listed_version /\ cat'.names_filled = cat.names_filled
      /\ cat'.ensured_epoch <= cat'.epoch
  <2>1. cat \in VirtualCatalogProvider /\ cat.ensured_epoch <= cat.epoch  BY <1>3 DEF TypeOK
  <2>2. cat' = cat \/ cat' = Ensuring  BY DEF Ensure
  <2>3. /\ Ensuring \in VirtualCatalogProvider /\ Ensuring.epoch = cat.epoch
        /\ Ensuring.listing = cat.listing /\ Ensuring.listed_version = cat.listed_version
        /\ Ensuring.names_filled = cat.names_filled /\ Ensuring.ensured_epoch = cat.epoch
    BY <2>1 DEF Ensuring, VirtualCatalogProvider
  <2>4. cat.epoch \in Nat  BY <2>1 DEF VirtualCatalogProvider
  <2> QED  BY <2>1, <2>2, <2>3, <2>4
<1>6. TypeOK'  BY <1>3, <1>4, <1>5 DEF Moves, TypeOK, hostVars, ghostVars
<1>7. next \in {"create", "resolve"}  OBVIOUS
<1> HIDE DEF next
<1>8. Placed(c)'  BY <1>1, <1>2, <1>4, <1>7 DEF Moves, Placed, Locked
<1>9. SnapshotIsFresh(c)'  BY <1>4, <1>7 DEF Moves, SnapshotIsFresh
<1>10. FindsFresh(c)'  BY <1>2, <1>3, <1>4, <1>5, <1>7 DEF Moves, FindsFresh, Current, hostVars
<1> QED  BY <1>2, <1>3, <1>4, <1>5, <1>6, <1>8, <1>9, <1>10, QuietKeeps DEF Moves

\* Nor does the creation of the schema.
LEMMA CreateKeeps ==
    ASSUME IInv, NEW c \in Threads, Create(c)
    PROVE  IInv'
<1>1. th[c] # None /\ th[c].step = "create"  BY DEF Create, At
<1>2. /\ th[c] \in Statement /\ Placed(c) /\ SnapshotIsFresh(c) /\ FindsFresh(c)
      /\ th[c].since <= now /\ (provider # 0 => th[c].since <= answers[provider])
  BY <1>1, ThreadHas
<1>3. IInv /\ TypeOK /\ UNCHANGED <<hostVars, cat, wrapper, holder, ghostVars>>  BY DEF Create, IInv
<1>4. Moves(c, "resolve", 0, 0, None, th[c].inside)
  BY <1>1, <1>3, GotoMoves DEF Create, Steps
<1>5. TypeOK'  BY <1>3, <1>4 DEF Moves, Create, Created, TypeOK, hostVars, ghostVars
<1>6. Placed(c)'  BY <1>1, <1>2, <1>4 DEF Moves, Placed, Locked
<1>7. SnapshotIsFresh(c)'  BY <1>4 DEF Moves, SnapshotIsFresh
<1>8. FindsFresh(c)'  BY <1>2, <1>3, <1>4 DEF Moves, FindsFresh, Current, hostVars
<1> QED  BY <1>2, <1>3, <1>4, <1>5, <1>6, <1>7, <1>8, QuietKeeps DEF Moves

\* Nor does a query of the list function that comes back.
LEMMA ReenterKeeps ==
    ASSUME IInv, NEW c \in Threads, Reenter(c)
    PROVE  IInv'
<1>1. IInv /\ TypeOK /\ UNCHANGED <<hostVars, wrapper, holder, th, ghostVars>>  BY DEF Reenter, IInv
<1>2. /\ cat' \in VirtualCatalogProvider /\ cat'.epoch = cat.epoch /\ cat'.listing = cat.listing
      /\ cat'.listed_version = cat.listed_version /\ cat'.names_filled = cat.names_filled
      /\ cat'.ensured_epoch <= cat'.epoch
  <2>1. cat \in VirtualCatalogProvider /\ cat.ensured_epoch <= cat.epoch  BY <1>1 DEF TypeOK
  <2>2. cat' = cat \/ cat' = Ensuring  BY DEF Reenter
  <2>3. /\ Ensuring \in VirtualCatalogProvider /\ Ensuring.epoch = cat.epoch
        /\ Ensuring.listing = cat.listing /\ Ensuring.listed_version = cat.listed_version
        /\ Ensuring.names_filled = cat.names_filled /\ Ensuring.ensured_epoch = cat.epoch
    BY <2>1 DEF Ensuring, VirtualCatalogProvider
  <2>4. cat.epoch \in Nat  BY <2>1 DEF VirtualCatalogProvider
  <2> QED  BY <2>1, <2>2, <2>3, <2>4
<1>3. TypeOK'  BY <1>1, <1>2 DEF Reenter, Created, TypeOK, hostVars, ghostVars
<1>4. /\ th[c] # None /\ Placed(c) /\ SnapshotIsFresh(c) /\ FindsFresh(c)
      /\ th[c].since <= now /\ (provider # 0 => th[c].since <= answers[provider])
  BY ThreadHas DEF Reenter, At
<1>5. Placed(c)'  BY <1>1, <1>4 DEF Placed, hostVars
<1>6. SnapshotIsFresh(c)'  BY <1>1, <1>2, <1>4 DEF SnapshotIsFresh, Current, hostVars, ghostVars
<1>7. FindsFresh(c)'  BY <1>1, <1>2, <1>4 DEF FindsFresh, Current, hostVars
<1> QED  BY <1>1, <1>2, <1>3, <1>4, <1>5, <1>6, <1>7, QuietKeeps

\* Without the schema the statement ends, with it the thread waits for the lock.
LEMMA ResolveKeeps ==
    ASSUME IInv, NEW c \in Threads, Resolve(c)
    PROVE  IInv'
<1>1. CASE schema # "present"
  BY <1>1, EndsKeeps DEF Resolve
<1>2. CASE schema = "present"
  <2>1. th[c] # None /\ th[c].step = "resolve"  BY DEF Resolve, At
  <2>2. /\ th[c] \in Statement /\ Placed(c) /\ SnapshotIsFresh(c) /\ FindsFresh(c)
        /\ th[c].since <= now /\ (provider # 0 => th[c].since <= answers[provider])
    BY <2>1, ThreadHas
  <2>3. IInv /\ TypeOK /\ UNCHANGED <<hostVars, cat, wrapper, holder, schema, ghostVars>>
    BY <1>2 DEF Resolve, IInv
  <2>4. Moves(c, "lock", 0, 0, None, th[c].inside)
    BY <1>2, <2>1, <2>3, GotoMoves DEF Resolve, Steps
  <2>5. TypeOK'  BY <2>3, <2>4 DEF Moves, TypeOK, hostVars, ghostVars
  <2>6. Placed(c)'  BY <2>1, <2>2, <2>4 DEF Moves, Placed, Locked
  <2>7. SnapshotIsFresh(c)'  BY <2>4 DEF Moves, SnapshotIsFresh
  <2>8. FindsFresh(c)'  BY <2>2, <2>3, <2>4 DEF Moves, FindsFresh, Current, hostVars
  <2> QED  BY <2>2, <2>3, <2>4, <2>5, <2>6, <2>7, <2>8, QuietKeeps DEF Moves
<1> QED  BY <1>1, <1>2

\* The thread that takes the lock is the only one inside.
LEMMA LockKeeps ==
    ASSUME IInv, NEW c \in Threads, Lock(c)
    PROVE  IInv'
<1>1. th[c] # None /\ th[c].step = "lock"  BY DEF Lock, At
<1>2. /\ th[c] \in Statement /\ Placed(c) /\ SnapshotIsFresh(c) /\ FindsFresh(c)
      /\ th[c].since <= now /\ (provider # 0 => th[c].since <= answers[provider])
  BY <1>1, ThreadHas
<1>3. IInv /\ TypeOK /\ holder = None /\ holder' = c /\ UNCHANGED <<hostVars, cat, wrapper, schema, ghostVars>>
  BY DEF Lock, IInv
<1>4. Moves(c, "check", th[c].of, th[c].version, th[c].answer, TRUE)
  <2>1. [th[c] EXCEPT !.inside = TRUE, !.step = "check"] \in Statement  BY <1>2 DEF Statement
  <2>2. th' = [th EXCEPT ![c] = [th[c] EXCEPT !.inside = TRUE, !.step = "check"]]
    BY <1>2 DEF Lock, Statement
  <2> QED  BY <1>2, <1>3, <2>1, <2>2 DEF Moves, TypeOK, Statement
<1>5. TypeOK'  BY <1>3, <1>4 DEF Moves, TypeOK, hostVars, ghostVars
<1>6. Placed(c)'  BY <1>3, <1>4 DEF Moves, Placed
<1>7. SnapshotIsFresh(c)'  BY <1>4 DEF Moves, SnapshotIsFresh
<1>8. FindsFresh(c)'  BY <1>2, <1>3, <1>4 DEF Moves, FindsFresh, Current, hostVars
<1>9. \A d \in Threads \ {c} : holder # d  BY <1>3, ProviderNone
<1> QED  BY <1>2, <1>3, <1>4, <1>5, <1>6, <1>7, <1>8, <1>9, QuietKeeps DEF Moves

\* Steps that only end the statement.
LEMMA ReturnKeeps ==
    ASSUME IInv, NEW c \in Threads, Return(c) \/ Fail(c)
    PROVE  IInv'
BY EndsKeeps DEF Return, Fail

\* A list of another version than the last retires the cache; a list of the same leaves it.
LEMMA InstallKeeps ==
    ASSUME IInv, NEW c \in Threads, Install(c)
    PROVE  IInv'
<1>1. th[c] # None /\ th[c].step = "install"  BY DEF Install, At
<1>2. /\ th[c] \in Statement /\ Placed(c) /\ SnapshotIsFresh(c) /\ FindsFresh(c)
      /\ th[c].since <= now /\ (provider # 0 => th[c].since <= answers[provider])
  BY <1>1, ThreadHas
<1>3. IInv /\ TypeOK /\ UNCHANGED <<hostVars, wrapper, holder, schema, ghostVars>>  BY DEF Install, IInv
<1>4. AfterRefresh(c) \in Steps  BY DEF AfterRefresh, Steps
<1>5. Moves(c, AfterRefresh(c), 0, 0, None, th[c].inside)  BY <1>1, <1>3, <1>4, GotoMoves DEF Install
<1>6. Placed(c)'  BY <1>1, <1>2, <1>3, <1>5 DEF Moves, Placed, AfterRefresh, Locked
<1>7. SnapshotIsFresh(c)'  BY <1>5 DEF Moves, SnapshotIsFresh, AfterRefresh
<1>8. CASE provider # th[c].of
  <2>1. cat' = cat  BY <1>8 DEF Install
  <2>2. TypeOK'  BY <1>3, <1>5, <2>1 DEF Moves, TypeOK, hostVars, ghostVars
  <2>3. FindsFresh(c)'
    BY <1>1, <1>2, <1>3, <1>5, <1>8, <2>1 DEF Moves, FindsFresh, AfterRefresh, Current, hostVars
  <2> QED  BY <1>2, <1>3, <1>5, <1>6, <1>7, <2>1, <2>2, <2>3, QuietKeeps DEF Moves
<1>9. CASE provider = th[c].of
  <2>1. /\ cat \in VirtualCatalogProvider /\ wrapper \in SchemaEntry /\ wrapper.cached_epoch <= cat.epoch
        /\ cat.ensured_epoch <= cat.epoch
    BY <1>3 DEF TypeOK
  <2>2. cat' = Relisted(c, th[c].version)  BY <1>9 DEF Install
  <2>3. /\ cat' \in VirtualCatalogProvider /\ cat'.names_filled /\ cat'.listing = th[c].answer
        /\ cat'.listed_version = th[c].version /\ cat'.ensured_epoch = cat.ensured_epoch
        /\ cat'.epoch = IF cat.names_filled /\ th[c].version # cat.listed_version
                          THEN cat.epoch + 1 ELSE cat.epoch
    <3> DEFINE moved == IF cat.names_filled /\ th[c].version # cat.listed_version
                          THEN cat.epoch + 1 ELSE cat.epoch
    <3>1. moved \in Nat  BY <2>1 DEF VirtualCatalogProvider
    <3>2. th[c].answer \in Generations \cup {None} /\ th[c].version \in 0..MaxVersion
      BY <1>2 DEF Statement
    <3>3. cat' = [cat EXCEPT !.listing = th[c].answer, !.listed_version = th[c].version,
                             !.names_filled = TRUE, !.epoch = moved]
      BY <2>1, <2>2 DEF Relisted, VirtualCatalogProvider
    <3> HIDE DEF moved
    <3>4. /\ cat' \in VirtualCatalogProvider /\ cat'.names_filled /\ cat'.listing = th[c].answer
          /\ cat'.listed_version = th[c].version /\ cat'.ensured_epoch = cat.ensured_epoch
          /\ cat'.epoch = moved
      BY <2>1, <3>1, <3>2, <3>3 DEF VirtualCatalogProvider
    <3> QED  BY <3>4 DEF moved
  <2>4. th[c].answer \in Generations  BY <1>1, <1>2 DEF Placed, Statement
  <2>5. provider # 0 /\ provider \in Providers  BY <1>1, <1>2, <1>3, <1>9, ProviderBounds DEF Placed, TypeOK, Providers
  <2>6. TypeOK'
    <3>1. cat'.ensured_epoch <= cat'.epoch /\ wrapper.cached_epoch <= cat'.epoch
      BY <2>1, <2>3 DEF VirtualCatalogProvider, SchemaEntry
    <3>2. cat'.names_filled <=> cat'.listing # None  BY <2>3, <2>4, ProviderNone
    <3> QED  BY <1>3, <1>5, <2>3, <3>1, <3>2 DEF Moves, TypeOK, hostVars, ghostVars
  \* The cache the next reader uses, if there is any, is the one before.
  <2>7. ASSUME Current', NEW t \in Tables, wrapper.cache[t] # None
        PROVE  Current /\ cat.names_filled /\ th[c].version = cat.listed_version
    <3>1. Current
      BY <2>1, <2>3, <2>7, <1>3 DEF Current, VirtualCatalogProvider, SchemaEntry
    <3>2. cat.names_filled  BY <1>3, <2>7, <3>1 DEF IInv, CacheIsFresh
    <3> QED  BY <1>3, <2>1, <2>3, <2>7, <3>1, <3>2 DEF Current, VirtualCatalogProvider, SchemaEntry
  <2>8. Bounded'  BY <1>2, <1>3, <1>5 DEF Moves, IInv, Bounded, hostVars, ghostVars
  <2>9. ProviderIsFresh'
    BY <1>1, <1>2, <1>3, <1>5, <1>9, <2>3 DEF Moves, IInv, ProviderIsFresh, SnapshotIsFresh, hostVars, ghostVars
  <2>10. CacheIsFresh'
    BY <1>3, <2>3, <2>5, <2>7 DEF IInv, CacheIsFresh, hostVars, ghostVars
  <2>11. CurrentListIsFresh'
    BY <1>1, <1>2, <1>3, <1>9, <2>3, <2>4, <2>5, ProviderBounds
    DEF CurrentListIsFresh, SnapshotIsFresh, hostVars, ghostVars, TypeOK, Generations
  <2>12. FindsFresh(c)'
    BY <1>1, <1>2, <1>3, <1>5, <2>3, <2>7 DEF Moves, FindsFresh, AfterRefresh, Statement, hostVars
  <2>13. ASSUME NEW d \in Threads \ {c}, th'[d] # None
         PROVE  Placed(d)' /\ SnapshotIsFresh(d)' /\ FindsFresh(d)'
    <3>1. th'[d] = th[d]  BY <1>5, <2>13 DEF Moves
    <3>2. th[d] \in Statement /\ Placed(d) /\ SnapshotIsFresh(d) /\ FindsFresh(d)  BY <2>13, <3>1, ThreadHas
    <3>3. Placed(d)'  BY <1>3, <3>1, <3>2 DEF Placed, hostVars
    <3>4. Current' => Current
      BY <1>3, <2>1, <2>3 DEF Current, VirtualCatalogProvider, SchemaEntry
    <3>5. SnapshotIsFresh(d)'
      BY <1>3, <2>3, <3>1, <3>2, <3>4 DEF SnapshotIsFresh, hostVars, ghostVars
    <3>6. FindsFresh(d)'
      BY <1>3, <2>3, <2>7, <3>1, <3>2 DEF FindsFresh, Statement, hostVars
    <3> QED  BY <3>3, <3>5, <3>6
  <2> QED  BY <1>5, <1>6, <1>7, <2>6, <2>8, <2>9, <2>10, <2>11, <2>12, <2>13 DEF IInv
<1> QED  BY <1>8, <1>9

\* The steps of the thread that holds the wrapper's lock, and of an ALTER: the wrapper, the answers
\* and what was altered change, and no entry that stays in use gets older than what a thread needs.
LEMMA HolderKeeps ==
    ASSUME IInv, NEW c \in Threads, TypeOK', UNCHANGED <<provider, registered, version, cat, invalidated>>,
           now <= now', \A p \in Providers : answers[p] <= answers'[p] /\ answers'[p] <= now',
           \A t \in Tables : /\ altered'[t] <= now'
                             /\ provider # 0 => altered'[t] <= answers'[provider],
           CacheIsFresh',
           \A d \in Threads \ {c} : /\ th'[d] = th[d] /\ (holder = d => holder' = d)
                                    /\ th[d] # None => FindsFresh(d)',
           \A d \in Threads \ {c} : /\ th[d] # None /\ th[d].step = "describe" => (Current' => Current),
           th'[c] # None => /\ th'[c].since = th[c].since /\ th[c] # None
                            /\ Placed(c)' /\ SnapshotIsFresh(c)' /\ FindsFresh(c)'
    PROVE  IInv'
<1>0. /\ now \in Nat /\ now' \in Nat /\ invalidated \in Nat
      /\ \A p \in Providers : answers[p] \in Nat /\ answers'[p] \in Nat
      /\ \A t \in Tables : altered'[t] \in Nat
      /\ \A d \in Threads : th[d] # None => th[d].since \in Nat
  BY ProviderBounds DEF IInv, TypeOK, Generations, Statement
<1>1. provider # 0 => provider \in Providers  BY ProviderBounds DEF IInv, TypeOK, Providers
<1>2. Bounded'  BY <1>0 DEF IInv, Bounded
<1>3. ProviderIsFresh'
  <2>1. provider # 0 => answers[provider] <= answers'[provider]  BY <1>1
  <2> QED  BY <1>0, <1>1, <2>1 DEF IInv, ProviderIsFresh
<1>4. CurrentListIsFresh'  BY DEF IInv, CurrentListIsFresh
<1>5. ASSUME NEW d \in Threads \ {c}, th'[d] # None
      PROVE  Placed(d)' /\ SnapshotIsFresh(d)' /\ FindsFresh(d)'
  <2>1. th'[d] = th[d]  BY <1>5
  <2>2. th[d] \in Statement /\ Placed(d) /\ SnapshotIsFresh(d)  BY <1>5, <2>1, ThreadHas
  <2>3. Placed(d)'  BY <1>5, <2>1, <2>2 DEF Placed
  <2>4. SnapshotIsFresh(d)'
    <3>1. th[d].step \in {"evict", "describe"} => th[d].of \in Providers
      BY <2>2, ProviderBounds DEF Placed, IInv, TypeOK, Providers
    <3>2. th[d].step = "evict" => th[d].answer \in Nat
      BY <2>2, ProviderBounds DEF Placed, Statement, Generations
    <3> QED  BY <1>0, <1>5, <2>1, <2>2, <3>1, <3>2 DEF SnapshotIsFresh
  <2> QED  BY <1>5, <2>1, <2>3, <2>4
<1> QED  BY <1>2, <1>3, <1>4, <1>5 DEF IInv

\* A reader brings the cache to the catalog's epoch and finds an entry, or asks for one.
LEMMA ReadKeeps ==
    ASSUME IInv, NEW c \in Threads, Read(c)
    PROVE  IInv'
<1> DEFINE t == th[c].table
<1>1. th[c] # None /\ th[c].step = "read"  BY DEF Read, At
<1>2. /\ th[c] \in Statement /\ Placed(c) /\ SnapshotIsFresh(c) /\ FindsFresh(c)
      /\ th[c].since <= now /\ (provider # 0 => th[c].since <= answers[provider])
  BY <1>1, ThreadHas
<1>3. IInv /\ TypeOK /\ UNCHANGED <<hostVars, cat, schema, ghostVars>>  BY DEF Read, IInv
<1>4. holder = c /\ th[c].inside  BY <1>1, <1>2 DEF Placed, Locked
<1>5. /\ cat \in VirtualCatalogProvider /\ wrapper \in SchemaEntry  BY <1>3 DEF TypeOK
<1>6. /\ CacheNow \in [Tables -> Generations \cup {None}]
      /\ \A u \in Tables : CacheNow[u] # None => Current /\ wrapper.cache[u] = CacheNow[u]
  BY <1>5 DEF CacheNow, EmptyCache, Current, SchemaEntry
<1>7. /\ wrapper' \in SchemaEntry /\ wrapper'.cached_epoch = cat.epoch /\ wrapper'.cache = CacheNow
  BY <1>5, <1>6 DEF Read, SchemaEntry, VirtualCatalogProvider
<1>8. CacheIsFresh'
  BY <1>3, <1>6, <1>7 DEF IInv, CacheIsFresh, hostVars, ghostVars
<1>9. \A d \in Threads \ {c} : th[d] # None /\ th'[d] = th[d] => FindsFresh(d)'
  <2> SUFFICES ASSUME NEW d \in Threads \ {c}, th[d] # None, th'[d] = th[d]
               PROVE  FindsFresh(d)'
    OBVIOUS
  <2>1. th[d] \in Statement /\ FindsFresh(d)  BY ThreadHas
  <2> QED  BY <1>3, <1>6, <1>7, <2>1 DEF FindsFresh, Statement, hostVars
<1>10. \A d \in Threads \ {c} : holder # d /\ (th[d] # None => th[d].step # "describe")
  BY <1>3, <1>4, ThreadHas DEF Placed, Locked
<1>11. ASSUME th' \in [Threads -> Statement \cup {None}], holder' \in {c, None}
       PROVE  TypeOK'
  <2>1. cat.epoch \in Nat  BY <1>5 DEF VirtualCatalogProvider
  <2> QED  BY <1>3, <1>7, <1>11, <2>1 DEF TypeOK, hostVars, ghostVars
<1>12. ASSUME \A d \in Threads \ {c} : th'[d] = th[d], TypeOK',
              th'[c] # None => /\ th'[c].since = th[c].since /\ th[c] # None
                               /\ Placed(c)' /\ SnapshotIsFresh(c)' /\ FindsFresh(c)'
       PROVE  IInv'
  <2>1. /\ now <= now' /\ \A p \in Providers : answers[p] <= answers'[p] /\ answers'[p] <= now'
    BY <1>3, ProviderBounds DEF IInv, TypeOK, Bounded, hostVars, Generations
  <2>2. \A u \in Tables : altered'[u] <= now' /\ (provider # 0 => altered'[u] <= answers'[provider])
    BY <1>3 DEF IInv, Bounded, ProviderIsFresh, hostVars, ghostVars
  <2> QED  BY <1>3, <1>8, <1>9, <1>10, <1>12, <2>1, <2>2, HolderKeeps DEF hostVars, ghostVars
<1>13. CASE (provider = 0 \/ t \notin Listed) /\ Leave(c)
  <2>1. Ends(c)  BY <1>3, <1>13, LeaveEnds
  <2>2. TypeOK'  BY <1>4, <1>11, <1>13, <2>1 DEF Ends, Leave
  <2> QED  BY <1>12, <2>1, <2>2 DEF Ends
<1>14. CASE /\ provider # 0 /\ t \in Listed
            /\ th' = [th EXCEPT ![c].of = provider, ![c].step = "alter"] /\ holder' = None
  <2>1. provider \in 1..registered /\ provider \in 0..MaxProviders
    BY <1>3, <1>14, ProviderBounds DEF TypeOK
  <2>2. Moves(c, "alter", provider, th[c].version, th[c].answer, th[c].inside)
    <3>1. [th[c] EXCEPT !.of = provider, !.step = "alter"] \in Statement  BY <1>2, <2>1 DEF Statement
    <3>2. th' = [th EXCEPT ![c] = [th[c] EXCEPT !.of = provider, !.step = "alter"]]
      BY <1>2, <1>14 DEF Statement
    <3> QED  BY <1>2, <1>3, <3>1, <3>2 DEF Moves, TypeOK, Statement
  <2>3. TypeOK'  BY <1>11, <1>14, <2>2 DEF Moves
  <2>4. Placed(c)'  BY <1>3, <2>1, <2>2 DEF Moves, Placed, Locked, hostVars
  <2>5. SnapshotIsFresh(c)'  BY <2>2 DEF Moves, SnapshotIsFresh
  <2>6. FindsFresh(c)'
    BY <1>2, <1>3, <1>6, <1>7, <2>2 DEF Moves, FindsFresh, Statement, hostVars
  <2> QED  BY <1>1, <1>12, <2>2, <2>3, <2>4, <2>5, <2>6 DEF Moves
<1>15. CASE /\ provider # 0 /\ t \in Listed /\ CacheNow[t] # None /\ Found(c, CacheNow[t])
  <2>1. /\ t \in Tables /\ CacheNow[t] \in Generations /\ Current /\ wrapper.cache[t] = CacheNow[t]
    BY <1>2, <1>6, <1>15 DEF Statement
  <2>2. th[c].since <= CacheNow[t]  BY <1>1, <1>2, <2>1, <1>15 DEF FindsFresh
  <2>3. Moves(c, "done", 0, th[c].version, CacheNow[t], th[c].inside)
    <3>1. [th[c] EXCEPT !.step = "done", !.of = 0, !.answer = CacheNow[t]] \in Statement
      <4>1. 0 \in 0..MaxProviders  BY ProviderBounds
      <4> QED  BY <1>2, <2>1, <4>1 DEF Statement
    <3>2. th' = [th EXCEPT ![c] = [th[c] EXCEPT !.step = "done", !.of = 0, !.answer = CacheNow[t]]]
      BY <1>2, <1>15 DEF Found, Statement
    <3> QED  BY <1>2, <1>3, <3>1, <3>2 DEF Moves, TypeOK, Statement
  <2>4. TypeOK'  BY <1>11, <1>15, <2>3 DEF Moves, Found
  <2>5. Placed(c)'  BY <1>15, <2>3 DEF Moves, Placed, Locked
  <2>6. SnapshotIsFresh(c)'  BY <2>2, <2>3 DEF Moves, SnapshotIsFresh
  <2>7. FindsFresh(c)'
    BY <1>2, <1>3, <1>6, <1>7, <2>3 DEF Moves, FindsFresh, Statement, hostVars
  <2> QED  BY <1>1, <1>12, <2>3, <2>4, <2>5, <2>6, <2>7 DEF Moves
<1>16. CASE /\ provider # 0 /\ t \in Listed /\ CacheNow[t] = None /\ UNCHANGED holder
            /\ th' = [th EXCEPT ![c].of = provider, ![c].step = "describe"]
  <2>1. provider \in 1..registered /\ provider \in 0..MaxProviders
    BY <1>3, <1>16, ProviderBounds DEF TypeOK
  <2>2. Moves(c, "describe", provider, th[c].version, th[c].answer, th[c].inside)
    <3>1. [th[c] EXCEPT !.of = provider, !.step = "describe"] \in Statement  BY <1>2, <2>1 DEF Statement
    <3>2. th' = [th EXCEPT ![c] = [th[c] EXCEPT !.of = provider, !.step = "describe"]]
      BY <1>2, <1>16 DEF Statement
    <3> QED  BY <1>2, <1>3, <3>1, <3>2 DEF Moves, TypeOK, Statement
  <2>3. TypeOK'  BY <1>4, <1>11, <1>16, <2>2 DEF Moves
  <2>4. Placed(c)'  BY <1>3, <1>4, <1>16, <2>1, <2>2 DEF Moves, Placed, Locked, hostVars
  <2>5. cat.names_filled  BY <1>3, <1>16 DEF Listed, TypeOK
  <2>6. SnapshotIsFresh(c)'
    BY <1>2, <1>3, <1>16, <2>2, <2>5 DEF Moves, SnapshotIsFresh, hostVars
  <2>7. FindsFresh(c)'  BY <1>7, <1>16, <2>2 DEF Moves, FindsFresh
  <2> QED  BY <1>1, <1>12, <2>2, <2>3, <2>4, <2>6, <2>7 DEF Moves
<1> QED  BY <1>13, <1>14, <1>15, <1>16 DEF Read

\* The columns that are cached come from the provider that is registered, or into a cache that is
\* retired by now.
LEMMA DescribeKeeps ==
    ASSUME IInv, NEW c \in Threads, Describe(c)
    PROVE  IInv'
<1> DEFINE t == th[c].table
           e == answers[th[c].of]
<1>1. th[c] # None /\ th[c].step = "describe"  BY DEF Describe, At
<1>2. /\ th[c] \in Statement /\ Placed(c) /\ SnapshotIsFresh(c) /\ FindsFresh(c)
      /\ th[c].since <= now /\ (provider # 0 => th[c].since <= answers[provider])
  BY <1>1, ThreadHas
<1>3. IInv /\ TypeOK /\ UNCHANGED <<hostVars, cat, schema, ghostVars>>  BY DEF Describe, IInv
<1>4. holder = c /\ holder' = None  BY <1>1, <1>2 DEF Placed, Locked, Describe, Found
<1>5. th[c].of \in 1..registered /\ e \in Generations /\ t \in Tables
  BY <1>1, <1>2, <1>3, ProviderBounds DEF Placed, TypeOK, Providers, Statement
<1>6. /\ wrapper' \in SchemaEntry /\ wrapper'.cached_epoch = wrapper.cached_epoch
      /\ wrapper'.cache[t] = e /\ \A u \in Tables \ {t} : wrapper'.cache[u] = wrapper.cache[u]
  <2>1. wrapper \in SchemaEntry  BY <1>3 DEF TypeOK
  <2>2. wrapper' = [wrapper EXCEPT !.cache = [wrapper.cache EXCEPT ![t] = e]]
    BY <2>1 DEF Describe, SchemaEntry
  <2> QED  BY <1>5, <2>1, <2>2 DEF SchemaEntry
<1>7. Current' = Current  BY <1>3, <1>6 DEF Current
<1>8. Current => th[c].of = provider /\ provider # 0 /\ cat.names_filled
  <2>1. th[c].of # 0  BY <1>5
  <2> QED  BY <1>1, <1>2, <2>1 DEF SnapshotIsFresh
<1>9. CacheIsFresh'
  <2>1. ASSUME Current, NEW u \in Tables, wrapper'.cache[u] # None
        PROVE  /\ cat.names_filled /\ provider # 0
               /\ cat.listed_version = version[provider] =>
                     invalidated <= wrapper'.cache[u] /\ altered[u] <= wrapper'.cache[u]
    <3>1. CASE u = t
      BY <1>3, <1>6, <1>8, <2>1, <3>1 DEF IInv, ProviderIsFresh
    <3>2. CASE u # t
      BY <1>3, <1>6, <2>1, <3>2 DEF IInv, CacheIsFresh
    <3> QED  BY <3>1, <3>2
  <2> QED  BY <1>3, <1>7, <2>1 DEF CacheIsFresh, hostVars, ghostVars
<1>10. Moves(c, "done", 0, th[c].version, e, th[c].inside)
  <2>1. [th[c] EXCEPT !.step = "done", !.of = 0, !.answer = e] \in Statement
    <3>1. 0 \in 0..MaxProviders  BY ProviderBounds
    <3> QED  BY <1>2, <1>5, <3>1 DEF Statement
  <2>2. th' = [th EXCEPT ![c] = [th[c] EXCEPT !.step = "done", !.of = 0, !.answer = e]]
    BY <1>2 DEF Describe, Found, Statement
  <2> QED  BY <1>2, <1>3, <2>1, <2>2 DEF Moves, TypeOK, Statement
<1>11. TypeOK'  BY <1>3, <1>4, <1>6, <1>10 DEF Moves, TypeOK, hostVars, ghostVars
<1>12. \A d \in Threads \ {c} : holder # d /\ (th[d] # None => th[d].step # "read" /\
            ~(th[d].inside /\ th[d].step \in {"list", "install"}))
  BY <1>3, <1>4, ThreadHas DEF Placed, Locked
<1>13. ASSUME NEW d \in Threads \ {c}, th[d] # None  PROVE  FindsFresh(d)'
  <2>1. th[d] \in Statement /\ FindsFresh(d) /\ (provider # 0 => th[d].since <= answers[provider])
    BY <1>13, ThreadHas
  <2>2. th'[d] = th[d] /\ th[d].table \in Tables  BY <1>10, <2>1 DEF Moves, Statement
  <2>3. CASE th[d].table = t
    BY <1>3, <1>6, <1>7, <1>8, <1>12, <1>13, <2>1, <2>2, <2>3 DEF FindsFresh, hostVars
  <2>4. CASE th[d].table # t
    BY <1>3, <1>6, <1>7, <2>1, <2>2, <2>4 DEF FindsFresh, hostVars
  <2> QED  BY <2>3, <2>4
<1>14. Placed(c)'  BY <1>5, <1>10, ProviderNone DEF Moves, Placed, Locked
<1>15. SnapshotIsFresh(c)'  BY <1>1, <1>2, <1>10 DEF Moves, SnapshotIsFresh
<1>16. FindsFresh(c)'
  BY <1>1, <1>2, <1>6, <1>10 DEF Moves, FindsFresh, SnapshotIsFresh
<1>17. /\ now <= now' /\ \A p \in Providers : answers[p] <= answers'[p] /\ answers'[p] <= now'
  BY <1>3, ProviderBounds DEF IInv, TypeOK, Bounded, hostVars, Generations
<1>18. \A u \in Tables : altered'[u] <= now' /\ (provider # 0 => altered'[u] <= answers'[provider])
  BY <1>3 DEF IInv, Bounded, ProviderIsFresh, hostVars, ghostVars
<1>19. \A d \in Threads \ {c} : th'[d] = th[d]  BY <1>10 DEF Moves
<1>20. th'[c].since = th[c].since  BY <1>10 DEF Moves
<1> QED
  BY <1>1, <1>3, <1>7, <1>9, <1>11, <1>12, <1>13, <1>14, <1>15, <1>16, <1>17, <1>18, <1>19, <1>20, HolderKeeps
  DEF hostVars, ghostVars

\* The alter function makes a newer generation; the cache keeps its entry until the eviction.
LEMMA AlterKeeps ==
    ASSUME IInv, NEW c \in Threads, Alter(c)
    PROVE  IInv'
<1>1. th[c] # None /\ th[c].step = "alter"  BY DEF Alter, At
<1>2. /\ th[c] \in Statement /\ Placed(c) /\ SnapshotIsFresh(c) /\ FindsFresh(c)
      /\ th[c].since <= now /\ (provider # 0 => th[c].since <= answers[provider])
  BY <1>1, ThreadHas
<1>3. /\ IInv /\ TypeOK
      /\ UNCHANGED <<provider, registered, version, cat, wrapper, holder, schema, ghostVars>>
  BY DEF Alter, IInv
<1>4. th[c].of \in Providers /\ th[c].of \in 1..registered
  BY <1>1, <1>2, <1>3, ProviderBounds DEF Placed, TypeOK, Providers
<1>5. /\ now \in Nat /\ now' = now + 1 /\ now' \in Generations
      /\ answers' = [answers EXCEPT ![th[c].of] = now']
      /\ \A p \in Providers : answers[p] \in Nat /\ answers[p] <= now
  BY <1>3, ProviderBounds DEF Alter, TypeOK, Generations, IInv, Bounded
<1>6. /\ answers' \in [Providers -> Generations] /\ answers'[th[c].of] = now'
      /\ \A p \in Providers : answers[p] <= answers'[p] /\ answers'[p] <= now'
  BY <1>3, <1>4, <1>5 DEF TypeOK
<1>7. Moves(c, "evict", th[c].of, th[c].version, now', th[c].inside)
  <2>1. [th[c] EXCEPT !.answer = now', !.step = "evict"] \in Statement  BY <1>2, <1>5 DEF Statement
  <2>2. th' = [th EXCEPT ![c] = [th[c] EXCEPT !.answer = now', !.step = "evict"]]
    BY <1>2 DEF Alter, Statement
  <2> QED  BY <1>2, <1>3, <2>1, <2>2 DEF Moves, TypeOK, Statement
<1>8. TypeOK'  BY <1>3, <1>5, <1>6, <1>7 DEF Moves, TypeOK, ghostVars
<1>9. Current' = Current  BY <1>3 DEF Current
<1>10. CacheIsFresh'  BY <1>3, <1>9 DEF IInv, CacheIsFresh, ghostVars
<1>11. ASSUME NEW d \in Threads \ {c}, th[d] # None  PROVE  FindsFresh(d)'
  <2>1. FindsFresh(d) /\ th'[d] = th[d]  BY <1>7, <1>11, ThreadHas DEF Moves
  <2> QED  BY <1>3, <1>9, <2>1 DEF FindsFresh
<1>12. Placed(c)'  BY <1>3, <1>4, <1>5, <1>7, ProviderNone DEF Moves, Placed, Locked
<1>13. SnapshotIsFresh(c)'  BY <1>5, <1>6, <1>7 DEF Moves, SnapshotIsFresh
<1>14. FindsFresh(c)'  BY <1>2, <1>3, <1>7, <1>9 DEF Moves, FindsFresh
<1>15. \A u \in Tables : altered'[u] <= now' /\ (provider # 0 => altered'[u] <= answers'[provider])
  <2>1. \A u \in Tables : altered[u] \in Nat  BY <1>3, ProviderBounds DEF TypeOK, Generations
  <2>2. provider # 0 => provider \in Providers  BY <1>3, ProviderBounds DEF TypeOK, Providers
  <2> QED  BY <1>3, <1>5, <1>6, <2>1, <2>2 DEF IInv, Bounded, ProviderIsFresh, ghostVars
<1>16. \A d \in Threads \ {c} : th'[d] = th[d]  BY <1>7 DEF Moves
<1>17. th'[c].since = th[c].since  BY <1>7 DEF Moves
<1>18. now <= now'  BY <1>5
<1> QED
  BY <1>1, <1>3, <1>6, <1>8, <1>9, <1>10, <1>11, <1>12, <1>13, <1>14, <1>15, <1>16, <1>17, <1>18, HolderKeeps
  DEF ghostVars

\* The eviction leaves no entry that could be older than the ALTER.
LEMMA EvictKeeps ==
    ASSUME IInv, NEW c \in Threads, Evict(c)
    PROVE  IInv'
<1> DEFINE t == th[c].table
<1>1. th[c] # None /\ th[c].step = "evict"  BY DEF Evict, At
<1>2. /\ th[c] \in Statement /\ Placed(c) /\ SnapshotIsFresh(c) /\ FindsFresh(c)
      /\ th[c].since <= now /\ (provider # 0 => th[c].since <= answers[provider])
  BY <1>1, ThreadHas
<1>3. IInv /\ TypeOK /\ UNCHANGED <<hostVars, cat, schema, invalidated>>  BY DEF Evict, IInv
<1>4. /\ holder = None /\ holder' \in {None} /\ t \in Tables
      /\ th[c].answer \in Generations /\ th[c].of \in Providers
  BY <1>1, <1>2, <1>3, ProviderBounds DEF Evict, Leave, Placed, Statement, TypeOK, Providers
<1>5. /\ wrapper' \in SchemaEntry /\ wrapper'.cached_epoch = wrapper.cached_epoch
      /\ wrapper'.cache[t] = None /\ \A u \in Tables \ {t} : wrapper'.cache[u] = wrapper.cache[u]
  <2>1. wrapper \in SchemaEntry  BY <1>3 DEF TypeOK
  <2>2. wrapper' = [wrapper EXCEPT !.cache = [wrapper.cache EXCEPT ![t] = None]]
    BY <2>1 DEF Evict, SchemaEntry
  <2> QED  BY <1>4, <2>1, <2>2 DEF SchemaEntry
<1>6. Current' = Current  BY <1>3, <1>5 DEF Current
<1>7. /\ altered' \in [Tables -> Generations]
      /\ \A u \in Tables : altered'[u] = altered[u] \/ (u = t /\ provider = th[c].of /\ altered'[u] = th[c].answer)
  BY <1>3, <1>4 DEF Evict, TypeOK
<1>8. Ends(c)  BY <1>3, LeaveEnds DEF Evict
<1>9. TypeOK'  BY <1>3, <1>4, <1>5, <1>7, <1>8 DEF Ends, TypeOK, hostVars
<1>10. CacheIsFresh'
  BY <1>3, <1>5, <1>6, <1>7 DEF IInv, CacheIsFresh, hostVars
<1>11. ASSUME NEW d \in Threads \ {c}, th[d] # None  PROVE  FindsFresh(d)'
  <2>1. th[d] \in Statement /\ FindsFresh(d) /\ th'[d] = th[d]  BY <1>8, <1>11, ThreadHas DEF Ends
  <2> QED  BY <1>3, <1>5, <1>6, <2>1 DEF FindsFresh, Statement, hostVars
<1>12. \A u \in Tables : altered'[u] <= now' /\ (provider # 0 => altered'[u] <= answers'[provider])
  <2>1. th[c].answer <= answers[th[c].of] /\ answers[th[c].of] <= now
    BY <1>1, <1>2, <1>3, <1>4 DEF SnapshotIsFresh, IInv, Bounded
  <2>2. th[c].answer <= now
    BY <1>3, <1>4, <2>1, ProviderBounds DEF TypeOK, Generations
  <2> QED  BY <1>3, <1>7, <2>1, <2>2 DEF IInv, Bounded, ProviderIsFresh, hostVars
<1>13. /\ now <= now' /\ \A p \in Providers : answers[p] <= answers'[p] /\ answers'[p] <= now'
  BY <1>3, ProviderBounds DEF IInv, TypeOK, Bounded, hostVars, Generations
<1>14. \A d \in Threads \ {c} : th'[d] = th[d] /\ holder # d  BY <1>4, <1>8, ProviderNone DEF Ends
<1>15. th'[c] = None  BY <1>8 DEF Ends
<1> QED
  BY <1>3, <1>6, <1>9, <1>10, <1>11, <1>12, <1>13, <1>14, <1>15, HolderKeeps DEF hostVars

--------------------------------------------------------------------------------
(* The theorems *)

\* A fresh catalog owes nothing to anyone.
LEMMA InitFresh == Init => IInv
<1> SUFFICES ASSUME Init PROVE IInv  OBVIOUS
<1>1. TypeOK
  <2>1. /\ 0 \in Generations /\ 0 \in 0..MaxVersion /\ provider \in 0..registered
        /\ registered \in 0..MaxProviders /\ 0 \in Nat
    BY ProviderBounds DEF Init, Generations
  <2>2. cat \in VirtualCatalogProvider /\ cat.names_filled = FALSE /\ cat.listing = None
        /\ cat.epoch = 0 /\ cat.ensured_epoch = 0
    BY <2>1 DEF Init, VirtualCatalogProvider
  <2>3. wrapper \in SchemaEntry /\ wrapper.cached_epoch = 0
    BY <2>1 DEF Init, SchemaEntry, EmptyCache
  <2> QED  BY <2>1, <2>2, <2>3 DEF Init, TypeOK, Providers
<1>2. /\ \A p \in Providers : answers[p] = 0 /\ version[p] = 0
      /\ provider # 0 => provider \in Providers
      /\ now = 0 /\ invalidated = 0 /\ \A t \in Tables : altered[t] = 0
      /\ \A c \in Threads : th[c] = None
      /\ wrapper.cache = EmptyCache /\ cat.listed_version = 0 /\ cat.names_filled = FALSE
  BY ProviderBounds DEF Init, Providers
<1>3. Bounded  BY <1>2 DEF Bounded
<1>4. ProviderIsFresh  BY <1>2 DEF ProviderIsFresh
<1>5. CacheIsFresh  BY <1>2 DEF CacheIsFresh, EmptyCache
<1>6. CurrentListIsFresh  BY <1>2 DEF CurrentListIsFresh
<1> QED  BY <1>1, <1>2, <1>3, <1>4, <1>5, <1>6 DEF IInv

\* A transaction that creates the schema by name touches nothing else.
LEMMA UserKeeps ==
    ASSUME IInv, User
    PROVE  IInv'
<1>1. UNCHANGED <<hostVars, cat, wrapper, holder, th, ghostVars>>
  BY DEF User, UserCreatesSchema, UserEnds
<1>2. TypeOK'
  BY <1>1 DEF User, UserCreatesSchema, UserEnds, IInv, TypeOK, hostVars, ghostVars
<1>3. /\ Bounded' /\ ProviderIsFresh' /\ CacheIsFresh' /\ CurrentListIsFresh'
  BY <1>1 DEF IInv, Bounded, ProviderIsFresh, CacheIsFresh, CurrentListIsFresh, Current, hostVars, ghostVars
<1>4. ASSUME NEW c \in Threads, th'[c] # None
      PROVE  Placed(c)' /\ SnapshotIsFresh(c)' /\ FindsFresh(c)'
  <2>1. Placed(c) /\ SnapshotIsFresh(c) /\ FindsFresh(c)  BY <1>1, <1>4 DEF IInv
  <2> QED  BY <1>1, <2>1 DEF Placed, SnapshotIsFresh, FindsFresh, Current, hostVars, ghostVars
<1> QED  BY <1>2, <1>3, <1>4 DEF IInv

\* Every step keeps the invariant.
LEMMA StepFresh == IInv /\ [Next]_vars => IInv'
<1> SUFFICES ASSUME IInv, [Next]_vars PROVE IInv'  OBVIOUS
<1>1. CASE Host
  BY <1>1, RegisterKeeps, UnregisterKeeps, HostChangesKeeps, InvalidateKeeps DEF Host
<1>2. CASE User  BY <1>2, UserKeeps
<1>3. ASSUME NEW c \in Threads, Step(c)  PROVE  IInv'
  BY <1>3, BeginKeeps, CheckKeeps, ListKeeps, InstallKeeps, EnsureKeeps, CreateKeeps, ReenterKeeps,
     ResolveKeeps, LockKeeps, ReadKeeps, DescribeKeeps, AlterKeeps, EvictKeeps, ReturnKeeps
  DEF Step
<1>4. CASE UNCHANGED vars
  <2>1. UNCHANGED <<hostVars, cat, wrapper, holder, schema, th, ghostVars>>  BY <1>4 DEF vars
  <2> QED
    BY <2>1 DEF IInv, TypeOK, Bounded, ProviderIsFresh, CacheIsFresh, CurrentListIsFresh, Placed,
                SnapshotIsFresh, FindsFresh, Current, hostVars, ghostVars
<1> QED  BY <1>1, <1>2, <1>3, <1>4 DEF Next

\* However threads, host and owner interleave: the invariant holds throughout.
THEOREM CatalogIsFresh == Spec => []IInv
<1> QED  BY InitFresh, StepFresh, PTL DEF Spec

\* The catalog's state is well typed, its epochs never run ahead, and names count as filled exactly
\* when there are some.
THEOREM CatalogTypeCorrect == Spec => []TypeOK
<1>1. IInv => TypeOK  BY DEF IInv
<1> QED  BY <1>1, CatalogIsFresh, PTL

\* RefreshProviderNames: a list that counts as current is not older than the last invalidation.
THEOREM ListsAreFresh == Spec => []CurrentListIsFresh
<1>1. IInv => CurrentListIsFresh  BY DEF IInv
<1> QED  BY <1>1, CatalogIsFresh, PTL

\* GetOrQueryProviderEntry: a lookup returns no columns from before an invalidation or an ALTER that
\* it came after.
THEOREM EntriesAreFresh == Spec => []EntryIsFresh
<1>1. IInv => EntryIsFresh
  <2> SUFFICES ASSUME IInv, NEW c \in Threads, At(c, "done") PROVE th[c].answer >= th[c].since
    BY DEF EntryIsFresh
  <2>1. th[c] \in Statement /\ Placed(c) /\ SnapshotIsFresh(c) /\ th[c].step = "done"
    BY ThreadHas DEF At
  <2>2. th[c].answer \in Nat /\ th[c].since \in Nat /\ th[c].since <= th[c].answer
    BY <2>1, ProviderBounds DEF Placed, SnapshotIsFresh, Statement, Generations
  <2> QED  BY <2>2
<1> QED  BY <1>1, CatalogIsFresh, PTL

================================================================================
