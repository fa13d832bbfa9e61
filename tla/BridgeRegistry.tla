---------------------------- MODULE BridgeRegistry ----------------------------
(***************************************************************************)
(* The process-wide registry of a vcatbridge (src/bridge/duckdb_source.cpp, *)
(* bridge_catalog.cpp): sources wait in PendingSources under a bridge id    *)
(* until an ATTACH redeems their token, and are found through LiveBridges   *)
(* until the catalog that redeemed them is destroyed.                       *)
(*                                                                         *)
(* Every operation below runs under PendingMutex, so each is one step; what *)
(* happens between an operation's two visits to the registry is the        *)
(* business of BridgePolicy.  A refusal that is raised before the mutex is  *)
(* taken (a missing option, a token with a foreign nonce, a NULL argument)  *)
(* changes nothing and is a stuttering step.                                *)
(*                                                                         *)
(* Time.  The code keeps steady_clock::last_touched and compares the idle   *)
(* time in whole seconds; `idle' is that difference, in units of which     *)
(* TtlSeconds fit in PENDING_SOURCE_TTL_SECONDS.  It saturates one past the *)
(* limit, so time itself needs no bound.                                    *)
(*                                                                         *)
(* Tokens.  Token r > 0 is the UUID generated for registration r, so it is  *)
(* never issued twice; ChosenToken is a token the owner names itself (the  *)
(* 3-argument form) and may name again.                                    *)
(***************************************************************************)
EXTENDS Integers, FiniteSets

CONSTANTS
    Ids,              \* bridge ids
    Instances,        \* DatabaseInstances of the process
    None,             \* no entry
    TtlSeconds,       \* PENDING_SOURCE_TTL_SECONDS
    MaxTokenFailures, \* MAX_TOKEN_FAILURES
    MaxRegs,          \* bound: registrations in a behaviour
    MaxTxns           \* bound: target transactions open on one bridge

ASSUME TtlAssumption == TtlSeconds \in Nat
ASSUME FailuresAssumption == MaxTokenFailures \in Nat \ {0}
ASSUME BoundsAssumption == MaxRegs \in Nat /\ MaxTxns \in Nat

ChosenToken == 0

Tokens == 0..MaxRegs

PendingSource ==
    [source_db: Instances, reg: 1..MaxRegs, token: Tokens, idle: 0..(TtlSeconds + 1),
     failures: 0..(MaxTokenFailures - 1), finalized: BOOLEAN]

\* One entry stands for the LiveBridges element and the DuckDBSource that keeps its GrantBook.
\* attached: the target's catalog is attached; txns: target transactions that still hold it.
LiveBridge ==
    [source_db: Instances, target_db: Instances, reg: 1..MaxRegs, finalized: BOOLEAN,
     attached: BOOLEAN, txns: 0..MaxTxns]

ASSUME NoneAssumption == None \notin PendingSource /\ None \notin LiveBridge

VARIABLES
    pending,   \* PendingSources
    live,      \* LiveBridges
    conns,     \* instances some client connection holds open
    bound,     \* instances whose main database went through vcatbridge_init
    nextReg    \* number of the next registration

vars == <<pending, live, conns, bound, nextReg>>

\* Types.  A waiting entry has met fewer wrong tokens than MAX_TOKEN_FAILURES, since the last one
\* drops it, and its idle time stops one past the limit.
TypeOK ==
    /\ pending \in [Ids -> PendingSource \cup {None}]
    /\ live \in [Ids -> LiveBridge \cup {None}]
    /\ conns \subseteq Instances
    /\ bound \subseteq Instances
    /\ nextReg \in 1..(MaxRegs + 1)

Init ==
    /\ pending = [b \in Ids |-> None]
    /\ live = [b \in Ids |-> None]
    /\ conns = Instances
    /\ bound = {}
    /\ nextReg = 1

--------------------------------------------------------------------------------
(* Lookups *)

IsLiveBridge(b) == live[b] # None

\* A DatabaseInstance lives while a connection holds it, or a DuckDBSource does: source_db_hold is
\* null when source and target are one instance.
Alive(i) ==
    \/ i \in conns
    \/ \E b \in Ids : /\ IsLiveBridge(b)
                      /\ live[b].source_db = i
                      /\ live[b].target_db # i

Expired(p) == p.idle > TtlSeconds \/ ~Alive(p.source_db)

\* PurgeExpiredPendingSources, with which every registry operation starts.
Purged == [b \in Ids |-> IF pending[b] # None /\ Expired(pending[b]) THEN None ELSE pending[b]]

\* LookupGrantTarget finds b's pending entry, and instance i registered it.
PendingForGrant(b, i) == Purged[b] # None /\ Purged[b].source_db = i

\* LookupGrantTarget finds no pending entry under b but a live bridge that i registered.
LiveForGrant(b, i) == Purged[b] = None /\ IsLiveBridge(b) /\ live[b].source_db = i

Finalized(b) == IF Purged[b] # None THEN Purged[b].finalized ELSE live[b].finalized

\* The registry after a lookup by its owner: the purge is done and the entry is touched.
Touched(b) == IF Purged[b] = None THEN Purged ELSE [Purged EXCEPT ![b].idle = 0]

--------------------------------------------------------------------------------
(* The owner's side *)

\* The entry Register puts under b.
NewPending(b, i, token) ==
    /\ pending' = [Purged EXCEPT ![b] =
                     [source_db |-> i, reg |-> nextReg, token |-> token, idle |-> 0,
                      failures |-> 0, finalized |-> FALSE]]
    /\ nextReg' = nextReg + 1
    /\ UNCHANGED <<live, conns, bound>>

RegisterMutIgnoresLive(b, i, token) ==
    /\ i \in conns
    /\ nextReg <= MaxRegs
    /\ Purged[b] = None
    /\ NewPending(b, i, token)

\* RegisterSourceFunc: a fresh entry, unless the id already has a pending or a live one.
Register(b, i, token) ==
    /\ i \in conns
    /\ nextReg <= MaxRegs
    /\ Purged[b] = None /\ ~IsLiveBridge(b)
    /\ NewPending(b, i, token)

RegisterRefused(b, i) ==
    /\ i \in conns
    /\ Purged[b] # None \/ IsLiveBridge(b)
    /\ pending' = Purged
    /\ UNCHANGED <<live, conns, bound, nextReg>>

\* LookupOpenGrants of a policy or context function that succeeds: the owner's clock restarts.
Touch(b, i) ==
    /\ i \in conns
    /\ PendingForGrant(b, i) \/ LiveForGrant(b, i)
    /\ pending' = Touched(b)
    /\ UNCHANGED <<live, conns, bound, nextReg>>

\* The same lookup refused: no such bridge, or another instance registered it.
LookupRefused(b, i) ==
    /\ i \in conns
    /\ ~PendingForGrant(b, i) /\ ~LiveForGrant(b, i)
    /\ pending' = Purged
    /\ UNCHANGED <<live, conns, bound, nextReg>>

\* FinalizePolicyFunc; a second call is refused after the lookup, which is Touch.
FinalizePolicy(b, i) ==
    /\ i \in conns
    /\ PendingForGrant(b, i) \/ LiveForGrant(b, i)
    /\ ~Finalized(b)
    /\ IF Purged[b] # None
         THEN /\ pending' = [Touched(b) EXCEPT ![b].finalized = TRUE]
              /\ UNCHANGED live
         ELSE /\ pending' = Purged
              /\ live' = [live EXCEPT ![b].finalized = TRUE]
    /\ UNCHANGED <<conns, bound, nextReg>>

--------------------------------------------------------------------------------
(* The target's side: RedeemBridge, from ATTACH (main = FALSE) or vcatbridge_init (main = TRUE) *)

\* The call reaches RedeemBridge: ATTACH always, vcatbridge_init until the main database is bound.
\* init is refused without a trace when the configuration is locked; see README, Lockdown.
MayRedeem(t, main) == t \in conns /\ (main => t \notin bound)

\* RedeemBridge's tail: the source and the policy move from `entry' to a new live bridge.
GoLive(b, entry, finalized, t, main) ==
    /\ live' = [live EXCEPT ![b] =
                  [source_db |-> entry.source_db, target_db |-> t, reg |-> entry.reg,
                   finalized |-> finalized, attached |-> TRUE, txns |-> 0]]
    /\ bound' = IF main THEN bound \cup {t} ELSE bound
    /\ UNCHANGED <<conns, nextReg>>

RedeemMutUnpurged(b, token, t, main) ==
    /\ MayRedeem(t, main)
    /\ pending[b] # None /\ pending[b].token = token /\ ~IsLiveBridge(b)
    /\ pending' = [pending EXCEPT ![b] = None]
    /\ GoLive(b, pending[b], pending[b].finalized, t, main)

RedeemMutKeepsPending(b, token, t, main) ==
    /\ MayRedeem(t, main)
    /\ Purged[b] # None /\ Purged[b].token = token /\ ~IsLiveBridge(b)
    /\ pending' = Purged
    /\ GoLive(b, Purged[b], Purged[b].finalized, t, main)

RedeemMutDropsFinalized(b, token, t, main) ==
    /\ MayRedeem(t, main)
    /\ Purged[b] # None /\ Purged[b].token = token /\ ~IsLiveBridge(b)
    /\ pending' = [Purged EXCEPT ![b] = None]
    /\ GoLive(b, Purged[b], FALSE, t, main)

\* The registration leaves PendingSources for LiveBridges.  Its grant set holds together and the
\* settings match; BridgePolicy says when.
Redeem(b, token, t, main) ==
    /\ MayRedeem(t, main)
    /\ Purged[b] # None /\ Purged[b].token = token /\ ~IsLiveBridge(b)
    /\ pending' = [Purged EXCEPT ![b] = None]
    /\ GoLive(b, Purged[b], Purged[b].finalized, t, main)

\* Refused after the purge: no such registration, an id in use, an inconsistent grant set, or
\* settings that differ between source and target.  The entry waits on.
RedeemRefused(b, token, t, main) ==
    /\ MayRedeem(t, main)
    /\ Purged[b] # None => Purged[b].token = token
    /\ pending' = Purged
    /\ UNCHANGED <<live, conns, bound, nextReg>>

WrongTokenMutOffByOne(b, token, t, main) ==
    /\ MayRedeem(t, main)
    /\ Purged[b] # None /\ Purged[b].token # token
    /\ pending' = IF Purged[b].failures + 1 > MaxTokenFailures
                    THEN [Purged EXCEPT ![b] = None]
                    ELSE [Purged EXCEPT ![b].failures = @ + 1]
    /\ UNCHANGED <<live, conns, bound, nextReg>>

\* Refused for its token: MaxTokenFailures of them drop the entry.
WrongToken(b, token, t, main) ==
    /\ MayRedeem(t, main)
    /\ Purged[b] # None /\ Purged[b].token # token
    /\ pending' = IF Purged[b].failures + 1 >= MaxTokenFailures
                    THEN [Purged EXCEPT ![b] = None]
                    ELSE [Purged EXCEPT ![b].failures = @ + 1]
    /\ UNCHANGED <<live, conns, bound, nextReg>>

\* A target transaction that uses the bridge keeps its catalog, detached or not.
BeginTransaction(b) ==
    /\ IsLiveBridge(b)
    /\ live[b].attached /\ live[b].target_db \in conns /\ live[b].txns < MaxTxns
    /\ live' = [live EXCEPT ![b].txns = @ + 1]
    /\ UNCHANGED <<pending, conns, bound, nextReg>>

EndTransaction(b) ==
    /\ IsLiveBridge(b)
    /\ live[b].txns > 0
    /\ live' = [live EXCEPT ![b].txns = @ - 1]
    /\ UNCHANGED <<pending, conns, bound, nextReg>>

\* DETACH on the target, or an ATTACH that fails after the redemption.
Detach(b) ==
    /\ IsLiveBridge(b)
    /\ live[b].attached /\ live[b].target_db \in conns
    /\ live' = [live EXCEPT ![b].attached = FALSE]
    /\ UNCHANGED <<pending, conns, bound, nextReg>>

\* Nothing holds the catalog any more: it was detached, or its instance is gone.
Unreferenced(b) ==
    /\ live[b].txns = 0
    /\ ~live[b].attached \/ ~Alive(live[b].target_db)

DestroySourceMutForgets(b) ==
    /\ IsLiveBridge(b) /\ Unreferenced(b)
    /\ UNCHANGED vars

\* ~DuckDBSource, which frees the id and lets go of the source instance.
DestroySource(b) ==
    /\ IsLiveBridge(b) /\ Unreferenced(b)
    /\ live' = [live EXCEPT ![b] = None]
    /\ UNCHANGED <<pending, conns, bound, nextReg>>

--------------------------------------------------------------------------------
(* The environment *)

\* The last connection to i closes, its transactions having ended.
CloseInstance(i) ==
    /\ i \in conns
    /\ \A b \in Ids : IsLiveBridge(b) /\ live[b].target_db = i => live[b].txns = 0
    /\ conns' = conns \ {i}
    /\ UNCHANGED <<pending, live, bound, nextReg>>

\* steady_clock moves on.
Tick ==
    /\ pending' = [b \in Ids |->
                     IF pending[b] # None /\ pending[b].idle <= TtlSeconds
                       THEN [pending[b] EXCEPT !.idle = @ + 1] ELSE pending[b]]
    /\ UNCHANGED <<live, conns, bound, nextReg>>

OwnerStep(b, i) ==
    \/ \E token \in {ChosenToken, nextReg} : Register(b, i, token)
    \/ RegisterRefused(b, i)
    \/ Touch(b, i)
    \/ LookupRefused(b, i)
    \/ FinalizePolicy(b, i)

TargetStep(b, t) ==
    \E token \in Tokens, main \in BOOLEAN :
        \/ Redeem(b, token, t, main)
        \/ RedeemRefused(b, token, t, main)
        \/ WrongToken(b, token, t, main)

CatalogStep(b) ==
    BeginTransaction(b) \/ EndTransaction(b) \/ Detach(b) \/ DestroySource(b)

Next ==
    \/ \E b \in Ids, i \in Instances : OwnerStep(b, i) \/ TargetStep(b, i)
    \/ \E b \in Ids : CatalogStep(b)
    \/ \E i \in Instances : CloseInstance(i)
    \/ Tick

\* Transactions end, and a destructor runs once nothing holds its object.
Fairness == \A b \in Ids : WF_vars(EndTransaction(b)) /\ WF_vars(DestroySource(b))

Spec == Init /\ [][Next]_vars /\ Fairness

--------------------------------------------------------------------------------
(* Properties *)

\* A bridge id is never both waiting in PendingSources and served from LiveBridges: the policy and
\* context functions, which look in PendingSources first, reach the one registration the id has.
IdPendingOrLive == \A b \in Ids : pending[b] = None \/ live[b] = None

\* Two entries of the registry never stand for one registration, so no token opens two bridges.
RegistrationsDistinct ==
    /\ \A b \in Ids : /\ pending[b] # None => pending[b].reg < nextReg
                      /\ live[b] # None => live[b].reg < nextReg
    /\ \A b, c \in Ids : pending[b] # None /\ live[c] # None => pending[b].reg # live[c].reg
    /\ \A b, c \in Ids : /\ pending[b] # None /\ pending[c] # None /\ pending[b].reg = pending[c].reg
                              => b = c
                         /\ live[b] # None /\ live[c] # None /\ live[b].reg = live[c].reg => b = c

\* If b opens, then from a fresh registration.
OpensFresh(b) ==
    live[b] = None /\ live'[b] # None =>
        /\ pending[b] # None
        /\ pending[b].idle <= TtlSeconds
        /\ pending[b].failures < MaxTokenFailures
        /\ Alive(pending[b].source_db)

\* Whatever expiry, wrong tokens and closing instances did before: a bridge opens only from a
\* registration that waited no longer than the limit, met fewer wrong tokens than the limit and
\* whose source is still open.
RedeemsOnlyFresh == [][\A b \in Ids : OpensFresh(b)]_vars

\* If the registration under b is finalized, it still is after the step.
StillFinalized(b) ==
    /\ pending[b] # None /\ pending[b].finalized /\ pending'[b] # None
       /\ pending'[b].reg = pending[b].reg => pending'[b].finalized
    /\ pending[b] # None /\ pending[b].finalized /\ live'[b] # None => live'[b].finalized
    /\ live[b] # None /\ live[b].finalized /\ live'[b] # None => live'[b].finalized

\* Once vcatbridge_finalize_policy succeeded on a registration, no later step of it finds the
\* policy open again, the move from PendingSources to LiveBridges included.
FinalizedForever == [][\A b \in Ids : StillFinalized(b)]_vars

\* An id whose catalog was detached, or whose target instance closed, is free again in the end,
\* whatever transactions were open on it.
DetachedIdIsFreed ==
    \A b \in Ids :
        (live[b] # None /\ (~live[b].attached \/ ~Alive(live[b].target_db))) ~> (live[b] = None)

--------------------------------------------------------------------------------
(* BridgeHandshake is what the registry promises *)

OfferedOf(b) == IF pending[b] = None THEN 0 ELSE pending[b].reg
ServingOf(b) == IF live[b] = None THEN 0 ELSE live[b].reg
FrozenOf(b) ==
    \/ pending[b] # None /\ pending[b].finalized
    \/ live[b] # None /\ live[b].finalized

Handshake == INSTANCE BridgeHandshake WITH
    offered <- [b \in Ids |-> OfferedOf(b)],
    serving <- [b \in Ids |-> ServingOf(b)],
    frozen <- [b \in Ids |-> FrozenOf(b)],
    issued <- nextReg - 1

\* The registry implements the abstract handshake: one registration per id, redeemed at most once,
\* never revived.
ImplementsHandshake == Handshake!HSpec

================================================================================
