------------------------- MODULE BridgeRegistryProofs -------------------------
(***************************************************************************)
(* Proofs about BridgeRegistry, for every number of ids, instances,        *)
(* registrations and transactions, and every limit on time and on wrong     *)
(* tokens.                                                                  *)
(***************************************************************************)
EXTENDS BridgeRegistry, TLAPS

--------------------------------------------------------------------------------
(* What the purge leaves *)

\* PurgeExpiredPendingSources only drops entries: what it leaves under an id is the entry that was
\* there, and that entry has not expired.
LEMMA PurgedEntries ==
    ASSUME TypeOK
    PROVE  /\ Purged \in [Ids -> PendingSource \cup {None}]
           /\ \A b \in Ids : Purged[b] # None => /\ Purged[b] = pending[b]
                                                 /\ Purged[b] \in PendingSource
                                                 /\ ~Expired(pending[b])
  BY DEF TypeOK, Purged

\* A bridge entry is either absent or a record.
LEMMA LiveEntries ==
    ASSUME TypeOK
    PROVE  \A b \in Ids : live[b] # None => live[b] \in LiveBridge
  BY DEF TypeOK

\* The owner's lookup puts the registry in a well-typed state and changes no entry but for its clock.
LEMMA TouchedEntries ==
    ASSUME TypeOK, NEW b \in Ids
    PROVE  /\ Touched(b) \in [Ids -> PendingSource \cup {None}]
           /\ \A c \in Ids \ {b} : Touched(b)[c] = Purged[c]
           /\ Purged[b] = None => Touched(b)[b] = None
           /\ Purged[b] # None => /\ Touched(b)[b] \in PendingSource
                                  /\ Touched(b)[b] = [Purged[b] EXCEPT !.idle = 0]
  <1>1. 0 \in 0..(TtlSeconds + 1)
    BY TtlAssumption
  <1>2. CASE Purged[b] = None
    BY <1>2, PurgedEntries DEF Touched
  <1>3. CASE Purged[b] # None
    <2>1. [Purged[b] EXCEPT !.idle = 0] \in PendingSource
      BY <1>1, <1>3, PurgedEntries DEF PendingSource
    <2>2. Touched(b) = [Purged EXCEPT ![b] = [Purged[b] EXCEPT !.idle = 0]]
      BY <1>3, PurgedEntries DEF Touched
    <2> QED
      BY <1>3, <2>1, <2>2, PurgedEntries
  <1> QED
    BY <1>2, <1>3

--------------------------------------------------------------------------------
(* Type correctness *)

\* The empty registry of a fresh process is well typed.
LEMMA InitTypeOK == Init => TypeOK
  BY BoundsAssumption DEF Init, TypeOK

\* Registering keeps the types: the new entry is well formed and the number is within the bound.
LEMMA NewPendingTypeOK ==
    ASSUME TypeOK, NEW b \in Ids, NEW i \in Instances, NEW token \in Tokens,
           nextReg <= MaxRegs, NewPending(b, i, token)
    PROVE  TypeOK'
  <1>1. [source_db |-> i, reg |-> nextReg, token |-> token, idle |-> 0, failures |-> 0,
         finalized |-> FALSE] \in PendingSource
    BY TtlAssumption, FailuresAssumption, BoundsAssumption DEF TypeOK, PendingSource
  <1>2. nextReg' \in 1..(MaxRegs + 1)
    BY BoundsAssumption DEF TypeOK, NewPending
  <1> QED
    BY <1>1, <1>2, PurgedEntries DEF NewPending, TypeOK

\* The registration that leaves PendingSources makes a well-formed live bridge.
LEMMA GoLiveTypeOK ==
    ASSUME TypeOK, NEW b \in Ids, NEW t \in Instances, NEW main \in BOOLEAN,
           Purged[b] # None, pending' = [Purged EXCEPT ![b] = None],
           GoLive(b, Purged[b], Purged[b].finalized, t, main)
    PROVE  TypeOK'
  <1>1. [source_db |-> Purged[b].source_db, target_db |-> t, reg |-> Purged[b].reg,
         finalized |-> Purged[b].finalized, attached |-> TRUE, txns |-> 0] \in LiveBridge
    BY PurgedEntries, BoundsAssumption DEF PendingSource, LiveBridge
  <1> QED
    BY <1>1, PurgedEntries DEF GoLive, TypeOK

\* A wrong token counts up to one less than the limit and then drops the entry.
LEMMA WrongTokenTypeOK ==
    ASSUME TypeOK, NEW b \in Ids, NEW t \in Instances, NEW token \in Tokens, NEW main \in BOOLEAN,
           WrongToken(b, token, t, main)
    PROVE  TypeOK'
  <1>1. CASE Purged[b].failures + 1 >= MaxTokenFailures
    BY <1>1, PurgedEntries DEF WrongToken, TypeOK
  <1>2. CASE ~(Purged[b].failures + 1 >= MaxTokenFailures)
    <2>1. Purged[b] \in PendingSource
      BY PurgedEntries DEF WrongToken
    <2>2. Purged[b].failures + 1 \in 0..(MaxTokenFailures - 1)
      BY <1>2, <2>1, FailuresAssumption DEF PendingSource
    <2>3. [Purged[b] EXCEPT !.failures = @ + 1] \in PendingSource
      BY <2>1, <2>2 DEF PendingSource
    <2>4. pending' = [Purged EXCEPT ![b] = [Purged[b] EXCEPT !.failures = @ + 1]]
      BY <1>2, PurgedEntries DEF WrongToken
    <2> QED
      BY <2>3, <2>4, PurgedEntries DEF WrongToken, TypeOK
  <1> QED
    BY <1>1, <1>2

\* Finalizing keeps the types, on either side of the ATTACH.
LEMMA FinalizePolicyTypeOK ==
    ASSUME TypeOK, NEW b \in Ids, NEW i \in Instances, FinalizePolicy(b, i)
    PROVE  TypeOK'
  <1>1. CASE Purged[b] # None
    <2>1. [Touched(b)[b] EXCEPT !.finalized = TRUE] \in PendingSource
      BY <1>1, TouchedEntries DEF PendingSource
    <2>2. pending' = [Touched(b) EXCEPT ![b] = [Touched(b)[b] EXCEPT !.finalized = TRUE]]
      BY <1>1, TouchedEntries DEF FinalizePolicy
    <2> QED
      BY <1>1, <2>1, <2>2, TouchedEntries DEF FinalizePolicy, TypeOK
  <1>2. CASE Purged[b] = None
    <2>1. live[b] \in LiveBridge
      BY <1>2, LiveEntries DEF FinalizePolicy, LiveForGrant, PendingForGrant, IsLiveBridge
    <2>2. [live[b] EXCEPT !.finalized = TRUE] \in LiveBridge
      BY <2>1 DEF LiveBridge
    <2>3. live' = [live EXCEPT ![b] = [live[b] EXCEPT !.finalized = TRUE]]
      BY <1>2 DEF FinalizePolicy, TypeOK
    <2> QED
      BY <1>2, <2>2, <2>3, PurgedEntries DEF FinalizePolicy, TypeOK
  <1> QED
    BY <1>1, <1>2

\* The steps of an attached catalog keep the types.
LEMMA CatalogStepTypeOK ==
    ASSUME TypeOK, NEW b \in Ids, CatalogStep(b)
    PROVE  TypeOK'
  <1>1. live[b] \in LiveBridge
    BY LiveEntries DEF CatalogStep, BeginTransaction, EndTransaction, Detach, DestroySource, IsLiveBridge
  <1>2. CASE BeginTransaction(b)
    <2>1. live[b].txns + 1 \in 0..MaxTxns
      BY <1>1, <1>2, BoundsAssumption DEF BeginTransaction, LiveBridge
    <2>2. [live[b] EXCEPT !.txns = @ + 1] \in LiveBridge
      BY <1>1, <2>1 DEF LiveBridge
    <2>3. live' = [live EXCEPT ![b] = [live[b] EXCEPT !.txns = @ + 1]]
      BY <1>2 DEF BeginTransaction, TypeOK
    <2> QED
      BY <1>2, <2>2, <2>3 DEF BeginTransaction, TypeOK
  <1>3. CASE EndTransaction(b)
    <2>1. live[b].txns - 1 \in 0..MaxTxns
      BY <1>1, <1>3, BoundsAssumption DEF EndTransaction, LiveBridge
    <2>2. [live[b] EXCEPT !.txns = @ - 1] \in LiveBridge
      BY <1>1, <2>1 DEF LiveBridge
    <2>3. live' = [live EXCEPT ![b] = [live[b] EXCEPT !.txns = @ - 1]]
      BY <1>3 DEF EndTransaction, TypeOK
    <2> QED
      BY <1>3, <2>2, <2>3 DEF EndTransaction, TypeOK
  <1>4. CASE Detach(b)
    <2>1. [live[b] EXCEPT !.attached = FALSE] \in LiveBridge
      BY <1>1 DEF LiveBridge
    <2>2. live' = [live EXCEPT ![b] = [live[b] EXCEPT !.attached = FALSE]]
      BY <1>4 DEF Detach, TypeOK
    <2> QED
      BY <1>4, <2>1, <2>2 DEF Detach, TypeOK
  <1>5. CASE DestroySource(b)
    BY <1>5 DEF DestroySource, TypeOK
  <1> QED
    BY <1>2, <1>3, <1>4, <1>5 DEF CatalogStep

\* Time passing keeps the types: the idle time stops one past the limit.
LEMMA TickTypeOK ==
    ASSUME TypeOK, Tick
    PROVE  TypeOK'
  <1>1. ASSUME NEW b \in Ids, pending[b] # None, pending[b].idle <= TtlSeconds
        PROVE  [pending[b] EXCEPT !.idle = @ + 1] \in PendingSource
    <2>1. pending[b] \in PendingSource
      BY <1>1 DEF TypeOK
    <2>2. pending[b].idle + 1 \in 0..(TtlSeconds + 1)
      BY <1>1, <2>1, TtlAssumption DEF PendingSource
    <2> QED
      BY <2>1, <2>2 DEF PendingSource
  <1> QED
    BY <1>1 DEF Tick, TypeOK

\* Every step of the specification keeps the types.
LEMMA NextTypeOK ==
    ASSUME TypeOK, [Next]_vars
    PROVE  TypeOK'
  <1>1. ASSUME NEW b \in Ids, NEW i \in Instances, OwnerStep(b, i)
        PROVE  TypeOK'
    <2>1. ASSUME NEW token \in {ChosenToken, nextReg}, Register(b, i, token)
          PROVE  TypeOK'
      <3>1. token \in Tokens /\ nextReg <= MaxRegs
        BY <2>1, BoundsAssumption DEF Register, ChosenToken, Tokens, TypeOK
      <3> QED
        BY <2>1, <3>1, NewPendingTypeOK DEF Register
    <2>2. CASE RegisterRefused(b, i)
      BY <2>2, PurgedEntries DEF RegisterRefused, TypeOK
    <2>3. CASE Touch(b, i)
      BY <2>3, TouchedEntries DEF Touch, TypeOK
    <2>4. CASE LookupRefused(b, i)
      BY <2>4, PurgedEntries DEF LookupRefused, TypeOK
    <2>5. CASE FinalizePolicy(b, i)
      BY <2>5, FinalizePolicyTypeOK
    <2> QED
      BY <1>1, <2>1, <2>2, <2>3, <2>4, <2>5 DEF OwnerStep
  <1>2. ASSUME NEW b \in Ids, NEW t \in Instances, TargetStep(b, t)
        PROVE  TypeOK'
    <2> PICK token \in Tokens, main \in BOOLEAN : \/ Redeem(b, token, t, main)
                                                  \/ RedeemRefused(b, token, t, main)
                                                  \/ WrongToken(b, token, t, main)
      BY <1>2 DEF TargetStep
    <2>1. CASE Redeem(b, token, t, main)
      BY <2>1, GoLiveTypeOK DEF Redeem
    <2>2. CASE RedeemRefused(b, token, t, main)
      BY <2>2, PurgedEntries DEF RedeemRefused, TypeOK
    <2>3. CASE WrongToken(b, token, t, main)
      BY <2>3, WrongTokenTypeOK
    <2> QED
      BY <2>1, <2>2, <2>3
  <1>3. ASSUME NEW i \in Instances, CloseInstance(i)
        PROVE  TypeOK'
    BY <1>3 DEF CloseInstance, TypeOK
  <1>4. CASE UNCHANGED vars
    BY <1>4 DEF vars, TypeOK
  <1> QED
    BY <1>1, <1>2, <1>3, <1>4, CatalogStepTypeOK, TickTypeOK DEF Next

\* The registry is well typed in every reachable state: in particular no waiting entry has met
\* MAX_TOKEN_FAILURES wrong tokens.
THEOREM TypeCorrect == Spec => []TypeOK
  <1>1. TypeOK /\ [Next]_vars => TypeOK'
    BY NextTypeOK
  <1> QED
    BY <1>1, InitTypeOK, PTL DEF Spec

--------------------------------------------------------------------------------
(* What each operation does to the registrations *)

\* The registration under c, its number and its finalization are as they were, or it waited and is
\* gone.
Kept(c) ==
    /\ pending'[c] # None => /\ pending[c] # None
                             /\ pending'[c].reg = pending[c].reg
                             /\ pending'[c].finalized = pending[c].finalized
    /\ (live'[c] # None) <=> (live[c] # None)
    /\ live[c] # None => /\ live'[c].reg = live[c].reg
                         /\ live'[c].finalized = live[c].finalized

\* A step that at most loses registrations that wait.
Quiet == nextReg' = nextReg /\ \A c \in Ids : Kept(c)

\* The purge, alone or with the owner's touch, is quiet.
LEMMA PurgeIsQuiet ==
    ASSUME TypeOK, NEW b \in Ids, pending' = Purged \/ pending' = Touched(b),
           live' = live, nextReg' = nextReg
    PROVE  Quiet
  <1>1. CASE pending' = Purged
    BY <1>1, PurgedEntries DEF Quiet, Kept
  <1>2. CASE pending' = Touched(b)
    <2>1. Purged[b] # None => /\ [Purged[b] EXCEPT !.idle = 0].reg = Purged[b].reg
                              /\ [Purged[b] EXCEPT !.idle = 0].finalized = Purged[b].finalized
      BY PurgedEntries DEF PendingSource
    <2>2. Kept(b)
      <3>1. CASE Purged[b] = None
        BY <1>2, <3>1, PurgedEntries DEF Touched, Kept
      <3>2. CASE Purged[b] # None
        <4>1. pending'[b] = [Purged[b] EXCEPT !.idle = 0]
          BY <1>2, <3>2, PurgedEntries DEF Touched
        <4> QED
          BY <2>1, <3>2, <4>1, PurgedEntries DEF Kept
      <3> QED
        BY <3>1, <3>2
    <2>3. ASSUME NEW c \in Ids \ {b}
          PROVE  Kept(c)
      <3>1. pending'[c] = Purged[c]
        BY <1>2, PurgedEntries DEF Touched
      <3> QED
        BY <3>1, PurgedEntries DEF Kept
    <2> QED
      BY <2>2, <2>3 DEF Quiet
  <1> QED
    BY <1>1, <1>2

\* So is a wrong token.
LEMMA WrongTokenIsQuiet ==
    ASSUME TypeOK, NEW b \in Ids, NEW t \in Instances, NEW token \in Tokens, NEW main \in BOOLEAN,
           WrongToken(b, token, t, main)
    PROVE  Quiet
  <1>1. Purged[b] # None /\ Purged[b] \in PendingSource
    BY PurgedEntries DEF WrongToken
  <1>2. CASE Purged[b].failures + 1 >= MaxTokenFailures
    BY <1>2, PurgedEntries DEF WrongToken, Quiet, Kept
  <1>3. CASE ~(Purged[b].failures + 1 >= MaxTokenFailures)
    <2>1. pending' = [Purged EXCEPT ![b] = [Purged[b] EXCEPT !.failures = @ + 1]]
      BY <1>3, PurgedEntries DEF WrongToken
    <2>2. pending'[b].reg = Purged[b].reg /\ pending'[b].finalized = Purged[b].finalized
      BY <1>1, <2>1, PurgedEntries DEF PendingSource
    <2>3. \A c \in Ids \ {b} : pending'[c] = Purged[c]
      BY <2>1, PurgedEntries
    <2> QED
      BY <1>1, <2>2, <2>3, PurgedEntries DEF WrongToken, Quiet, Kept
  <1> QED
    BY <1>2, <1>3

\* So are the transactions and the detaching of a catalog.
LEMMA CatalogUseIsQuiet ==
    ASSUME TypeOK, NEW b \in Ids, BeginTransaction(b) \/ EndTransaction(b) \/ Detach(b)
    PROVE  Quiet
  <1>1. live[b] # None /\ live[b] \in LiveBridge
    BY LiveEntries DEF BeginTransaction, EndTransaction, Detach, IsLiveBridge
  <1>2. pending' = pending /\ nextReg' = nextReg
    BY DEF BeginTransaction, EndTransaction, Detach
  <1>3. \A c \in Ids \ {b} : live'[c] = live[c]
    BY DEF BeginTransaction, EndTransaction, Detach, TypeOK
  <1>4. live'[b] \in LiveBridge /\ live'[b].reg = live[b].reg /\ live'[b].finalized = live[b].finalized
    <2>1. TypeOK'
      BY CatalogStepTypeOK DEF CatalogStep
    <2>2. live'[b].reg = live[b].reg /\ live'[b].finalized = live[b].finalized
      BY <1>1 DEF BeginTransaction, EndTransaction, Detach, TypeOK, LiveBridge
    <2>3. live'[b] # None
      <3>1. CASE BeginTransaction(b)
        <4>1. [live[b] EXCEPT !.txns = @ + 1] \in LiveBridge
          BY <1>1, <3>1, BoundsAssumption DEF BeginTransaction, LiveBridge
        <4> QED
          BY <3>1, <4>1, NoneAssumption DEF BeginTransaction, TypeOK
      <3>2. CASE EndTransaction(b)
        <4>1. [live[b] EXCEPT !.txns = @ - 1] \in LiveBridge
          BY <1>1, <3>2, BoundsAssumption DEF EndTransaction, LiveBridge
        <4> QED
          BY <3>2, <4>1, NoneAssumption DEF EndTransaction, TypeOK
      <3>3. CASE Detach(b)
        <4>1. [live[b] EXCEPT !.attached = FALSE] \in LiveBridge
          BY <1>1 DEF LiveBridge
        <4> QED
          BY <3>3, <4>1, NoneAssumption DEF Detach, TypeOK
      <3> QED
        BY <3>1, <3>2, <3>3
    <2> QED
      BY <2>1, <2>2, <2>3 DEF TypeOK
  <1> QED
    BY <1>1, <1>2, <1>3, <1>4, NoneAssumption DEF Quiet, Kept

\* So is time.
LEMMA TickIsQuiet ==
    ASSUME TypeOK, Tick
    PROVE  Quiet
  <1>1. ASSUME NEW b \in Ids, pending[b] # None
        PROVE  /\ [pending[b] EXCEPT !.idle = @ + 1].reg = pending[b].reg
               /\ [pending[b] EXCEPT !.idle = @ + 1].finalized = pending[b].finalized
    BY <1>1 DEF TypeOK, PendingSource
  <1> QED
    BY <1>1 DEF Tick, Quiet, Kept

\* Finalizing finalizes the one registration under its id and is quiet about the others.
LEMMA FinalizeFootprint ==
    ASSUME TypeOK, IdPendingOrLive, NEW b \in Ids, NEW i \in Instances, FinalizePolicy(b, i)
    PROVE  /\ nextReg' = nextReg
           /\ \A c \in Ids \ {b} : Kept(c)
           /\ \/ /\ pending[b] # None /\ ~pending[b].finalized
                 /\ pending'[b] # None /\ pending'[b].reg = pending[b].reg /\ pending'[b].finalized
                 /\ live[b] = None /\ live'[b] = None
              \/ /\ live[b] # None /\ ~live[b].finalized
                 /\ live'[b] # None /\ live'[b].reg = live[b].reg /\ live'[b].finalized
                 /\ pending[b] = None /\ pending'[b] = None
  <1>1. CASE Purged[b] # None
    <2>1. pending' = [Touched(b) EXCEPT ![b] = [Touched(b)[b] EXCEPT !.finalized = TRUE]]
      BY <1>1, TouchedEntries DEF FinalizePolicy
    <2>2. /\ Purged[b] \in PendingSource /\ Purged[b] = pending[b]
          /\ Touched(b)[b] = [Purged[b] EXCEPT !.idle = 0]
          /\ Touched(b)[b] \in PendingSource
      BY <1>1, TouchedEntries, PurgedEntries
    <2>3. Touched(b)[b].reg = pending[b].reg
      BY <2>2 DEF PendingSource
    <2>4. pending'[b] = [Touched(b)[b] EXCEPT !.finalized = TRUE]
      BY <2>1, TouchedEntries
    <2>5. pending'[b] \in PendingSource /\ pending'[b].reg = pending[b].reg /\ pending'[b].finalized
      BY <2>2, <2>3, <2>4 DEF PendingSource
    <2>6. \A c \in Ids \ {b} : pending'[c] = Purged[c]
      BY <2>1, TouchedEntries
    <2>7. ~pending[b].finalized
      BY <1>1, <2>2 DEF FinalizePolicy, Finalized
    <2> QED
      BY <1>1, <2>2, <2>5, <2>6, <2>7, PurgedEntries, NoneAssumption
      DEF FinalizePolicy, IdPendingOrLive, Kept
  <1>2. CASE Purged[b] = None
    <2>1. live[b] \in LiveBridge /\ live[b] # None
      BY <1>2, LiveEntries DEF FinalizePolicy, LiveForGrant, PendingForGrant, IsLiveBridge
    <2>2. live' = [live EXCEPT ![b] = [live[b] EXCEPT !.finalized = TRUE]]
      BY <1>2 DEF FinalizePolicy, TypeOK
    <2>3. \A c \in Ids \ {b} : live'[c] = live[c]
      BY <2>2 DEF TypeOK
    <2>4. live'[b] = [live[b] EXCEPT !.finalized = TRUE]
      BY <2>2 DEF TypeOK
    <2>5. live'[b] \in LiveBridge /\ live'[b].reg = live[b].reg /\ live'[b].finalized
      BY <2>1, <2>4 DEF LiveBridge
    <2>6. ~live[b].finalized
      BY <1>2 DEF FinalizePolicy, Finalized
    <2> QED
      BY <1>2, <2>1, <2>3, <2>5, <2>6, PurgedEntries, NoneAssumption
      DEF FinalizePolicy, IdPendingOrLive, Kept
  <1> QED
    BY <1>1, <1>2

\* Registering takes an id that is free and a number nobody has.
LEMMA RegisterFootprint ==
    ASSUME TypeOK, NEW b \in Ids, NEW i \in Instances, NEW token \in Tokens, Register(b, i, token)
    PROVE  /\ nextReg' = nextReg + 1
           /\ \A c \in Ids \ {b} : Kept(c)
           /\ pending'[b] # None /\ pending'[b].reg = nextReg /\ ~pending'[b].finalized
           /\ live[b] = None /\ live'[b] = None
  <1>1. [source_db |-> i, reg |-> nextReg, token |-> token, idle |-> 0, failures |-> 0,
         finalized |-> FALSE] \in PendingSource
    BY TtlAssumption, FailuresAssumption, BoundsAssumption DEF TypeOK, PendingSource, Register
  <1> QED
    BY <1>1, PurgedEntries, NoneAssumption DEF Register, NewPending, IsLiveBridge, Kept

\* Redeeming moves a registration, its number and its finalization, to the live side of its id.
LEMMA RedeemFootprint ==
    ASSUME TypeOK, NEW b \in Ids, NEW t \in Instances, NEW token, NEW main \in BOOLEAN,
           Redeem(b, token, t, main)
    PROVE  /\ nextReg' = nextReg
           /\ \A c \in Ids \ {b} : Kept(c)
           /\ pending[b] # None /\ ~Expired(pending[b]) /\ pending'[b] = None
           /\ live[b] = None /\ live'[b] # None
           /\ live'[b].reg = pending[b].reg /\ live'[b].finalized = pending[b].finalized
  <1>1. [source_db |-> Purged[b].source_db, target_db |-> t, reg |-> Purged[b].reg,
         finalized |-> Purged[b].finalized, attached |-> TRUE, txns |-> 0] \in LiveBridge
    BY PurgedEntries, BoundsAssumption DEF PendingSource, LiveBridge, Redeem
  <1>2. /\ \A c \in Ids \ {b} : pending'[c] = Purged[c]
        /\ \A c \in Ids \ {b} : live'[c] = live[c]
        /\ pending'[b] = None
        /\ live'[b] = [source_db |-> Purged[b].source_db, target_db |-> t, reg |-> Purged[b].reg,
                       finalized |-> Purged[b].finalized, attached |-> TRUE, txns |-> 0]
        /\ Purged[b] # None /\ live[b] = None /\ nextReg' = nextReg
    BY PurgedEntries DEF Redeem, GoLive, TypeOK, IsLiveBridge
  <1>3. \A c \in Ids \ {b} : Kept(c)
    BY <1>2, PurgedEntries DEF Kept
  <1>4. Purged[b] = pending[b] /\ ~Expired(pending[b])
    BY <1>2, PurgedEntries
  <1>5. live'[b].reg = Purged[b].reg /\ live'[b].finalized = Purged[b].finalized
    BY <1>2
  <1>6. live'[b] # None
    BY <1>1, <1>2, NoneAssumption
  <1> QED
    BY <1>2, <1>3, <1>4, <1>5, <1>6

\* The destructor frees its id and nothing else.
LEMMA DestroyFootprint ==
    ASSUME TypeOK, NEW b \in Ids, DestroySource(b)
    PROVE  /\ nextReg' = nextReg /\ pending' = pending
           /\ live[b] # None /\ live'[b] = None
           /\ \A c \in Ids \ {b} : live'[c] = live[c]
  BY DEF DestroySource, IsLiveBridge, TypeOK

--------------------------------------------------------------------------------
(* One registration per id, one entry per registration *)

\* Neither part is inductive without the other: a registration that goes live meets no live bridge
\* of its number because numbers are distinct, and the owner's lookups, which try PendingSources
\* first, finalize the right entry because an id has only one.
IInv == TypeOK /\ IdPendingOrLive /\ RegistrationsDistinct

\* The numbers in the registry are integers.
LEMMA RegsAreInts ==
    ASSUME TypeOK
    PROVE  /\ nextReg \in Nat
           /\ \A b \in Ids : pending[b] # None => pending[b].reg \in Nat \ {0}
           /\ \A b \in Ids : live[b] # None => live[b].reg \in Nat \ {0}
  <1>1. \A b \in Ids : pending[b] # None => pending[b] \in PendingSource
    BY DEF TypeOK
  <1>2. \A b \in Ids : live[b] # None => live[b] \in LiveBridge
    BY DEF TypeOK
  <1> QED
    BY <1>1, <1>2, BoundsAssumption DEF TypeOK, PendingSource, LiveBridge

\* A purge, a wrong token or the passing of time cannot break the invariant: no entry is added and
\* no number changes hands.
LEMMA QuietIsSafe ==
    ASSUME IInv, Quiet
    PROVE  IdPendingOrLive' /\ RegistrationsDistinct'
  <1>1. IdPendingOrLive'
    BY DEF IInv, Quiet, Kept, IdPendingOrLive
  <1>2. RegistrationsDistinct'
    BY DEF IInv, Quiet, Kept, RegistrationsDistinct
  <1> QED
    BY <1>1, <1>2

\* Every step is quiet, or one of four that are not.
LEMMA Steps ==
    ASSUME TypeOK, [Next]_vars
    PROVE  \/ Quiet
           \/ \E b \in Ids, i \in Instances :
                 \/ \E token \in Tokens : Register(b, i, token)
                 \/ \E token \in Tokens, main \in BOOLEAN : Redeem(b, token, i, main)
                 \/ FinalizePolicy(b, i)
           \/ \E b \in Ids : DestroySource(b)
  <1>1. ASSUME NEW b \in Ids, NEW i \in Instances, OwnerStep(b, i)
        PROVE  \/ Quiet
               \/ \E token \in Tokens : Register(b, i, token)
               \/ FinalizePolicy(b, i)
    <2>1. ASSUME NEW token \in {ChosenToken, nextReg}, Register(b, i, token)
          PROVE  \E tok \in Tokens : Register(b, i, tok)
      <3>1. token \in Tokens
        BY <2>1, BoundsAssumption DEF Register, ChosenToken, Tokens, TypeOK
      <3> QED
        BY <2>1, <3>1
    <2>2. CASE RegisterRefused(b, i) \/ Touch(b, i) \/ LookupRefused(b, i)
      BY <2>2, PurgeIsQuiet DEF RegisterRefused, Touch, LookupRefused
    <2> QED
      BY <1>1, <2>1, <2>2 DEF OwnerStep
  <1>2. ASSUME NEW b \in Ids, NEW t \in Instances, TargetStep(b, t)
        PROVE  Quiet \/ \E token \in Tokens, main \in BOOLEAN : Redeem(b, token, t, main)
    <2> PICK token \in Tokens, main \in BOOLEAN : \/ Redeem(b, token, t, main)
                                                  \/ RedeemRefused(b, token, t, main)
                                                  \/ WrongToken(b, token, t, main)
      BY <1>2 DEF TargetStep
    <2>1. CASE RedeemRefused(b, token, t, main)
      BY <2>1, PurgeIsQuiet DEF RedeemRefused
    <2>2. CASE WrongToken(b, token, t, main)
      BY <2>2, WrongTokenIsQuiet
    <2> QED
      BY <2>1, <2>2
  <1>3. CASE (\E i \in Instances : CloseInstance(i)) \/ UNCHANGED vars
    BY <1>3 DEF CloseInstance, vars, Quiet, Kept
  <1> QED
    BY <1>1, <1>2, <1>3, CatalogUseIsQuiet, TickIsQuiet DEF Next, CatalogStep

\* Every step of the registry preserves the inductive invariant.
LEMMA NextSafe ==
    ASSUME IInv, [Next]_vars
    PROVE  IdPendingOrLive' /\ RegistrationsDistinct'
  <1> TypeOK /\ IdPendingOrLive
    BY DEF IInv
  <1>1. CASE Quiet
    BY <1>1, QuietIsSafe
  <1>2. ASSUME NEW b \in Ids, NEW i \in Instances, NEW token \in Tokens, Register(b, i, token)
        PROVE  IdPendingOrLive' /\ RegistrationsDistinct'
    BY <1>2, RegisterFootprint, RegsAreInts DEF IInv, Kept, IdPendingOrLive, RegistrationsDistinct
  <1>3. ASSUME NEW b \in Ids, NEW i \in Instances, NEW token \in Tokens, NEW main \in BOOLEAN,
               Redeem(b, token, i, main)
        PROVE  IdPendingOrLive' /\ RegistrationsDistinct'
    BY <1>3, RedeemFootprint DEF IInv, Kept, IdPendingOrLive, RegistrationsDistinct
  <1>4. ASSUME NEW b \in Ids, NEW i \in Instances, FinalizePolicy(b, i)
        PROVE  IdPendingOrLive' /\ RegistrationsDistinct'
    BY <1>4, FinalizeFootprint DEF IInv, Kept, IdPendingOrLive, RegistrationsDistinct
  <1>5. ASSUME NEW b \in Ids, DestroySource(b)
        PROVE  IdPendingOrLive' /\ RegistrationsDistinct'
    BY <1>5, DestroyFootprint DEF IInv, IdPendingOrLive, RegistrationsDistinct
  <1> QED
    BY <1>1, <1>2, <1>3, <1>4, <1>5, Steps

\* The inductive invariant holds in every reachable state of the registry.
LEMMA InvariantHolds == Spec => []IInv
  <1>1. Init => IInv
    BY InitTypeOK DEF Init, IInv, IdPendingOrLive, RegistrationsDistinct
  <1>2. IInv /\ [Next]_vars => IInv'
    BY NextTypeOK, NextSafe DEF IInv
  <1> QED
    BY <1>1, <1>2, PTL DEF Spec

\* An id is never pending and live at once.
THEOREM PendingOrLive == Spec => []IdPendingOrLive
  <1>1. IInv => IdPendingOrLive
    BY DEF IInv
  <1> QED
    BY <1>1, InvariantHolds, PTL

\* No registration is in the registry twice, so no token opens two bridges.
THEOREM OneEntryPerRegistration == Spec => []RegistrationsDistinct
  <1>1. IInv => RegistrationsDistinct
    BY DEF IInv
  <1> QED
    BY <1>1, InvariantHolds, PTL

--------------------------------------------------------------------------------
(* What a step may never do *)

\* A bridge opens only from a registration that is neither expired nor exhausted and whose source is
\* open, whatever the limits are.
THEOREM OpensOnlyFresh == Spec => RedeemsOnlyFresh
  <1>1. ASSUME IInv, [Next]_vars, NEW b \in Ids
        PROVE  OpensFresh(b)
    <2> TypeOK /\ IdPendingOrLive
      BY <1>1 DEF IInv
    <2> SUFFICES ASSUME live[b] = None, live'[b] # None
                 PROVE  /\ pending[b] # None
                        /\ pending[b].idle <= TtlSeconds
                        /\ pending[b].failures < MaxTokenFailures
                        /\ Alive(pending[b].source_db)
      BY DEF OpensFresh
    <2>1. \E i \in Instances, token \in Tokens, main \in BOOLEAN : Redeem(b, token, i, main)
      BY <1>1, Steps, RegisterFootprint, RedeemFootprint, FinalizeFootprint, DestroyFootprint
      DEF Quiet, Kept
    <2>2. pending[b] # None /\ ~Expired(pending[b])
      BY <2>1, RedeemFootprint
    <2>3. pending[b] \in PendingSource
      BY <2>2 DEF TypeOK
    <2> QED
      BY <2>2, <2>3, TtlAssumption, FailuresAssumption DEF Expired, PendingSource
  <1>2. IInv /\ [Next]_vars => [\A b \in Ids : OpensFresh(b)]_vars
    BY <1>1
  <1> QED
    BY <1>2, InvariantHolds, PTL DEF Spec, RedeemsOnlyFresh

\* A finalized policy is never found open again, across the ATTACH included.
THEOREM StaysFinalized == Spec => FinalizedForever
  <1>1. ASSUME IInv, [Next]_vars, NEW b \in Ids
        PROVE  StillFinalized(b)
    <2> TypeOK /\ IdPendingOrLive /\ (pending[b] = None \/ live[b] = None)
      BY <1>1 DEF IInv, IdPendingOrLive
    <2>1. CASE Quiet
      BY <2>1 DEF Quiet, Kept, StillFinalized
    <2>2. ASSUME NEW c \in Ids, NEW i \in Instances, NEW token \in Tokens, Register(c, i, token)
          PROVE  StillFinalized(b)
      <3>1. pending[b] # None => pending[b].reg < nextReg
        BY <1>1 DEF IInv, RegistrationsDistinct
      <3> QED
        BY <2>2, <3>1, RegisterFootprint, RegsAreInts DEF Kept, StillFinalized
    <2>3. ASSUME NEW c \in Ids, NEW i \in Instances, NEW token \in Tokens, NEW main \in BOOLEAN,
                 Redeem(c, token, i, main)
          PROVE  StillFinalized(b)
      BY <2>3, RedeemFootprint DEF Kept, StillFinalized
    <2>4. ASSUME NEW c \in Ids, NEW i \in Instances, FinalizePolicy(c, i)
          PROVE  StillFinalized(b)
      BY <2>4, FinalizeFootprint DEF Kept, StillFinalized
    <2>5. ASSUME NEW c \in Ids, DestroySource(c)
          PROVE  StillFinalized(b)
      BY <2>5, DestroyFootprint DEF StillFinalized
    <2> QED
      BY <1>1, <2>1, <2>2, <2>3, <2>4, <2>5, Steps
  <1>2. IInv /\ [Next]_vars => [\A b \in Ids : StillFinalized(b)]_vars
    BY <1>1
  <1> QED
    BY <1>2, InvariantHolds, PTL DEF Spec, FinalizedForever

--------------------------------------------------------------------------------
(* The registry implements the abstract handshake *)

\* What the abstract variables are in one state.
LEMMA Mapped ==
    ASSUME TypeOK, NEW b \in Ids
    PROVE  /\ OfferedOf(b) = 0 <=> pending[b] = None
           /\ ServingOf(b) = 0 <=> live[b] = None
           /\ OfferedOf(b) \in 0..MaxRegs /\ ServingOf(b) \in 0..MaxRegs
           /\ FrozenOf(b) \in BOOLEAN
  <1>1. pending[b] # None => pending[b] \in PendingSource
    BY DEF TypeOK
  <1>2. live[b] # None => live[b] \in LiveBridge
    BY DEF TypeOK
  <1> QED
    BY <1>1, <1>2, BoundsAssumption DEF OfferedOf, ServingOf, FrozenOf, PendingSource, LiveBridge

\* A registration that is kept is, abstractly, unchanged or expired.
LEMMA KeptMaps ==
    ASSUME IInv, TypeOK', IdPendingOrLive', NEW c \in Ids, Kept(c)
    PROVE  \/ /\ OfferedOf(c)' = OfferedOf(c)
              /\ ServingOf(c)' = ServingOf(c)
              /\ FrozenOf(c)' = FrozenOf(c)
           \/ /\ OfferedOf(c) # 0 /\ OfferedOf(c)' = 0
              /\ ServingOf(c)' = ServingOf(c)
              /\ ~FrozenOf(c)'
  <1> TypeOK /\ (pending[c] = None \/ live[c] = None)
    BY DEF IInv, IdPendingOrLive
  <1>1. OfferedOf(c) = 0 <=> pending[c] = None
    BY Mapped
  <1> QED
    BY <1>1 DEF Kept, OfferedOf, ServingOf, FrozenOf

\* A step of the registry is a step of the handshake.
LEMMA StepMaps ==
    ASSUME IInv, IInv', [Next]_vars
    PROVE  [Handshake!HNext]_(Handshake!hvars)
  <1> TypeOK /\ TypeOK' /\ IdPendingOrLive /\ IdPendingOrLive'
    BY DEF IInv
  <1>0. Handshake!KeepShape
    <2>1. ASSUME NEW b \in Ids
          PROVE  OfferedOf(b)' \in 0..MaxRegs /\ ServingOf(b)' \in 0..MaxRegs /\ FrozenOf(b)' \in BOOLEAN
      BY <2>1, BoundsAssumption DEF OfferedOf, ServingOf, FrozenOf, TypeOK, PendingSource, LiveBridge
    <2> QED
      BY <2>1 DEF Handshake!KeepShape
  <1>1. ASSUME NEW S \in SUBSET Ids, \A c \in Ids \ S : Kept(c)
        PROVE  Handshake!OthersMayExpire(S)
    BY <1>1, KeptMaps DEF Handshake!OthersMayExpire
  <1>2. CASE Quiet
    <2>1. Handshake!Expire
      BY <1>1, <1>2 DEF Quiet, Handshake!Expire
    <2> QED
      BY <1>0, <2>1 DEF Handshake!HNext
  <1>3. ASSUME NEW b \in Ids, NEW i \in Instances, NEW token \in Tokens, Register(b, i, token)
        PROVE  Handshake!HNext
    <2>1. nextReg <= MaxRegs /\ nextReg \in Nat
      BY <1>3, RegsAreInts DEF Register
    <2>2. Handshake!Issue(b)
      BY <1>1, <1>3, <2>1, RegisterFootprint, BoundsAssumption
      DEF Handshake!Issue, OfferedOf, ServingOf, FrozenOf
    <2> QED
      BY <1>0, <2>2 DEF Handshake!HNext
  <1>4. ASSUME NEW b \in Ids, NEW i \in Instances, NEW token \in Tokens, NEW main \in BOOLEAN,
               Redeem(b, token, i, main)
        PROVE  Handshake!HNext
    <2>1. OfferedOf(b) # 0
      BY <1>4, RedeemFootprint, Mapped
    <2>2. Handshake!Attach(b)
      BY <1>1, <1>4, <2>1, RedeemFootprint DEF Handshake!Attach, OfferedOf, ServingOf, FrozenOf
    <2> QED
      BY <1>0, <2>2 DEF Handshake!HNext
  <1>5. ASSUME NEW b \in Ids, NEW i \in Instances, FinalizePolicy(b, i)
        PROVE  Handshake!HNext
    <2>1. OfferedOf(b) # 0 \/ ServingOf(b) # 0
      BY <1>5, FinalizeFootprint, Mapped
    <2>2. Handshake!Freeze(b)
      BY <1>1, <1>5, <2>1, FinalizeFootprint DEF Handshake!Freeze, OfferedOf, ServingOf, FrozenOf
    <2> QED
      BY <1>0, <2>2 DEF Handshake!HNext
  <1>6. ASSUME NEW b \in Ids, DestroySource(b)
        PROVE  Handshake!HNext
    <2>1. ServingOf(b) # 0 /\ pending[b] = None
      BY <1>6, DestroyFootprint, Mapped DEF IdPendingOrLive
    <2>2. Handshake!Release(b)
      BY <1>6, <2>1, DestroyFootprint DEF Handshake!Release, OfferedOf, ServingOf, FrozenOf
    <2> QED
      BY <1>0, <2>2 DEF Handshake!HNext
  <1> QED
    BY <1>2, <1>3, <1>4, <1>5, <1>6, Steps

\* BridgeRegistry implements BridgeHandshake: the registry never shows its users anything but one
\* registration per id, attached at most once, released for good, finalized for good.
THEOREM RefinesHandshake == Spec => ImplementsHandshake
  <1>1. Init => Handshake!HInit
    BY DEF Init, Handshake!HInit, OfferedOf, ServingOf, FrozenOf
  <1>2. IInv /\ IInv' /\ [Next]_vars => [Handshake!HNext]_(Handshake!hvars)
    BY StepMaps
  <1> QED
    BY <1>1, <1>2, InvariantHolds, PTL DEF Spec, ImplementsHandshake, Handshake!HSpec

================================================================================
