---------------------------- MODULE BridgeHandshake ----------------------------
(***************************************************************************)
(* What the bridge registry promises, without saying how: registrations    *)
(* are numbered as they are issued, each is bound to one bridge id, an id   *)
(* carries at most one registration at a time, a registration is attached   *)
(* at most once and never comes back once it is lost or released, and a     *)
(* finalized policy stays finalized from registration to release.           *)
(*                                                                         *)
(* BridgeRegistry implements this module under the mapping given there.     *)
(***************************************************************************)
EXTENDS Integers

CONSTANTS
    Ids,      \* bridge ids
    MaxRegs   \* bound on the registrations issued

VARIABLES
    offered,  \* offered[b]: the number of the registration waiting under b, 0 if none
    serving,  \* serving[b]: the number of the registration attached under b, 0 if none
    frozen,   \* frozen[b]: the policy of the registration under b is finalized
    issued    \* how many registrations were ever issued

hvars == <<offered, serving, frozen, issued>>

HInit ==
    /\ offered = [b \in Ids |-> 0]
    /\ serving = [b \in Ids |-> 0]
    /\ frozen = [b \in Ids |-> FALSE]
    /\ issued = 0

\* Apart from the ids in S, a step may lose registrations that wait, with their policy, and
\* changes nothing else about them.
OthersMayExpire(S) ==
    \A b \in Ids \ S :
        \/ UNCHANGED <<offered[b], serving[b], frozen[b]>>
        \/ /\ offered[b] # 0
           /\ offered'[b] = 0
           /\ serving'[b] = serving[b]
           /\ ~frozen'[b]

KeepShape ==
    /\ offered' \in [Ids -> 0..MaxRegs]
    /\ serving' \in [Ids -> 0..MaxRegs]
    /\ frozen' \in [Ids -> BOOLEAN]

\* A fresh number for an id that serves nothing.
Issue(b) ==
    /\ serving[b] = 0 /\ serving'[b] = 0
    /\ issued < MaxRegs
    /\ issued' = issued + 1
    /\ offered'[b] = issued'
    /\ ~frozen'[b]
    /\ OthersMayExpire({b})

Expire ==
    /\ OthersMayExpire({})
    /\ UNCHANGED issued

\* The registration waiting under b, with the policy it has, becomes the one b serves.
Attach(b) ==
    /\ offered[b] # 0 /\ offered'[b] = 0
    /\ serving[b] = 0 /\ serving'[b] = offered[b]
    /\ frozen'[b] = frozen[b]
    /\ OthersMayExpire({b})
    /\ UNCHANGED issued

Freeze(b) ==
    /\ offered[b] # 0 \/ serving[b] # 0
    /\ ~frozen[b] /\ frozen'[b]
    /\ UNCHANGED <<offered[b], serving[b]>>
    /\ OthersMayExpire({b})
    /\ UNCHANGED issued

Release(b) ==
    /\ serving[b] # 0 /\ serving'[b] = 0
    /\ offered[b] = 0 /\ offered'[b] = 0
    /\ ~frozen'[b]
    /\ \A c \in Ids \ {b} : UNCHANGED <<offered[c], serving[c], frozen[c]>>
    /\ UNCHANGED issued

HNext ==
    /\ KeepShape
    /\ \/ Expire
       \/ \E b \in Ids : Issue(b) \/ Attach(b) \/ Freeze(b) \/ Release(b)

HSpec == HInit /\ [][HNext]_hvars

================================================================================
