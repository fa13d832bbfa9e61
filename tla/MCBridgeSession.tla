---------------------------- MODULE MCBridgeSession ----------------------------
(* BridgeSession for TLC: two target transactions, two names, so that a rename *)
(* has somewhere to go and a name can be taken by both.                        *)
EXTENDS BridgeSession, TLC

Interchangeable == Permutations(Sessions) \cup Permutations(Names)

================================================================================
