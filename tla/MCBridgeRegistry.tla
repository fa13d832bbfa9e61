--------------------------- MODULE MCBridgeRegistry ---------------------------
(* BridgeRegistry for TLC: two ids on two instances, so that an id can be      *)
(* taken over by another instance and two instances can hold each other open.  *)
EXTENDS BridgeRegistry

================================================================================
