--------------------------- MODULE MCProviderCatalog ---------------------------
(* ProviderCatalog for TLC: one table, two threads, two generations, so that a  *)
(* second provider, a change of the first or an ALTER makes an answer old.      *)
EXTENDS ProviderCatalog, TLC

CONSTANT orders

MCTables == {orders}
MCContent == [g \in 0..MaxGeneration |-> IF g = 0 THEN {} ELSE {orders}]

Interchangeable == Permutations(Threads)

================================================================================
