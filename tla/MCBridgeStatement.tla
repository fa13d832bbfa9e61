--------------------------- MODULE MCBridgeStatement ---------------------------
(* BridgeStatement for TLC: a table in each of two schemas; a predicate on a     *)
(* column, one on a context value that is set from the start and one on a value  *)
(* the owner may set later; one statement of each kind.                          *)
EXTENDS BridgeStatement, TLC

CONSTANTS orders, items, sales, stock, region, tenant, v1, v2, byColumn, byRegion, byTenant, k, src, alt, other

MCSchemaOf == (orders :> sales) @@ (items :> stock)
MCUses == (TruePred :> {}) @@ (byColumn :> {}) @@ (byRegion :> {region}) @@ (byTenant :> {tenant})
MCFoldsWith == (TruePred :> {}) @@ (byColumn :> {}) @@ (byRegion :> {v1}) @@ (byTenant :> {})
MCMentions == (TruePred :> {}) @@ (byColumn :> {k}) @@ (byRegion :> {}) @@ (byTenant :> {k})

Each(granted, p) == [v \in Verbs |-> IF v \in granted THEN p ELSE None]

\* Every verb under one predicate; a table the target created.
Policied(p) ==
    [verbs |-> Verbs, using |-> [v \in Verbs |-> IF v = "insert" THEN TruePred ELSE p],
     check |-> Each({"insert", "update"}, p), key |-> {}]
ReadOnly(p) ==
    [verbs |-> {"select"}, using |-> Each({"select"}, p), check |-> Each({}, None), key |-> {k}]
Mixed ==
    [verbs |-> {"select", "update", "alter"},
     using |-> [v \in Verbs |-> CASE v = "select" -> byColumn [] v = "update" -> byRegion
                                  [] v = "alter" -> TruePred [] OTHER -> None],
     check |-> Each({"update"}, TruePred), key |-> {k}]
Created == [verbs |-> Verbs, using |-> Each({}, None), check |-> Each({}, None), key |-> {}]

MCGrants == (orders :> {Policied(byRegion), Mixed}) @@ (items :> {ReadOnly(byTenant), ReadOnly(byRegion)})

Interchangeable == Permutations(CatalogNames)

\* A policy that binds with the context; a table the target created beside a policy that uses a name
\* without a value.
MCBooks ==
    [grants: {(orders :> Policied(byRegion)) @@ (items :> None),
              (orders :> Created) @@ (items :> ReadOnly(byTenant))},
     values: {(region :> v1) @@ (tenant :> Unset)}]

Of(kind, floors, reads, column, expression) ==
    [kind |-> kind, table |-> orders, floors |-> floors, reads_rows |-> reads,
     column |-> column, expression |-> expression]

MCStatements ==
    {Of("select", <<orders, items>>, FALSE, None, FALSE),
     [Of("select", <<items>>, FALSE, None, FALSE) EXCEPT !.table = items],
     Of("insert", <<items>>, FALSE, None, FALSE),
     Of("update", <<>>, TRUE, None, FALSE),
     Of("delete", <<>>, FALSE, None, FALSE),
     Of("alter", <<>>, FALSE, k, FALSE),
     Of("alter", <<>>, FALSE, None, TRUE)}

================================================================================
