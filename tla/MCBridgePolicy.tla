---------------------------- MODULE MCBridgePolicy ----------------------------
(* BridgePolicy for TLC: a child table with a foreign key to its parent, and a  *)
(* view; one context name, used by a predicate that binds with one of the two   *)
(* values only; the edits that grant, revoke and configure them.                *)
EXTENDS BridgePolicy, TLC

CONSTANTS parent, child, v1, v2, n, byContext

MCTables == {parent, child}
MCFkParents == (parent :> {}) @@ (child :> {parent})
MCUses == (TruePred :> {}) @@ (byContext :> {n})
MCAccepts == (TruePred :> {}) @@ (byContext :> {v1})

GrantVerb(t, v, u, c) ==
    [kind |-> "verb", table |-> t, verb |-> v, granted |-> TRUE, using |-> u, check |-> c]
RevokeVerb(t, v) ==
    [kind |-> "verb", table |-> t, verb |-> v, granted |-> FALSE, using |-> TruePred, check |-> None]

MCDocument ==
    [kind |-> "document", tables |-> {parent, child},
     verbs |-> {GrantVerb(parent, "select", TruePred, None),
                GrantVerb(parent, "drop", TruePred, None),
                GrantVerb(child, "update", byContext, None)},
     keys |-> {child}, foreign_keys |-> [t \in MCTables |-> {}],
     create |-> TRUE, builtins |-> TRUE, add |-> {}, remove |-> {}]

PolicyEdits ==
    {GrantVerb(parent, "select", TruePred, None),
     GrantVerb(parent, "select", byContext, None),
     RevokeVerb(parent, "select"),
     GrantVerb(child, "insert", TruePred, byContext),
     RevokeVerb(child, "insert"),
     GrantVerb(child, "alter", byContext, None),
     [kind |-> "foreign_keys", table |-> child, op |-> "add", parents |-> {parent}],
     [kind |-> "foreign_keys", table |-> child, op |-> "remove", parents |-> {parent}],
     [kind |-> "key", table |-> child, set |-> TRUE],
     [kind |-> "create", granted |-> TRUE],
     [kind |-> "whitelist", op |-> "set", names |-> {"abs"}],
     MCDocument}

RaceEdits == {GrantVerb(parent, "select", byContext, None)}

================================================================================
