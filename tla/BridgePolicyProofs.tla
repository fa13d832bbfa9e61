--------------------------- MODULE BridgePolicyProofs ---------------------------
(***************************************************************************)
(* Proofs about BridgePolicy, for every set of clients, tables, predicates,  *)
(* context names and edits.  They build on the registry's: a step of the     *)
(* policy functions is a step of BridgeRegistry.                             *)
(***************************************************************************)
EXTENDS BridgePolicy, BridgeRegistryProofs

--------------------------------------------------------------------------------
(* What an edit makes of a policy *)

\* The kinds of edit and their fields.
LEMMA EditFields ==
    ASSUME NEW e \in Edits
    PROVE  /\ e.kind \in {"verb", "key", "foreign_keys", "create", "whitelist", "document"}
           /\ e.kind = "verb" => e \in VerbEdit
           /\ e.kind = "key" => e.table \in Tables /\ e.set \in BOOLEAN
           /\ e.kind = "foreign_keys" =>
                 e.table \in Tables /\ e.op \in ListOps /\ e.parents \subseteq Tables
           /\ e.kind = "create" => e.granted \in BOOLEAN
           /\ e.kind = "whitelist" => e.op \in ListOps /\ e.names \subseteq Functions
           /\ e.kind = "document" => e \in DocumentEdit
  <1>1. e \in Edit
    BY EditsAssumption
  <1> QED
    BY <1>1 DEF Edit, VerbEdit, DocumentEdit

\* The fields of a grant or a revocation, and the predicates it installs.
LEMMA VerbEditFields ==
    ASSUME NEW e \in VerbEdit
    PROVE  /\ e.table \in Tables /\ e.verb \in Verbs /\ e.granted \in BOOLEAN
           /\ e.using \in Preds /\ e.check \in Preds \cup {None}
           /\ UsingOf(e) \in {e.using, None} /\ CheckOf(e) \in {e.using, e.check}
  BY DEF VerbEdit, UsingOf, CheckOf

\* A table's entry before any verb is granted.
LEMMA NoGrantType == NoGrant \in SourceGrant
  BY DEF NoGrant, SourceGrant

\* One verb of a grant is set or taken away.
LEMMA InstallVerbType ==
    ASSUME NEW grant \in SourceGrant, NEW e \in VerbEdit
    PROVE  /\ InstallVerb(grant, e) \in SourceGrant
           /\ \A v \in Verbs :
                 /\ InstallVerb(grant, e).using[v] \in
                       {grant.using[v], None} \cup IF e.granted THEN {e.using} ELSE {}
                 /\ InstallVerb(grant, e).check[v] \in
                       {grant.check[v], None} \cup IF e.granted THEN {e.using, e.check} ELSE {}
  <1> DEFINE verbs == IF e.granted THEN grant.verbs \cup {e.verb} ELSE grant.verbs \ {e.verb}
             using == [grant.using EXCEPT ![e.verb] = IF e.granted THEN UsingOf(e) ELSE None]
             check == [grant.check EXCEPT ![e.verb] = IF e.granted THEN CheckOf(e) ELSE None]
             all == IF e.verb = "select" THEN e.granted /\ e.using = TruePred
                    ELSE grant.select_unrestricted
             new == [grant EXCEPT !.verbs = verbs, !.using = using, !.check = check,
                                  !.select_unrestricted = all]
  <1>1. InstallVerb(grant, e) = new
    BY DEF InstallVerb
  <1>2. grant.using \in [Verbs -> Preds \cup {None}] /\ grant.check \in [Verbs -> Preds \cup {None}]
    BY DEF SourceGrant
  <1>3. using \in [Verbs -> Preds \cup {None}] /\ check \in [Verbs -> Preds \cup {None}]
    BY <1>2, VerbEditFields
  <1>4. verbs \in SUBSET Verbs
    BY VerbEditFields DEF SourceGrant
  <1>5. all \in BOOLEAN
    <2>1. e.granted \in BOOLEAN /\ grant.select_unrestricted \in BOOLEAN
      BY VerbEditFields DEF SourceGrant
    <2> QED
      BY <2>1
  <1>6. ASSUME NEW v \in Verbs
        PROVE  /\ using[v] \in {grant.using[v], None} \cup IF e.granted THEN {e.using} ELSE {}
               /\ check[v] \in {grant.check[v], None} \cup IF e.granted THEN {e.using, e.check} ELSE {}
    BY <1>2, VerbEditFields
  <1> HIDE DEF verbs, using, check, all
  <1>7. new \in SourceGrant /\ new.using = using /\ new.check = check
    BY <1>3, <1>4, <1>5 DEF SourceGrant
  <1> HIDE DEF new
  <1> QED
    BY <1>1, <1>6, <1>7

\* The predicates an edit brings along.
EditPreds(e) ==
    (CASE e.kind = "verb" -> IF e.granted THEN {e.using, e.check} ELSE {}
       [] e.kind = "document" -> {g.using : g \in e.verbs} \cup {g.check : g \in e.verbs}
       [] OTHER -> {}) \ {None}

\* Where the predicates of a policy are.
LEMMA PredsOfIs ==
    ASSUME NEW state, NEW p
    PROVE  p \in PredsOf(state) <=>
              p # None /\ \E t \in Tables, v \in Verbs :
                  /\ state.tables[t] # None
                  /\ p = state.tables[t].using[v] \/ p = state.tables[t].check[v]
  BY DEF PredsOf

\* grant has no predicates but those of old (or of nothing) and those in P.
Inherits(grant, old, P) ==
    \A v \in Verbs : /\ grant.using[v] \in P \cup {None} \cup IF old = None THEN {} ELSE {old.using[v]}
                     /\ grant.check[v] \in P \cup {None} \cup IF old = None THEN {} ELSE {old.check[v]}

\* A change of one table's grant: the policy stays one, and brings only the edit's predicates.
LEMMA OneTable ==
    ASSUME NEW state \in PolicyState, NEW t \in Tables, NEW grant \in SourceGrant \cup {None}, NEW P,
           None \notin P, grant # None => Inherits(grant, state.tables[t], P)
    PROVE  LET new == [state EXCEPT !.tables[t] = grant]
           IN  new \in PolicyState /\ PredsOf(new) \subseteq PredsOf(state) \cup P
  <1> DEFINE new == [state EXCEPT !.tables[t] = grant]
  <1>1. state.tables \in [Tables -> SourceGrant \cup {None}]
    BY DEF PolicyState
  <1>2. new.tables = [state.tables EXCEPT ![t] = grant] /\ new \in PolicyState
    BY <1>1 DEF PolicyState
  <1>3. \A u \in Tables : new.tables[u] = IF u = t THEN grant ELSE state.tables[u]
    BY <1>1, <1>2
  <1> HIDE DEF new
  <1>4. ASSUME NEW p \in PredsOf(new) PROVE p \in PredsOf(state) \cup P
    <2>1. PICK u \in Tables, v \in Verbs :
             new.tables[u] # None /\ (p = new.tables[u].using[v] \/ p = new.tables[u].check[v])
      BY <1>4, PredsOfIs
    <2>2. p # None
      BY <1>4, PredsOfIs
    <2>3. CASE u # t
      BY <1>3, <2>1, <2>2, <2>3, PredsOfIs
    <2>4. CASE u = t
      <3>1. grant # None /\ (p = grant.using[v] \/ p = grant.check[v])
        BY <1>3, <2>1, <2>4
      <3>2. \/ p \in P
            \/ /\ state.tables[t] # None
               /\ p = state.tables[t].using[v] \/ p = state.tables[t].check[v]
        BY <2>2, <3>1 DEF Inherits
      <3> QED
        BY <2>2, <3>2, PredsOfIs
    <2> QED
      BY <2>3, <2>4
  <1> QED
    BY <1>2, <1>4 DEF new

\* The edit of a verb.
LEMMA EditVerbType ==
    ASSUME NEW state \in PolicyState, NEW e \in VerbEdit, e.kind = "verb"
    PROVE  /\ EditVerb(state, e) \in PolicyState
           /\ PredsOf(EditVerb(state, e)) \subseteq PredsOf(state) \cup EditPreds(e)
  <1> DEFINE t == e.table
             P == EditPreds(e)
             old == state.tables[t]
             found == [GrantOrNew(state, t) EXCEPT !.foreign_key_parents = FkParents[t]]
  <1>1. t \in Tables /\ None \notin P /\ FkParents[t] \subseteq Tables
    BY VerbEditFields, PolicyAssumption DEF EditPreds
  <1>2. old \in SourceGrant \cup {None}
    BY <1>1 DEF PolicyState
  <1>3. P = IF e.granted THEN {e.using, e.check} \ {None} ELSE {}
    BY DEF EditPreds
  <1> HIDE DEF P
  <1>4. CASE e.granted
    <2>1. /\ GrantOrNew(state, t) \in SourceGrant
          /\ old # None => GrantOrNew(state, t) = old
          /\ old = None => GrantOrNew(state, t) = NoGrant
      BY <1>2, NoGrantType DEF GrantOrNew
    <2>2. /\ found \in SourceGrant /\ found.using = GrantOrNew(state, t).using
          /\ found.check = GrantOrNew(state, t).check
      BY <1>1, <2>1 DEF SourceGrant
    <2> HIDE DEF found
    <2>3. Inherits(InstallVerb(found, e), old, P)
      <3>1. \A v \in Verbs : /\ found.using[v] \in {None} \cup IF old = None THEN {} ELSE {old.using[v]}
                             /\ found.check[v] \in {None} \cup IF old = None THEN {} ELSE {old.check[v]}
        BY <2>1, <2>2 DEF NoGrant
      <3>2. ASSUME NEW v \in Verbs
            PROVE  /\ InstallVerb(found, e).using[v] \in {found.using[v], None, e.using}
                   /\ InstallVerb(found, e).check[v] \in {found.check[v], None, e.using, e.check}
        BY <1>4, <2>2, InstallVerbType
      <3>3. {e.using, e.check} \subseteq P \cup {None}
        BY <1>3, <1>4
      <3> HIDE DEF old
      <3> QED
        BY <3>1, <3>2, <3>3 DEF Inherits
    <2>4. EditVerb(state, e) = [state EXCEPT !.tables[t] = InstallVerb(found, e)]
      BY <1>4 DEF EditVerb, found
    <2> DEFINE g == InstallVerb(found, e)
    <2>5. g \in SourceGrant
      BY <2>2, InstallVerbType
    <2> HIDE DEF g
    <2>6. LET new == [state EXCEPT !.tables[t] = g]
          IN  new \in PolicyState /\ PredsOf(new) \subseteq PredsOf(state) \cup P
      BY <1>1, <2>3, <2>5, OneTable DEF g
    <2> QED
      BY <2>4, <2>6 DEF P, g
  <1>5. CASE ~e.granted /\ old = None
    BY <1>5 DEF EditVerb
  <1>6. CASE ~e.granted /\ old # None
    <2> DEFINE revoked == InstallVerb(old, e)
               new == IF revoked.verbs = {} THEN None ELSE revoked
    <2>1. EditVerb(state, e) = [state EXCEPT !.tables[t] = new]
      BY <1>6 DEF EditVerb
    <2>2. revoked \in SourceGrant
      BY <1>2, <1>6, InstallVerbType
    <2>3. ASSUME NEW v \in Verbs
          PROVE  revoked.using[v] \in {old.using[v], None} /\ revoked.check[v] \in {old.check[v], None}
      BY <1>2, <1>6, InstallVerbType
    <2> HIDE DEF revoked
    <2>4. Inherits(revoked, old, P)
      BY <1>6, <2>3 DEF Inherits
    <2>5. new \in SourceGrant \cup {None} /\ (new # None => Inherits(new, old, P))
      BY <2>2, <2>4
    <2> HIDE DEF new
    <2> QED
      BY <1>1, <2>1, <2>5, OneTable DEF P
  <1> QED
    BY <1>4, <1>5, <1>6

\* A grant with another key or other allowed foreign keys has the predicates it had.
LEMMA SettingsInherit ==
    ASSUME NEW state \in PolicyState, NEW t \in Tables, NEW grant \in SourceGrant,
           grant.using = GrantOrNew(state, t).using, grant.check = GrantOrNew(state, t).check
    PROVE  LET new == [state EXCEPT !.tables[t] = grant]
           IN  new \in PolicyState /\ PredsOf(new) \subseteq PredsOf(state)
  <1>1. Inherits(grant, state.tables[t], {})
    BY DEF Inherits, GrantOrNew, NoGrant
  <1> QED
    BY <1>1, OneTable

\* GrantToConfigure hands out a grant.
LEMMA GrantOrNewType ==
    ASSUME NEW state \in PolicyState, NEW t \in Tables
    PROVE  GrantOrNew(state, t) \in SourceGrant
  BY NoGrantType DEF GrantOrNew, PolicyState

\* The edit of a key keeps the predicates.
LEMMA EditKeyType ==
    ASSUME NEW state \in PolicyState, NEW e \in Edits, e.kind = "key", NEW isLive,
           EditKey(state, e, isLive) # None
    PROVE  /\ EditKey(state, e, isLive) \in PolicyState
           /\ PredsOf(EditKey(state, e, isLive)) \subseteq PredsOf(state)
  <1> DEFINE t == e.table
             new == EditKey(state, e, isLive)
  <1>1. t \in Tables /\ e.set \in BOOLEAN
    BY EditFields
  <1>2. ASSUME state.tables[t] = None, new # state
        PROVE  new = [state EXCEPT !.tables[t] = [NoGrant EXCEPT !.key_set = TRUE]]
    BY <1>2 DEF EditKey
  <1>3. ASSUME state.tables[t] # None
        PROVE  new = [state EXCEPT !.tables[t] = [state.tables[t] EXCEPT !.key_set = e.set]]
    BY <1>3 DEF EditKey
  <1> HIDE DEF new
  <1>4. CASE state.tables[t] = None /\ new # state
    <2> DEFINE g == [NoGrant EXCEPT !.key_set = TRUE]
    <2>1. g \in SourceGrant /\ g.using = NoGrant.using /\ g.check = NoGrant.check
      BY NoGrantType DEF SourceGrant
    <2>2. new = [state EXCEPT !.tables[t] = g]
      BY <1>2, <1>4
    <2>3. GrantOrNew(state, t) = NoGrant
      BY <1>4 DEF GrantOrNew
    <2> HIDE DEF g
    <2>4. new \in PolicyState /\ PredsOf(new) \subseteq PredsOf(state)
      BY <1>1, <2>1, <2>2, <2>3, SettingsInherit
    <2> QED
      BY <2>4 DEF new
  <1>5. CASE state.tables[t] # None
    <2>1. state.tables[t] \in SourceGrant
      BY <1>1, <1>5 DEF PolicyState
    <2> DEFINE g == [state.tables[t] EXCEPT !.key_set = e.set]
    <2>2. g \in SourceGrant /\ g.using = state.tables[t].using /\ g.check = state.tables[t].check
      BY <1>1, <2>1 DEF SourceGrant
    <2>3. new = [state EXCEPT !.tables[t] = g]
      BY <1>3, <1>5
    <2>4. GrantOrNew(state, t) = state.tables[t]
      BY <1>5 DEF GrantOrNew
    <2> HIDE DEF g
    <2>5. new \in PolicyState /\ PredsOf(new) \subseteq PredsOf(state)
      BY <1>1, <2>2, <2>3, <2>4, SettingsInherit
    <2> QED
      BY <2>5 DEF new
  <1> QED
    BY <1>4, <1>5 DEF new

\* So does the edit of the allowed foreign keys.
LEMMA EditForeignKeysType ==
    ASSUME NEW state \in PolicyState, NEW e \in Edits, e.kind = "foreign_keys", NEW isLive,
           EditForeignKeys(state, e, isLive) # None
    PROVE  /\ EditForeignKeys(state, e, isLive) \in PolicyState
           /\ PredsOf(EditForeignKeys(state, e, isLive)) \subseteq PredsOf(state)
  <1> DEFINE t == e.table
             old == GrantOrNew(state, t)
             after == AllowedAfter(e, old.allowed_foreign_keys)
             new == EditForeignKeys(state, e, isLive)
             grant == [old EXCEPT !.allowed_foreign_keys = after]
  <1>1. t \in Tables /\ e.op \in {"set", "add", "remove"} /\ e.parents \subseteq Tables
    BY EditFields DEF ListOps
  <1>2. old \in SourceGrant
    BY <1>1, GrantOrNewType
  <1>3. after \subseteq Tables
    BY <1>1, <1>2 DEF AllowedAfter, SourceGrant
  <1>4. new = state \/ new = [state EXCEPT !.tables[t] = grant]
    BY DEF EditForeignKeys
  <1> HIDE DEF new, after, old
  <1>5. grant \in SourceGrant /\ grant.using = old.using /\ grant.check = old.check
    BY <1>2, <1>3 DEF SourceGrant
  <1> HIDE DEF grant
  <1>6. CASE new = [state EXCEPT !.tables[t] = grant]
    BY <1>1, <1>5, <1>6, SettingsInherit DEF new, old
  <1> QED
    BY <1>4, <1>6 DEF new

\* A change of the function whitelist leaves a whitelist.
LEMMA FunctionListType ==
    ASSUME NEW functions \in FunctionGrants, NEW op \in ListOps, NEW names \in SUBSET Functions
    PROVE  ApplyFunctionList(functions, op, names) \in FunctionGrants
  BY DEF ApplyFunctionList, FunctionGrants, ListOps

\* A document is a policy of its own; its predicates are those of its verbs.
LEMMA DocumentType ==
    ASSUME NEW e \in DocumentEdit, e.kind = "document"
    PROVE  Document(e) \in PolicyState /\ PredsOf(Document(e)) \subseteq EditPreds(e)
  <1> DEFINE Given(t, v) == CHOOSE g \in e.verbs : g.table = t /\ g.verb = v
             Has(t, v) == \E g \in e.verbs : g.table = t /\ g.verb = v
             using(t) == [v \in Verbs |-> IF Has(t, v) THEN UsingOf(Given(t, v)) ELSE None]
             check(t) == [v \in Verbs |-> IF Has(t, v) THEN CheckOf(Given(t, v)) ELSE None]
             verbs(t) == {g.verb : g \in {h \in e.verbs : h.table = t}}
             all(t) == \E g \in e.verbs : g.table = t /\ g.verb = "select" /\ g.using = TruePred
             key(t) == t \in e.keys
             grant(t) == [NoGrant EXCEPT !.foreign_key_parents = FkParents[t], !.verbs = verbs(t),
                                         !.using = using(t), !.check = check(t),
                                         !.select_unrestricted = all(t), !.key_set = key(t),
                                         !.allowed_foreign_keys = e.foreign_keys[t]]
             tables == [t \in Tables |-> IF t \in e.tables THEN grant(t) ELSE None]
             functions == ApplyFunctionList(
                 ApplyFunctionList([builtins |-> e.builtins, allowed |-> {}, disallowed |-> {}],
                                   "add", e.add), "remove", e.remove)
  <1>1. Document(e) = [tables |-> tables, create |-> e.create, functions |-> functions]
    BY DEF Document
  <1>2. /\ e.tables \subseteq Tables /\ e.verbs \subseteq VerbEdit /\ e.keys \subseteq Tables
        /\ e.foreign_keys \in [Tables -> SUBSET Tables] /\ e.create \in BOOLEAN
        /\ e.builtins \in BOOLEAN /\ e.add \subseteq Functions /\ e.remove \subseteq Functions
    BY DEF DocumentEdit
  <1>3. functions \in FunctionGrants
    <2>1. [builtins |-> e.builtins, allowed |-> {}, disallowed |-> {}] \in FunctionGrants
      BY <1>2 DEF FunctionGrants
    <2> QED
      BY <1>2, <2>1, FunctionListType DEF ListOps
  <1>4. ASSUME NEW t, NEW v \in Verbs
        PROVE  /\ using(t)[v] \in {None} \cup {g.using : g \in e.verbs}
               /\ check(t)[v] \in {None} \cup {g.using : g \in e.verbs} \cup {g.check : g \in e.verbs}
    <2>1. CASE Has(t, v)
      <3>1. Given(t, v) \in e.verbs
        BY <2>1
      <3>2. Given(t, v) \in VerbEdit
        BY <1>2, <3>1
      <3> HIDE DEF Given
      <3>3. /\ UsingOf(Given(t, v)) \in {Given(t, v).using, None}
            /\ CheckOf(Given(t, v)) \in {Given(t, v).using, Given(t, v).check}
        BY <3>2, VerbEditFields
      <3> HIDE DEF Has
      <3> QED
        BY <2>1, <3>1, <3>3
    <2>2. CASE ~Has(t, v)
      <3> HIDE DEF Has
      <3> QED
        BY <2>2
    <2> QED
      BY <2>1, <2>2
  <1>5. /\ {g.using : g \in e.verbs} \subseteq Preds
        /\ {g.check : g \in e.verbs} \subseteq Preds \cup {None}
    BY <1>2, VerbEditFields
  <1>6. ASSUME NEW t
        PROVE  using(t) \in [Verbs -> Preds \cup {None}] /\ check(t) \in [Verbs -> Preds \cup {None}]
    <2>1. \A v \in Verbs : using(t)[v] \in Preds \cup {None} /\ check(t)[v] \in Preds \cup {None}
      BY <1>4, <1>5
    <2> HIDE DEF Given, Has
    <2> QED
      BY <2>1
  <1>7. ASSUME NEW t PROVE verbs(t) \in SUBSET Verbs /\ all(t) \in BOOLEAN /\ key(t) \in BOOLEAN
    BY <1>2, VerbEditFields
  <1> HIDE DEF using, check, verbs, all, key
  <1>8. ASSUME NEW t \in Tables
        PROVE  grant(t) \in SourceGrant /\ grant(t).using = using(t) /\ grant(t).check = check(t)
    <2>1. FkParents[t] \in SUBSET Tables /\ e.foreign_keys[t] \in SUBSET Tables
      BY <1>2, PolicyAssumption
    <2> QED
      BY <1>6, <1>7, <2>1, NoGrantType DEF SourceGrant
  <1> HIDE DEF grant, functions
  <1>9. tables \in [Tables -> SourceGrant \cup {None}]
    BY <1>8
  <1>10. Document(e) \in PolicyState /\ Document(e).tables = tables
    <2> HIDE DEF tables
    <2> QED
      BY <1>1, <1>2, <1>3, <1>9 DEF PolicyState
  <1>11. ASSUME NEW p \in PredsOf(Document(e)) PROVE p \in EditPreds(e)
    <2>1. PICK t \in Tables, v \in Verbs :
             tables[t] # None /\ (p = tables[t].using[v] \/ p = tables[t].check[v])
      BY <1>10, <1>11, PredsOfIs
    <2>2. p # None
      BY <1>11, PredsOfIs
    <2>3. p = using(t)[v] \/ p = check(t)[v]
      BY <1>8, <2>1
    <2>4. p \in {g.using : g \in e.verbs} \cup {g.check : g \in e.verbs}
      BY <1>4, <2>2, <2>3
    <2>5. EditPreds(e) = ({g.using : g \in e.verbs} \cup {g.check : g \in e.verbs}) \ {None}
      BY DEF EditPreds
    <2> QED
      BY <2>2, <2>4, <2>5
  <1> QED
    BY <1>10, <1>11

\* Every edit that does not throw leaves a policy, with no predicate but the policy's and the edit's.
LEMMA EditedType ==
    ASSUME NEW state \in PolicyState, NEW e \in Edits, NEW isLive, Edited(state, e, isLive) # None
    PROVE  /\ Edited(state, e, isLive) \in PolicyState
           /\ PredsOf(Edited(state, e, isLive)) \subseteq PredsOf(state) \cup EditPreds(e)
  <1>1. CASE e.kind = "verb"
    <2>1. Edited(state, e, isLive) = EditVerb(state, e)
      BY <1>1 DEF Edited
    <2> QED
      BY <1>1, <2>1, EditFields, EditVerbType
  <1>2. CASE e.kind = "key"
    <2>1. Edited(state, e, isLive) = EditKey(state, e, isLive)
      BY <1>2 DEF Edited
    <2> QED
      BY <1>2, <2>1, EditKeyType
  <1>3. CASE e.kind = "foreign_keys"
    <2>1. Edited(state, e, isLive) = EditForeignKeys(state, e, isLive)
      BY <1>3 DEF Edited
    <2> QED
      BY <1>3, <2>1, EditForeignKeysType
  <1>4. CASE e.kind = "create"
    <2>1. Edited(state, e, isLive) = [state EXCEPT !.create = e.granted]
      BY <1>4 DEF Edited
    <2>2. e.granted \in BOOLEAN
      BY <1>4, EditFields
    <2>3. Edited(state, e, isLive) \in PolicyState /\ Edited(state, e, isLive).tables = state.tables
      BY <2>1, <2>2 DEF PolicyState
    <2> QED
      BY <2>3, PredsOfIs
  <1>5. CASE e.kind = "whitelist"
    <2> DEFINE f == ApplyFunctionList(state.functions, e.op, e.names)
    <2>1. Edited(state, e, isLive) = [state EXCEPT !.functions = f]
      BY <1>5 DEF Edited
    <2>2. state.functions \in FunctionGrants
      BY DEF PolicyState
    <2>3. f \in FunctionGrants
      BY <1>5, <2>2, EditFields, FunctionListType
    <2> HIDE DEF f
    <2>4. Edited(state, e, isLive) \in PolicyState /\ Edited(state, e, isLive).tables = state.tables
      BY <2>1, <2>3 DEF PolicyState
    <2> QED
      BY <2>4, PredsOfIs
  <1>6. CASE e.kind = "document"
    <2>1. Edited(state, e, isLive) = Document(e)
      BY <1>6 DEF Edited
    <2> QED
      BY <1>6, <2>1, EditFields, DocumentType
  <1> QED
    BY <1>1, <1>2, <1>3, <1>4, <1>5, <1>6, EditFields

\* What ResolvePolicy has checked: the edit's predicates bind with the context.
LEMMA ResolvedBinds ==
    ASSUME NEW e \in Edits, NEW vals, Resolvable(e, vals)
    PROVE  \A p \in EditPreds(e) : BindsWith(p, vals)
  <1>1. CASE e.kind = "verb"
    BY <1>1 DEF Resolvable, EditPreds, VerbResolves
  <1>2. CASE e.kind = "document"
    BY <1>2 DEF Resolvable, EditPreds, VerbResolves
  <1>3. CASE e.kind \notin {"verb", "document"}
    BY <1>3 DEF EditPreds
  <1> QED
    BY <1>1, <1>2, <1>3

\* The predicates of policies and edits are predicates.
LEMMA PredsArePreds ==
    ASSUME NEW state \in PolicyState
    PROVE  PredsOf(state) \subseteq Preds
  <1> SUFFICES ASSUME NEW p \in PredsOf(state) PROVE p \in Preds
    OBVIOUS
  <1>1. PICK t \in Tables, v \in Verbs :
           state.tables[t] # None /\ (p = state.tables[t].using[v] \/ p = state.tables[t].check[v])
    BY PredsOfIs
  <1>2. p # None
    BY PredsOfIs
  <1>3. state.tables[t] \in SourceGrant
    BY <1>1 DEF PolicyState
  <1> QED
    BY <1>1, <1>2, <1>3 DEF SourceGrant

--------------------------------------------------------------------------------
(* A step of the policy functions is a step of the registry *)

\* What a client is in the middle of.
LEMMA CallFields ==
    ASSUME PolicyTypeOK, NEW c \in Clients, call[c] # None
    PROVE  /\ call[c] \in Call /\ call[c].db \in Instances /\ call[c].reg \in Regs
           /\ call[c].kind \in {"policy", "context"}
           /\ call[c].kind = "policy" => call[c].id \in Ids /\ call[c].edit \in Edits
           /\ call[c].kind = "context" => /\ call[c].name \in Names /\ call[c].value \in Values
                                          /\ call[c].dependents \subseteq Preds
  <1>1. call[c] \in Call
    BY DEF PolicyTypeOK
  <1> QED
    BY <1>1 DEF Call

\* The registration a successful lookup finds: the one that waits under the id, or else the one that
\* is live under it.
LEMMA LookupFinds ==
    ASSUME TypeOK, NEW b \in Ids, NEW i \in Instances, Touch(b, i)
    PROVE  /\ RegOf(b) \in Regs
           /\ \/ /\ Purged[b] # None /\ pending[b] # None
                 /\ RegOf(b) = pending[b].reg /\ Finalized(b) = pending[b].finalized
              \/ /\ Purged[b] = None /\ live[b] # None
                 /\ RegOf(b) = live[b].reg /\ Finalized(b) = live[b].finalized
  <1>1. CASE Purged[b] # None
    BY <1>1, PurgedEntries DEF RegOf, Finalized, Regs, PendingSource
  <1>2. CASE Purged[b] = None
    <2>1. live[b] \in LiveBridge /\ live[b] # None
      BY <1>2, LiveEntries DEF Touch, PendingForGrant, LiveForGrant, IsLiveBridge
    <2> QED
      BY <1>2, <2>1 DEF RegOf, Finalized, Regs, LiveBridge
  <1> QED
    BY <1>1, <1>2

\* The steps that change a policy, a context or a call, and all the others.
LEMMA PolicySteps ==
    ASSUME [PolicyNext]_allVars
    PROVE  \/ UNCHANGED policyVars
           \/ \E c \in Clients :
                 \/ \E b \in Ids, i \in Instances, e \in Edits : BeginPolicy(c, b, i, e)
                 \/ ResolvePolicy(c) \/ CommitPolicy(c) \/ CommitRefused(c)
                 \/ \E b \in Ids, i \in Instances, n \in Names, v \in Values :
                       BeginSetContext(c, b, i, n, v)
                 \/ ProbeContext(c) \/ InstallContext(c)
           \/ \E b \in Ids, i \in Instances : FinalizeContext(b, i)
  BY DEF PolicyNext, PolicyStep, ContextStep, RegistryStep, RedeemPolicy, CloseIdleInstance,
         allVars, policyVars

\* Whatever a client does in the middle of a call, the registry sees one of its own operations.
LEMMA IsRegistryStep ==
    ASSUME PolicyTypeOK, [PolicyNext]_allVars
    PROVE  [Next]_vars
  <1>1. ASSUME NEW c \in Clients, PolicyStep(c)
        PROVE  [Next]_vars
    <2>1. ASSUME NEW b \in Ids, NEW i \in Instances, NEW e \in Edits, BeginPolicy(c, b, i, e)
          PROVE  [Next]_vars
      BY <2>1 DEF BeginPolicy, Next, OwnerStep
    <2>2. CASE ResolvePolicy(c)
      BY <2>2 DEF ResolvePolicy
    <2>3. CASE CommitPolicy(c)
      <3>1. call[c].id \in Ids /\ call[c].db \in Instances
        BY <2>3, CallFields DEF CommitPolicy
      <3> QED
        BY <2>3, <3>1 DEF CommitPolicy, Next, OwnerStep
    <2>4. CASE CommitRefused(c)
      <3>1. call[c].id \in Ids /\ call[c].db \in Instances
        BY <2>4, CallFields DEF CommitRefused
      <3> QED
        BY <2>4, <3>1 DEF CommitRefused, Next, OwnerStep
    <2> QED
      BY <1>1, <2>1, <2>2, <2>3, <2>4 DEF PolicyStep
  <1>2. ASSUME NEW c \in Clients, ContextStep(c)
        PROVE  [Next]_vars
    <2>1. CASE ProbeContext(c) \/ InstallContext(c)
      BY <2>1 DEF ProbeContext, InstallContext
    <2>2. ASSUME NEW b \in Ids, NEW i \in Instances, NEW n \in Names, NEW v \in Values,
                 BeginSetContext(c, b, i, n, v)
          PROVE  [Next]_vars
      BY <2>2 DEF BeginSetContext, Next, OwnerStep
    <2> QED
      BY <1>2, <2>1, <2>2 DEF ContextStep
  <1>3. ASSUME NEW b \in Ids, NEW i \in Instances, RegistryStep(b, i)
        PROVE  Next
    <2>1. ASSUME NEW token \in Tokens, NEW main \in BOOLEAN,
                 RedeemRefused(b, token, i, main) \/ WrongToken(b, token, i, main)
          PROVE  Next
      BY <2>1 DEF Next, TargetStep
    <2> QED
      BY <1>3, <2>1 DEF RegistryStep, Next, OwnerStep
  <1>4. ASSUME NEW b \in Ids, NEW i \in Instances, FinalizeContext(b, i)
        PROVE  Next
    BY <1>4 DEF FinalizeContext, Next, OwnerStep
  <1>5. ASSUME NEW b \in Ids, NEW i \in Instances, NEW token \in Tokens, NEW main \in BOOLEAN,
               RedeemPolicy(b, token, i, main)
        PROVE  Next
    BY <1>5 DEF RedeemPolicy, Next, TargetStep
  <1>6. ASSUME NEW b \in Ids, CatalogStep(b) PROVE Next
    BY <1>6 DEF Next
  <1>7. ASSUME NEW i \in Instances, CloseIdleInstance(i) PROVE Next
    BY <1>7 DEF CloseIdleInstance, Next
  <1>8. CASE Tick
    BY <1>8 DEF Next
  <1>9. CASE UNCHANGED allVars
    BY <1>9 DEF allVars
  <1> QED
    BY <1>1, <1>2, <1>3, <1>4, <1>5, <1>6, <1>7, <1>8, <1>9 DEF PolicyNext

--------------------------------------------------------------------------------
(* Type correctness *)

\* The policies, contexts and calls of PolicyTypeOK.
PoliciesTypeOK ==
    /\ policy \in [Regs -> PolicyState]
    /\ values \in [Regs -> [Names -> Values \cup {Unset}]]
    /\ ctxFinalized \subseteq Regs
    /\ call \in [Clients -> Call \cup {None}]

\* A fresh process has no grants, no context values and no calls.
LEMMA InitPolicyTypeOK ==
    ASSUME PolicyInit
    PROVE  PolicyTypeOK /\ \A r \in Regs : PredsOf(policy[r]) = {}
  <1>1. EmptyPolicy \in PolicyState
    BY DEF EmptyPolicy, PolicyState, FunctionGrants
  <1>2. PredsOf(EmptyPolicy) = {}
    BY DEF PredsOf, EmptyPolicy
  <1> QED
    BY <1>1, <1>2, InitTypeOK DEF PolicyInit, PolicyTypeOK

\* What CommitPolicy installs is a policy; its predicates are those of the policy it replaces and of
\* the edit.  After ATTACH it holds together.
LEMMA OutcomeIs ==
    ASSUME PolicyTypeOK, NEW b \in Ids, RegOf(b) \in Regs, NEW e \in Edits, Outcome(b, e) # None
    PROVE  /\ Outcome(b, e) \in PolicyState
           /\ PredsOf(Outcome(b, e)) \subseteq PredsOf(policy[RegOf(b)]) \cup EditPreds(e)
           /\ Purged[b] = None => HoldsTogether(Outcome(b, e))
  <1> DEFINE isLive == Purged[b] = None
             state == Edited(policy[RegOf(b)], e, isLive)
  <1>1. state # None /\ Outcome(b, e) = state /\ (isLive => HoldsTogether(state))
    BY DEF Outcome
  <1>2. policy[RegOf(b)] \in PolicyState
    BY DEF PolicyTypeOK
  <1> HIDE DEF isLive
  <1>3. state \in PolicyState /\ PredsOf(state) \subseteq PredsOf(policy[RegOf(b)]) \cup EditPreds(e)
    BY <1>1, <1>2, EditedType
  <1> HIDE DEF state
  <1> QED
    BY <1>1, <1>3 DEF isLive

\* One client's call changes.
LEMMA CallChanges ==
    ASSUME PolicyTypeOK, NEW c \in Clients, NEW new \in Call \cup {None},
           call' = [call EXCEPT ![c] = new], UNCHANGED <<policy, values, ctxFinalized>>
    PROVE  PoliciesTypeOK'
  BY DEF PolicyTypeOK, PoliciesTypeOK

\* Every step keeps the types.
LEMMA NextPolicyTypeOK ==
    ASSUME PolicyTypeOK, [PolicyNext]_allVars
    PROVE  PolicyTypeOK'
  <1> TypeOK
    BY DEF PolicyTypeOK
  <1>1. TypeOK'
    BY IsRegistryStep, NextTypeOK
  <1> SUFFICES PoliciesTypeOK'
    BY <1>1 DEF PoliciesTypeOK, PolicyTypeOK
  <1>2. CASE UNCHANGED policyVars
    BY <1>2 DEF PolicyTypeOK, PoliciesTypeOK, policyVars
  <1>3. ASSUME NEW c \in Clients, NEW b \in Ids, NEW i \in Instances, NEW e \in Edits,
               BeginPolicy(c, b, i, e)
        PROVE  PoliciesTypeOK'
    <2> DEFINE new == [kind |-> "policy", step |-> "resolve", id |-> b, db |-> i,
                       reg |-> RegOf(b), edit |-> e]
    <2>1. RegOf(b) \in Regs
      BY <1>3, LookupFinds DEF BeginPolicy
    <2>2. new \in Call
      BY <2>1 DEF Call
    <2>3. call' = [call EXCEPT ![c] = new] /\ UNCHANGED <<policy, values, ctxFinalized>>
      BY <1>3 DEF BeginPolicy
    <2> QED
      BY <2>2, <2>3, CallChanges
  <1>4. ASSUME NEW c \in Clients, ResolvePolicy(c)
        PROVE  PoliciesTypeOK'
    <2>1. call[c] \in Call /\ call[c].kind = "policy"
      BY <1>4, CallFields DEF ResolvePolicy
    <2>2. [call[c] EXCEPT !.step = "commit"] \in Call
      BY <2>1 DEF Call
    <2>3. \/ call' = [call EXCEPT ![c] = [call[c] EXCEPT !.step = "commit"]]
          \/ call' = [call EXCEPT ![c] = None]
      BY <1>4 DEF ResolvePolicy
    <2>4. UNCHANGED <<policy, values, ctxFinalized>>
      BY <1>4 DEF ResolvePolicy
    <2> QED
      BY <2>2, <2>3, <2>4, CallChanges
  <1>5. ASSUME NEW c \in Clients, CommitPolicy(c)
        PROVE  PoliciesTypeOK'
    <2>1. call[c].id \in Ids /\ call[c].db \in Instances /\ call[c].edit \in Edits
      BY <1>5, CallFields DEF CommitPolicy
    <2>2. RegOf(call[c].id) \in Regs
      BY <1>5, <2>1, LookupFinds DEF CommitPolicy
    <2>3. Outcome(call[c].id, call[c].edit) \in PolicyState
      BY <1>5, <2>1, <2>2, OutcomeIs DEF CommitPolicy
    <2> QED
      BY <1>5, <2>2, <2>3 DEF CommitPolicy, PolicyTypeOK, PoliciesTypeOK
  <1>6. ASSUME NEW c \in Clients, CommitRefused(c)
        PROVE  PoliciesTypeOK'
    BY <1>6, CallChanges DEF CommitRefused
  <1>7. ASSUME NEW c \in Clients, NEW b \in Ids, NEW i \in Instances, NEW n \in Names,
               NEW v \in Values, BeginSetContext(c, b, i, n, v)
        PROVE  PoliciesTypeOK'
    <2> DEFINE deps == {p \in PredsOf(policy[RegOf(b)]) : n \in Uses[p]}
               new == [kind |-> "context", step |-> "probe", db |-> i, reg |-> RegOf(b),
                       name |-> n, value |-> v, dependents |-> deps]
    <2>1. RegOf(b) \in Regs
      BY <1>7, LookupFinds DEF BeginSetContext
    <2>2. deps \subseteq Preds
      BY <2>1, PredsArePreds DEF PolicyTypeOK
    <2>3. call' = [call EXCEPT ![c] = new] /\ UNCHANGED <<policy, values, ctxFinalized>>
      BY <1>7 DEF BeginSetContext
    <2> HIDE DEF deps
    <2>4. new \in Call
      BY <2>1, <2>2 DEF Call
    <2> HIDE DEF new
    <2> QED
      BY <2>3, <2>4, CallChanges
  <1>8. ASSUME NEW c \in Clients, ProbeContext(c)
        PROVE  PoliciesTypeOK'
    <2>1. call[c] \in Call /\ call[c].kind = "context"
      BY <1>8, CallFields DEF ProbeContext
    <2>2. [call[c] EXCEPT !.step = "install"] \in Call
      BY <2>1 DEF Call
    <2>3. \/ call' = [call EXCEPT ![c] = [call[c] EXCEPT !.step = "install"]]
          \/ call' = [call EXCEPT ![c] = None]
      BY <1>8 DEF ProbeContext
    <2>4. UNCHANGED <<policy, values, ctxFinalized>>
      BY <1>8 DEF ProbeContext
    <2> QED
      BY <2>2, <2>3, <2>4, CallChanges
  <1>9. ASSUME NEW c \in Clients, InstallContext(c)
        PROVE  PoliciesTypeOK'
    <2>1. call[c].reg \in Regs /\ call[c].name \in Names /\ call[c].value \in Values
      BY <1>9, CallFields DEF InstallContext
    <2>2. values' \in [Regs -> [Names -> Values \cup {Unset}]]
      BY <1>9, <2>1 DEF InstallContext, PolicyTypeOK
    <2> QED
      BY <1>9, <2>2 DEF InstallContext, PolicyTypeOK, PoliciesTypeOK
  <1>10. ASSUME NEW b \in Ids, NEW i \in Instances, FinalizeContext(b, i)
         PROVE  PoliciesTypeOK'
    <2>1. RegOf(b) \in Regs
      BY <1>10, LookupFinds DEF FinalizeContext
    <2> QED
      BY <1>10, <2>1 DEF FinalizeContext, PolicyTypeOK, PoliciesTypeOK
  <1> QED
    BY <1>2, <1>3, <1>4, <1>5, <1>6, <1>7, <1>8, <1>9, <1>10, PolicySteps

--------------------------------------------------------------------------------
(* What holds whatever calls overlap *)

\* A live policy holds together because a commit reaches one registration only: the number it writes
\* under is no other bridge's, which is the registry's own invariant.
PInv == IInv /\ PolicyTypeOK /\ LivePolicyHolds

\* Only CommitPolicy changes a policy, on the registration its lookup finds, which is open; if that
\* registration is live the new policy holds together.
LEMMA PolicyChanges ==
    ASSUME PolicyTypeOK, [PolicyNext]_allVars
    PROVE  \/ policy' = policy
           \/ /\ live' = live
              /\ \E c \in Clients, b \in Ids, i \in Instances :
                    /\ CommitPolicy(c) /\ b = call[c].id /\ Touch(b, i) /\ ~Finalized(b)
                    /\ policy' = [policy EXCEPT ![RegOf(b)] = policy'[RegOf(b)]]
                    /\ Purged[b] = None => HoldsTogether(policy'[RegOf(b)])
  <1> TypeOK
    BY DEF PolicyTypeOK
  <1>1. ASSUME NEW c \in Clients, CommitPolicy(c)
        PROVE  /\ live' = live
               /\ \E b \in Ids, i \in Instances :
                    /\ b = call[c].id /\ Touch(b, i) /\ ~Finalized(b)
                    /\ policy' = [policy EXCEPT ![RegOf(b)] = policy'[RegOf(b)]]
                    /\ Purged[b] = None => HoldsTogether(policy'[RegOf(b)])
    <2> DEFINE b == call[c].id
               i == call[c].db
    <2>1. b \in Ids /\ i \in Instances /\ call[c].edit \in Edits
      BY <1>1, CallFields DEF CommitPolicy
    <2>2. Touch(b, i) /\ ~Finalized(b)
      BY <1>1 DEF CommitPolicy
    <2>3. RegOf(b) \in Regs
      BY <2>1, <2>2, LookupFinds
    <2> DEFINE new == Outcome(b, call[c].edit)
    <2>4. policy' = [policy EXCEPT ![RegOf(b)] = new] /\ new # None
      BY <1>1 DEF CommitPolicy
    <2>5. Purged[b] = None => HoldsTogether(new)
      BY <2>1, <2>3, <2>4, OutcomeIs
    <2> HIDE DEF new
    <2>6. policy'[RegOf(b)] = new
      BY <2>3, <2>4 DEF PolicyTypeOK
    <2>7. live' = live
      BY <2>2 DEF Touch
    <2> QED
      BY <2>1, <2>2, <2>4, <2>5, <2>6, <2>7
  <1>2. CASE UNCHANGED policyVars
    BY <1>2 DEF policyVars
  <1> QED
    BY <1>1, <1>2, PolicySteps
    DEF BeginPolicy, ResolvePolicy, CommitRefused, BeginSetContext, ProbeContext, InstallContext,
        FinalizeContext

\* A bridge goes live only with a policy that holds together; no other step puts another
\* registration on the live side of an id.
LEMMA GoesLive ==
    ASSUME PInv, [PolicyNext]_allVars, NEW b \in Ids, live'[b] # None
    PROVE  \/ live[b] # None /\ live'[b].reg = live[b].reg
           \/ policy' = policy /\ HoldsTogether(policy[live'[b].reg])
  <1> TypeOK /\ IdPendingOrLive /\ PolicyTypeOK
    BY DEF PInv, IInv
  <1>1. ASSUME NEW t \in Instances, NEW token \in Tokens, NEW main \in BOOLEAN,
               RedeemPolicy(b, token, t, main)
        PROVE  policy' = policy /\ HoldsTogether(policy[live'[b].reg])
    <2>1. live'[b].reg = pending[b].reg /\ Purged[b] = pending[b]
      BY <1>1, RedeemFootprint, PurgedEntries DEF RedeemPolicy, Redeem
    <2> QED
      BY <1>1, <2>1 DEF RedeemPolicy, Attachable, policyVars
  <1>2. ASSUME NEW c \in Ids, NEW t \in Instances, NEW token \in Tokens, NEW main \in BOOLEAN,
               Redeem(c, token, t, main), c # b
        PROVE  live[b] # None /\ live'[b].reg = live[b].reg
    BY <1>2, RedeemFootprint DEF Kept
  <1>3. ASSUME Quiet PROVE live[b] # None /\ live'[b].reg = live[b].reg
    BY <1>3 DEF Quiet, Kept
  <1>4. ASSUME NEW c \in Ids, NEW i \in Instances, NEW token \in Tokens, Register(c, i, token)
        PROVE  live[b] # None /\ live'[b].reg = live[b].reg
    BY <1>4, RegisterFootprint DEF Kept
  <1>5. ASSUME NEW c \in Ids, NEW i \in Instances, FinalizePolicy(c, i)
        PROVE  live[b] # None /\ live'[b].reg = live[b].reg
    BY <1>5, FinalizeFootprint DEF Kept
  <1>6. ASSUME NEW c \in Ids, DestroySource(c)
        PROVE  live[b] # None /\ live'[b].reg = live[b].reg
    BY <1>6, DestroyFootprint
  <1>7. CASE \E t \in Instances, token \in Tokens, main \in BOOLEAN : RedeemPolicy(b, token, t, main)
    BY <1>1, <1>7
  <1>8. CASE live[b] # None
    <2>1. ASSUME NEW t \in Instances, NEW token \in Tokens, NEW main \in BOOLEAN
          PROVE  ~Redeem(b, token, t, main)
      BY <1>8 DEF Redeem, IsLiveBridge
    <2> QED
      BY <1>2, <1>3, <1>4, <1>5, <1>6, <2>1, IsRegistryStep, Steps
  <1>9. CASE /\ live[b] = None
             /\ ~\E t \in Instances, token \in Tokens, main \in BOOLEAN :
                   RedeemPolicy(b, token, t, main)
    <2>1. \E t \in Instances, token \in Tokens, main \in BOOLEAN : Redeem(b, token, t, main)
      BY <1>2, <1>3, <1>4, <1>5, <1>6, <1>9, IsRegistryStep, Steps
    <2>2. live' # live
      BY <1>9
    <2>3. PICK t \in Instances, token \in Tokens, main \in BOOLEAN : Redeem(b, token, t, main)
      BY <2>1
    <2>4. pending[b] # None /\ pending'[b] = None /\ Purged[b] # None
      BY <2>3, RedeemFootprint DEF Redeem
    <2>5. FALSE
      <3>1. CASE \E c \in Ids, i \in Instances : RegistryStep(c, i)
        <4> PICK c \in Ids, i \in Instances : RegistryStep(c, i)
          BY <3>1
        <4>1. CASE FinalizePolicy(c, i)
          BY <1>5, <1>9, <4>1
        <4>2. ASSUME NEW tok, Register(c, i, tok) PROVE FALSE
          BY <2>2, <4>2 DEF Register, NewPending
        <4> QED
          BY <2>2, <4>1, <4>2
          DEF RegistryStep, RegisterRefused, LookupRefused, Touch, RedeemRefused, WrongToken
      <3>2. CASE \E c \in Ids, i \in Instances : FinalizeContext(c, i)
        BY <2>2, <3>2 DEF FinalizeContext, Touch
      <3>3. CASE \E c \in Clients : PolicyStep(c) \/ ContextStep(c)
        BY <2>2, <3>3
        DEF PolicyStep, ContextStep, BeginPolicy, ResolvePolicy, CommitPolicy, CommitRefused,
            BeginSetContext, ProbeContext, InstallContext, Touch, LookupRefused, vars
      <3>4. CASE \E c \in Ids : CatalogStep(c)
        <4>1. ASSUME NEW c \in Ids, BeginTransaction(c) \/ EndTransaction(c) \/ Detach(c) PROVE FALSE
          BY <4>1, <1>9, CatalogUseIsQuiet DEF Quiet, Kept
        <4> QED
          BY <1>6, <1>9, <3>4, <4>1 DEF CatalogStep
      <3>5. CASE (\E i \in Instances : CloseIdleInstance(i)) \/ Tick \/ UNCHANGED allVars
        BY <2>2, <3>5 DEF CloseIdleInstance, CloseInstance, Tick, allVars, vars
      <3>6. ASSUME NEW c \in Ids, NEW t2 \in Instances, NEW tok \in Tokens, NEW m \in BOOLEAN,
                   RedeemPolicy(c, tok, t2, m)
            PROVE  FALSE
        <4>1. CASE c = b
          BY <1>9, <3>6, <4>1
        <4>2. CASE c # b
          BY <1>2, <1>9, <3>6, <4>2 DEF RedeemPolicy
        <4> QED
          BY <4>1, <4>2
      <3> QED
        BY <3>1, <3>2, <3>3, <3>4, <3>5, <3>6 DEF PolicyNext
    <2> QED
      BY <2>5
  <1> QED
    BY <1>7, <1>8, <1>9

\* Every step keeps every live policy together.
LEMMA NextLivePolicyHolds ==
    ASSUME PInv, [PolicyNext]_allVars
    PROVE  LivePolicyHolds'
  <1> IInv /\ PolicyTypeOK /\ TypeOK /\ LivePolicyHolds /\ RegistrationsDistinct
    BY SMTT(30) DEF PInv, IInv
  <1> SUFFICES ASSUME NEW b \in Ids, live'[b] # None
               PROVE  HoldsTogether(policy'[live'[b].reg])
    BY DEF LivePolicyHolds, HoldsTogether, ReadsAll
  <1>1. CASE policy' = policy
    BY <1>1, GoesLive DEF LivePolicyHolds
  <1>2. CASE policy' # policy
    <2>1. live' = live
      BY <1>2, PolicyChanges
    <2>2. PICK d \in Ids, i \in Instances :
             /\ Touch(d, i)
             /\ policy' = [policy EXCEPT ![RegOf(d)] = policy'[RegOf(d)]]
             /\ Purged[d] = None => HoldsTogether(policy'[RegOf(d)])
      BY <1>2, PolicyChanges
    <2>3. live[b].reg \in Regs
      BY <2>1, LiveEntries DEF LiveBridge, Regs
    <2>4. HoldsTogether(policy[live[b].reg])
      BY <2>1 DEF LivePolicyHolds
    <2>5. CASE RegOf(d) # live[b].reg
      BY <2>1, <2>2, <2>3, <2>4, <2>5 DEF PolicyTypeOK
    <2>6. CASE RegOf(d) = live[b].reg
      <3>1. Purged[d] = None
        BY <2>1, <2>2, <2>6, LookupFinds DEF RegistrationsDistinct
      <3> QED
        BY <2>1, <2>2, <2>6, <3>1
    <2> QED
      BY <2>5, <2>6
  <1> QED
    BY <1>1, <1>2

\* The inductive invariant holds in every reachable state.
LEMMA PoliciesAreSound == PolicySpec => []PInv
  <1>1. PolicyInit => PInv
    <2> SUFFICES ASSUME PolicyInit PROVE PInv
      OBVIOUS
    <2>1. Init
      BY DEF PolicyInit
    <2>2. IInv
      BY <2>1, InitTypeOK DEF Init, IInv, IdPendingOrLive, RegistrationsDistinct
    <2>3. LivePolicyHolds
      BY <2>1 DEF Init, LivePolicyHolds
    <2> QED
      BY <2>2, <2>3, InitPolicyTypeOK DEF PInv
  <1>2. PInv /\ [PolicyNext]_allVars => PInv'
    <2> SUFFICES ASSUME PInv, [PolicyNext]_allVars PROVE PInv'
      OBVIOUS
    <2>1. IInv' /\ PolicyTypeOK'
      BY IsRegistryStep, NextTypeOK, NextSafe, NextPolicyTypeOK DEF PInv, IInv
    <2> QED
      BY <2>1, NextLivePolicyHolds DEF PInv
  <1> QED
    BY <1>1, <1>2, PTL DEF PolicySpec

\* The registry, the policies, the contexts and the calls are well typed in every reachable state: an
\* edit that throws leaves nothing behind.
THEOREM PoliciesTypeCorrect == PolicySpec => []PolicyTypeOK
  <1>1. PInv => PolicyTypeOK
    BY DEF PInv
  <1> QED
    BY <1>1, PoliciesAreSound, PTL

\* No sequence of edits, ATTACHes and finalizations, on any number of bridges and from any number of
\* clients at once, leaves a live bridge with a policy that ValidateGrantSet refuses.
THEOREM LivePoliciesHold == PolicySpec => []LivePolicyHolds
  <1>1. PInv => LivePolicyHolds
    BY DEF PInv
  <1> QED
    BY <1>1, PoliciesAreSound, PTL

\* A call that looked its bridge up before vcatbridge_finalize_policy changes nothing after it, and no
\* call for another id reaches the finalized policy.
THEOREM FinalizedPoliciesStay == PolicySpec => FinalizedPolicyIsFrozen
  <1> DEFINE Frozen ==
        \A b \in Ids :
          /\ pending[b] # None /\ pending[b].finalized => policy'[pending[b].reg] = policy[pending[b].reg]
          /\ live[b] # None /\ live[b].finalized => policy'[live[b].reg] = policy[live[b].reg]
  <1>1. PInv /\ [PolicyNext]_allVars => [Frozen]_allVars
    <2> SUFFICES ASSUME PInv, [PolicyNext]_allVars, policy' # policy, NEW b \in Ids
                 PROVE  /\ pending[b] # None /\ pending[b].finalized
                             => policy'[pending[b].reg] = policy[pending[b].reg]
                        /\ live[b] # None /\ live[b].finalized
                             => policy'[live[b].reg] = policy[live[b].reg]
      OBVIOUS
    <2> PolicyTypeOK /\ TypeOK /\ RegistrationsDistinct
      BY DEF PInv, IInv
    <2>1. PICK d \in Ids, i \in Instances :
             Touch(d, i) /\ ~Finalized(d) /\ policy' = [policy EXCEPT ![RegOf(d)] = policy'[RegOf(d)]]
      BY PolicyChanges
    <2>2. pending[b] # None => pending[b].reg \in Regs
      BY DEF TypeOK, PendingSource, Regs
    <2>3. live[b] # None => live[b].reg \in Regs
      BY LiveEntries DEF LiveBridge, Regs
    <2>4. ASSUME pending[b] # None, pending[b].finalized PROVE RegOf(d) # pending[b].reg
      BY <2>1, <2>4, LookupFinds DEF RegistrationsDistinct
    <2>5. ASSUME live[b] # None, live[b].finalized PROVE RegOf(d) # live[b].reg
      BY <2>1, <2>5, LookupFinds DEF RegistrationsDistinct
    <2> QED
      BY <2>1, <2>2, <2>3, <2>4, <2>5 DEF PolicyTypeOK
  <1> QED
    BY <1>1, PoliciesAreSound, PTL DEF PolicySpec, FinalizedPolicyIsFrozen

\* A vcatbridge_set_context that passed its probes before vcatbridge_finalize_context installs nothing
\* after it.
THEOREM FinalizedContextsStay == PolicySpec => FinalizedContextIsFrozen
  <1>1. PInv /\ [PolicyNext]_allVars => [\A r \in ctxFinalized : values'[r] = values[r]]_allVars
    <2> SUFFICES ASSUME PInv, [PolicyNext]_allVars, NEW r \in ctxFinalized
                 PROVE  values'[r] = values[r]
      OBVIOUS
    <2>1. ASSUME NEW c \in Clients, InstallContext(c)
          PROVE  values'[r] = values[r]
      <3>1. r \in Regs /\ values \in [Regs -> [Names -> Values \cup {Unset}]]
        BY DEF PInv, PolicyTypeOK
      <3>2. CASE call[c].reg \in ctxFinalized
        BY <2>1, <3>2 DEF InstallContext
      <3>3. CASE call[c].reg \notin ctxFinalized
        <4>1. values' = [values EXCEPT ![call[c].reg][call[c].name] = call[c].value] /\ r # call[c].reg
          BY <2>1, <3>3 DEF InstallContext
        <4> QED
          BY <3>1, <4>1
      <3> QED
        BY <3>2, <3>3
    <2>2. CASE UNCHANGED policyVars
      BY <2>2 DEF policyVars
    <2> QED
      BY <2>1, <2>2, PolicySteps
      DEF BeginPolicy, ResolvePolicy, CommitPolicy, CommitRefused, BeginSetContext, ProbeContext,
          FinalizeContext
  <1> QED
    BY <1>1, PoliciesAreSound, PTL DEF PolicySpec, FinalizedContextIsFrozen

--------------------------------------------------------------------------------
(* Context values and predicates, while an id keeps its bridge and set_context runs alone *)

\* No bridge is registered anew under the id of a policy call that has been checked and is about to
\* commit: the second lookup, if it finds a bridge, finds the first one's.  CommitPolicy looks up by
\* id and does not compare; without this a predicate checked against one context is stored under
\* another (run MCBridgePolicyReregister).
CallsKeepTheirBridge ==
    \A c \in Clients, b \in Ids :
        call[c] # None /\ call[c].kind = "policy" /\ call[c].step = "commit" /\ call[c].id = b
        /\ (Purged[b] # None \/ live[b] # None) => RegOf(b) = call[c].reg

\* While a client sets a context value of a registration, no other client is in the middle of a
\* policy or context call for it.  Neither function holds a lock from its checks to its change
\* (run MCBridgePolicyRace).  Policy calls may overlap.
ContextCallsRunAlone ==
    \A c, d \in Clients :
        c # d /\ call[c] # None /\ call[d] # None /\ call[c].kind = "context" =>
            call[c].reg # call[d].reg

\* p names no value that is not set.
NamesSet(p, vals) == \A n \in Uses[p] : vals[n] # Unset

\* The predicates of policies, and those on their way into one, name only values that are set.  The
\* claim is about every registration, the unreachable included, as a call may still hold one.
NamesInv ==
    /\ \A r \in Regs : \A p \in PredsOf(policy[r]) : NamesSet(p, values[r])
    /\ \A c \in Clients :
          call[c] # None /\ call[c].kind = "policy" /\ call[c].step = "commit" =>
              \A p \in EditPreds(call[c].edit) : NamesSet(p, values[call[c].reg])

\* The predicates of policies, and those on their way into one, bind with the context; a context call
\* has collected every predicate that uses its name, and past its probes they bind with its value.
BindsInv ==
    /\ \A r \in Regs : \A p \in PredsOf(policy[r]) : BindsWith(p, values[r])
    /\ \A c \in Clients : call[c] # None =>
          /\ call[c].kind = "policy" /\ call[c].step = "commit" =>
                \A p \in EditPreds(call[c].edit) : BindsWith(p, values[call[c].reg])
          /\ call[c].kind = "context" =>
                call[c].dependents = {p \in PredsOf(policy[call[c].reg]) : call[c].name \in Uses[p]}
          /\ call[c].kind = "context" /\ call[c].step = "install" =>
                \A p \in call[c].dependents :
                    BindsWith(p, [values[call[c].reg] EXCEPT ![call[c].name] = call[c].value])

\* The predicates of an edit are predicates, which use names and accept values.
LEMMA EditPredsArePreds ==
    ASSUME NEW e \in Edits
    PROVE  EditPreds(e) \subseteq Preds
  <1>1. CASE e.kind = "verb"
    BY <1>1, EditFields, VerbEditFields DEF EditPreds
  <1>2. CASE e.kind = "document"
    <2>1. e.verbs \subseteq VerbEdit
      BY <1>2, EditFields DEF DocumentEdit
    <2>2. ASSUME NEW g \in e.verbs PROVE g.using \in Preds /\ g.check \in Preds \cup {None}
      BY <2>1, VerbEditFields
    <2> QED
      BY <1>2, <2>2 DEF EditPreds
  <1>3. CASE e.kind \notin {"verb", "document"}
    BY <1>3 DEF EditPreds
  <1> QED
    BY <1>1, <1>2, <1>3

\* What binds is set.
LEMMA BoundIsSet ==
    ASSUME NEW p \in Preds, NEW vals, BindsWith(p, vals)
    PROVE  NamesSet(p, vals)
  BY PolicyAssumption DEF BindsWith, NamesSet

\* The policy a commit leaves, while its id keeps its bridge.
LEMMA CommitChanges ==
    ASSUME PolicyTypeOK, CallsKeepTheirBridge, NEW c \in Clients, CommitPolicy(c)
    PROVE  /\ call[c].reg \in Regs /\ call[c].edit \in Edits
           /\ call[c].kind = "policy" /\ call[c].step = "commit" /\ call[c] # None
           /\ \A r \in Regs \ {call[c].reg} : policy'[r] = policy[r]
           /\ PredsOf(policy'[call[c].reg]) \subseteq
                 PredsOf(policy[call[c].reg]) \cup EditPreds(call[c].edit)
           /\ values' = values /\ call' = [call EXCEPT ![c] = None]
  <1> TypeOK
    BY DEF PolicyTypeOK
  <1> DEFINE b == call[c].id
             e == call[c].edit
             new == Outcome(b, e)
  <1>1. b \in Ids /\ call[c].db \in Instances /\ e \in Edits /\ call[c].reg \in Regs
    BY CallFields DEF CommitPolicy
  <1>2. Touch(b, call[c].db)
    BY DEF CommitPolicy
  <1>3. RegOf(b) = call[c].reg
    BY <1>1, <1>2, LookupFinds DEF CommitPolicy, CallsKeepTheirBridge
  <1>4. new # None /\ policy' = [policy EXCEPT ![call[c].reg] = new]
    BY <1>3 DEF CommitPolicy
  <1>5. PredsOf(new) \subseteq PredsOf(policy[call[c].reg]) \cup EditPreds(e)
    BY <1>1, <1>3, <1>4, OutcomeIs
  <1> HIDE DEF new
  <1>6. policy'[call[c].reg] = new /\ \A r \in Regs \ {call[c].reg} : policy'[r] = policy[r]
    BY <1>1, <1>4 DEF PolicyTypeOK
  <1> QED
    BY <1>1, <1>5, <1>6 DEF CommitPolicy

\* The context a set_context leaves.
LEMMA InstallChanges ==
    ASSUME PolicyTypeOK, NEW c \in Clients, InstallContext(c)
    PROVE  /\ call[c].reg \in Regs /\ call[c].name \in Names /\ call[c].value \in Values
           /\ \A r \in Regs \ {call[c].reg} : values'[r] = values[r]
           /\ \/ values'[call[c].reg] = values[call[c].reg]
              \/ values'[call[c].reg] = [values[call[c].reg] EXCEPT ![call[c].name] = call[c].value]
           /\ policy' = policy /\ call' = [call EXCEPT ![c] = None]
  <1>1. call[c].reg \in Regs /\ call[c].name \in Names /\ call[c].value \in Values
    BY CallFields DEF InstallContext
  <1>2. values \in [Regs -> [Names -> Values \cup {Unset}]]
    BY DEF PolicyTypeOK
  <1> DEFINE new == [values[call[c].reg] EXCEPT ![call[c].name] = call[c].value]
  <1>3. values' = values \/ values' = [values EXCEPT ![call[c].reg] = new]
    BY DEF InstallContext
  <1> HIDE DEF new
  <1>4. /\ values'[call[c].reg] = values[call[c].reg] \/ values'[call[c].reg] = new
        /\ \A r \in Regs \ {call[c].reg} : values'[r] = values[r]
    BY <1>1, <1>2, <1>3
  <1> QED
    BY <1>1, <1>4 DEF InstallContext, new

\* A step that leaves the policies and the context values as they were, and each call too unless it
\* ends or begins; a call that goes on goes on with what it holds.
LEMMA OtherSteps ==
    ASSUME PolicyTypeOK, [PolicyNext]_allVars
    PROVE  \/ \E c \in Clients : CommitPolicy(c)
           \/ \E c \in Clients : InstallContext(c)
           \/ /\ policy' = policy /\ values' = values
              /\ \A c \in Clients :
                    \/ call'[c] = call[c] \/ call'[c] = None
                    \/ /\ call[c] # None /\ call[c].kind = "policy"
                       /\ Resolvable(call[c].edit, values[call[c].reg])
                       /\ call'[c] = [call[c] EXCEPT !.step = "commit"]
                    \/ /\ call[c] # None /\ call[c].kind = "context" /\ ProbesPass(c)
                       /\ call'[c] = [call[c] EXCEPT !.step = "install"]
                    \/ call'[c].kind = "policy" /\ call'[c].step = "resolve"
                    \/ /\ call'[c].kind = "context" /\ call'[c].step = "probe"
                       /\ call'[c].dependents =
                             {p \in PredsOf(policy[call'[c].reg]) : call'[c].name \in Uses[p]}
  <1> DEFINE Goes(c) ==
        \/ call'[c] = call[c] \/ call'[c] = None
        \/ /\ call[c] # None /\ call[c].kind = "policy"
           /\ Resolvable(call[c].edit, values[call[c].reg])
           /\ call'[c] = [call[c] EXCEPT !.step = "commit"]
        \/ /\ call[c] # None /\ call[c].kind = "context" /\ ProbesPass(c)
           /\ call'[c] = [call[c] EXCEPT !.step = "install"]
        \/ call'[c].kind = "policy" /\ call'[c].step = "resolve"
        \/ /\ call'[c].kind = "context" /\ call'[c].step = "probe"
           /\ call'[c].dependents =
                 {p \in PredsOf(policy[call'[c].reg]) : call'[c].name \in Uses[p]}
      Rest == policy' = policy /\ values' = values /\ \A c \in Clients : Goes(c)
  <1>0. call \in [Clients -> Call \cup {None}]
    BY DEF PolicyTypeOK
  <1>1. ASSUME NEW c \in Clients, NEW new, call' = [call EXCEPT ![c] = new]
        PROVE  call'[c] = new /\ \A d \in Clients \ {c} : call'[d] = call[d]
    BY <1>0, <1>1
  <1>2. ASSUME UNCHANGED policyVars PROVE Rest
    BY <1>2 DEF policyVars
  <1>3. ASSUME NEW c \in Clients, NEW b \in Ids, NEW i \in Instances, NEW e \in Edits,
               BeginPolicy(c, b, i, e)
        PROVE  Rest
    <2>1. call'[c] = [kind |-> "policy", step |-> "resolve", id |-> b, db |-> i, reg |-> RegOf(b),
                      edit |-> e]
      BY <1>1, <1>3 DEF BeginPolicy
    <2>2. \A d \in Clients \ {c} : call'[d] = call[d]
      BY <1>1, <1>3 DEF BeginPolicy
    <2>3. call'[c].kind = "policy" /\ call'[c].step = "resolve"
      BY <2>1
    <2> QED
      BY <1>3, <2>2, <2>3 DEF BeginPolicy
  <1>4. ASSUME NEW c \in Clients, ResolvePolicy(c)
        PROVE  Rest
    <2>1. \A d \in Clients \ {c} : call'[d] = call[d]
      BY <1>1, <1>4 DEF ResolvePolicy
    <2>2. call'[c] = IF Resolvable(call[c].edit, values[call[c].reg])
                       THEN [call[c] EXCEPT !.step = "commit"] ELSE None
      BY <1>1, <1>4, ZenonT(30) DEF ResolvePolicy
    <2>3. Goes(c)
      BY <1>4, <2>2 DEF ResolvePolicy
    <2> HIDE DEF Goes
    <2>4. ASSUME NEW d \in Clients \ {c} PROVE Goes(d)
      BY <2>1 DEF Goes
    <2> QED
      BY <1>4, <2>3, <2>4 DEF ResolvePolicy
  <1>5. ASSUME NEW c \in Clients, CommitRefused(c)
        PROVE  Rest
    <2>1. call'[c] = None /\ \A d \in Clients \ {c} : call'[d] = call[d]
      BY <1>1, <1>5 DEF CommitRefused
    <2> QED
      BY <1>5, <2>1 DEF CommitRefused
  <1>6. ASSUME NEW c \in Clients, NEW b \in Ids, NEW i \in Instances, NEW n \in Names,
               NEW v \in Values, BeginSetContext(c, b, i, n, v)
        PROVE  Rest
    <2> DEFINE deps == {p \in PredsOf(policy[RegOf(b)]) : n \in Uses[p]}
    <2>1. call'[c] = [kind |-> "context", step |-> "probe", db |-> i, reg |-> RegOf(b), name |-> n,
                      value |-> v, dependents |-> deps]
      BY <1>1, <1>6 DEF BeginSetContext
    <2>2. \A d \in Clients \ {c} : call'[d] = call[d]
      BY <1>1, <1>6 DEF BeginSetContext
    <2> HIDE DEF deps
    <2>3. /\ call'[c].kind = "context" /\ call'[c].step = "probe" /\ call'[c].dependents = deps
          /\ call'[c].reg = RegOf(b) /\ call'[c].name = n
      BY <2>1
    <2>4. Goes(c)
      BY <2>3 DEF deps
    <2> HIDE DEF Goes
    <2>5. ASSUME NEW d \in Clients \ {c} PROVE Goes(d)
      BY <2>2 DEF Goes
    <2> QED
      BY <1>6, <2>4, <2>5 DEF BeginSetContext
  <1>7. ASSUME NEW c \in Clients, ProbeContext(c)
        PROVE  Rest
    <2>1. \A d \in Clients \ {c} : call'[d] = call[d]
      BY <1>1, <1>7 DEF ProbeContext
    <2>2. call'[c] = IF ProbesPass(c) THEN [call[c] EXCEPT !.step = "install"] ELSE None
      BY <1>1, <1>7, ZenonT(30) DEF ProbeContext
    <2>3. Goes(c)
      BY <1>7, <2>2 DEF ProbeContext
    <2> HIDE DEF Goes
    <2>4. ASSUME NEW d \in Clients \ {c} PROVE Goes(d)
      BY <2>1 DEF Goes
    <2> QED
      BY <1>7, <2>3, <2>4 DEF ProbeContext
  <1>8. ASSUME NEW b \in Ids, NEW i \in Instances, FinalizeContext(b, i)
        PROVE  Rest
    BY <1>8 DEF FinalizeContext
  <1> HIDE DEF Goes, Rest
  <1>9. (\E c \in Clients : CommitPolicy(c)) \/ (\E c \in Clients : InstallContext(c)) \/ Rest
    BY <1>2, <1>3, <1>4, <1>5, <1>6, <1>7, <1>8, PolicySteps
  <1> QED
    BY <1>9 DEF Goes, Rest

\* While every id keeps its bridge, no step stores a predicate whose names are not all set, and no
\* step unsets a name.
LEMMA NextNames ==
    ASSUME PolicyTypeOK, PolicyTypeOK', NamesInv, CallsKeepTheirBridge, [PolicyNext]_allVars
    PROVE  NamesInv'
  <1> DEFINE Ready(c) == call[c] # None /\ call[c].kind = "policy" /\ call[c].step = "commit"
  <1>1. ASSUME NEW c \in Clients, CommitPolicy(c)
        PROVE  NamesInv'
    <2>1. ASSUME NEW r \in Regs, NEW p \in PredsOf(policy'[r]) PROVE NamesSet(p, values'[r])
      BY <1>1, <2>1, CommitChanges DEF NamesInv
    <2>2. ASSUME NEW d \in Clients, Ready(d)' PROVE call'[d] = call[d]
      BY <1>1, <2>2, CommitChanges DEF PolicyTypeOK
    <2> QED
      BY <1>1, <2>1, <2>2, CommitChanges DEF NamesInv
  <1>2. ASSUME NEW c \in Clients, InstallContext(c)
        PROVE  NamesInv'
    <2>1. ASSUME NEW r \in Regs, NEW p \in Preds, NamesSet(p, values[r]) PROVE NamesSet(p, values'[r])
      <3>1. \A n \in Names : values'[r][n] = values[r][n] \/ values'[r][n] \in Values
        <4>1. values[r] \in [Names -> Values \cup {Unset}]
          BY DEF PolicyTypeOK
        <4>2. /\ call[c].name \in Names /\ call[c].value \in Values
              /\ \/ values'[r] = values[r]
                 \/ values'[r] = [values[r] EXCEPT ![call[c].name] = call[c].value]
          BY <1>2, InstallChanges
        <4> QED
          BY <4>1, <4>2
      <3> QED
        BY <2>1, <3>1, PolicyAssumption DEF NamesSet
    <2>2. ASSUME NEW r \in Regs PROVE PredsOf(policy[r]) \subseteq Preds
      BY PredsArePreds DEF PolicyTypeOK
    <2>3. ASSUME NEW d \in Clients, Ready(d)'
          PROVE  call'[d] = call[d] /\ call[d].reg \in Regs /\ EditPreds(call[d].edit) \subseteq Preds
      BY <1>2, <2>3, InstallChanges, CallFields, EditPredsArePreds DEF PolicyTypeOK
    <2> QED
      BY <1>2, <2>1, <2>2, <2>3, InstallChanges DEF NamesInv
  <1>3. CASE /\ ~\E c \in Clients : CommitPolicy(c)
             /\ ~\E c \in Clients : InstallContext(c)
    <2>1. policy' = policy /\ values' = values
      BY <1>3, OtherSteps
    <2>2. ASSUME NEW c \in Clients, Ready(c)', NEW p \in EditPreds(call'[c].edit)
          PROVE  NamesSet(p, values'[call'[c].reg])
      <3>1. CASE call'[c] = call[c]
        BY <2>1, <2>2, <3>1 DEF NamesInv
      <3>2. CASE /\ call[c] # None /\ call[c].kind = "policy"
                 /\ Resolvable(call[c].edit, values[call[c].reg])
                 /\ call'[c] = [call[c] EXCEPT !.step = "commit"]
        <4>1. call[c] \in Call /\ call[c].edit \in Edits
          BY <3>2, CallFields
        <4>2. call'[c].edit = call[c].edit /\ call'[c].reg = call[c].reg
          BY <3>2, <4>1 DEF Call
        <4>3. BindsWith(p, values[call[c].reg]) /\ p \in Preds
          BY <2>2, <3>2, <4>1, <4>2, ResolvedBinds, EditPredsArePreds
        <4> QED
          BY <2>1, <4>2, <4>3, BoundIsSet
      <3>3. call'[c] \in Call /\ call'[c].kind = "policy" /\ call'[c].step = "commit"
        BY <2>2, CallFields DEF PolicyTypeOK
      <3>4. call'[c] # [call[c] EXCEPT !.step = "install"] \/ call[c] = None
        <4>1. call[c] # None => [call[c] EXCEPT !.step = "install"].step = "install"
          BY CallFields DEF Call
        <4> QED
          BY <3>3, <4>1
      <3> QED
        BY <1>3, <2>2, <3>1, <3>2, <3>3, <3>4, OtherSteps
    <2> QED
      BY <2>1, <2>2 DEF NamesInv
  <1> QED
    BY <1>1, <1>2, <1>3

\* "Set before use": as long as no bridge is registered anew under the id of a call in progress, no
\* overlap of policy calls, context calls, ATTACHes and expiry leaves a reachable policy that names a
\* context value that is not set.
THEOREM SetBeforeUse == PolicySpec /\ []CallsKeepTheirBridge => []NamesAreSet
  <1>1. PolicyInit => NamesInv
    BY InitPolicyTypeOK DEF PolicyInit, NamesInv
  <1>2. PInv /\ PInv' /\ NamesInv /\ CallsKeepTheirBridge /\ [PolicyNext]_allVars => NamesInv'
    BY NextNames DEF PInv
  <1>3. NamesInv => NamesAreSet
    BY DEF NamesInv, NamesAreSet, NamesSet
  <1> QED
    BY <1>1, <1>2, <1>3, PoliciesAreSound, PTL DEF PolicySpec

\* What BindsInv says of one call.
CallBinds(c) ==
    /\ call[c].kind = "policy" /\ call[c].step = "commit" =>
          \A p \in EditPreds(call[c].edit) : BindsWith(p, values[call[c].reg])
    /\ call[c].kind = "context" =>
          call[c].dependents = {p \in PredsOf(policy[call[c].reg]) : call[c].name \in Uses[p]}
    /\ call[c].kind = "context" /\ call[c].step = "install" =>
          \A p \in call[c].dependents :
              BindsWith(p, [values[call[c].reg] EXCEPT ![call[c].name] = call[c].value])

\* A new value does not touch the predicates that do not use its name.
LEMMA OtherNamesBind ==
    ASSUME NEW p \in Preds, NEW n \in Names, NEW v, NEW vals \in [Names -> Values \cup {Unset}],
           BindsWith(p, vals), n \notin Uses[p]
    PROVE  BindsWith(p, [vals EXCEPT ![n] = v])
  BY PolicyAssumption DEF BindsWith

\* A call that has not moved, and whose registration's policy and context have not, binds as it did.
LEMMA CallStaysBound ==
    ASSUME PolicyTypeOK, BindsInv, NEW c \in Clients, call[c] # None, call'[c] = call[c],
           policy'[call[c].reg] = policy[call[c].reg] \/ call[c].kind # "context",
           values'[call[c].reg] = values[call[c].reg]
    PROVE  CallBinds(c)'
  <1>1. CallBinds(c)
    BY DEF BindsInv, CallBinds
  <1>2. call[c].kind \in {"policy", "context"}
    BY CallFields
  <1>3. CASE call[c].kind = "policy"
    BY <1>1, <1>3 DEF CallBinds
  <1>4. CASE call[c].kind = "context"
    <2>1. policy'[call[c].reg] = policy[call[c].reg]
      BY <1>4
    <2> QED
      BY <1>1, <1>4, <2>1 DEF CallBinds
  <1> QED
    BY <1>2, <1>3, <1>4

\* While every id keeps its bridge and context calls run alone, every step leaves predicates that
\* bind.
LEMMA NextBinds ==
    ASSUME PolicyTypeOK, PolicyTypeOK', BindsInv, CallsKeepTheirBridge, ContextCallsRunAlone,
           [PolicyNext]_allVars
    PROVE  BindsInv'
  <1> SUFFICES /\ \A r \in Regs : \A p \in PredsOf(policy'[r]) : BindsWith(p, values'[r])
               /\ \A c \in Clients : call'[c] # None => CallBinds(c)'
    BY DEF BindsInv, CallBinds
  <1>0. call \in [Clients -> Call \cup {None}]
    BY DEF PolicyTypeOK
  <1>1. ASSUME NEW c \in Clients, CommitPolicy(c)
        PROVE  /\ \A r \in Regs : \A p \in PredsOf(policy'[r]) : BindsWith(p, values'[r])
               /\ \A d \in Clients : call'[d] # None => CallBinds(d)'
    <2>1. ASSUME NEW r \in Regs, NEW p \in PredsOf(policy'[r]) PROVE BindsWith(p, values'[r])
      BY <1>1, <2>1, CommitChanges DEF BindsInv
    <2>2. ASSUME NEW d \in Clients, call'[d] # None
          PROVE  CallBinds(d)'
      <3>1. d # c /\ call'[d] = call[d] /\ call[d] # None
        BY <1>0, <1>1, <2>2, CommitChanges
      <3>2. values'[call[d].reg] = values[call[d].reg]
        BY <1>1, CommitChanges
      <3>3. ASSUME call[d].kind = "context"
            PROVE  policy'[call[d].reg] = policy[call[d].reg]
        <4>1. call[d].reg # call[c].reg /\ call[d].reg \in Regs
          BY <1>1, <3>1, <3>3, CommitChanges, CallFields DEF ContextCallsRunAlone
        <4> QED
          BY <1>1, <4>1, CommitChanges
      <3> QED
        BY <3>1, <3>2, <3>3, CallStaysBound
    <2> QED
      BY <2>1, <2>2
  <1>2. ASSUME NEW c \in Clients, InstallContext(c)
        PROVE  /\ \A r \in Regs : \A p \in PredsOf(policy'[r]) : BindsWith(p, values'[r])
               /\ \A d \in Clients : call'[d] # None => CallBinds(d)'
    <2> DEFINE rc == call[c].reg
               new == [values[rc] EXCEPT ![call[c].name] = call[c].value]
    <2>1. call[c] # None /\ call[c].kind = "context" /\ call[c].step = "install"
      BY <1>2 DEF InstallContext
    <2>2. rc \in Regs /\ call[c].name \in Names
      BY <1>2, InstallChanges
    <2>3. ASSUME NEW p \in PredsOf(policy[rc]) PROVE BindsWith(p, values[rc]) /\ BindsWith(p, new)
      <3>1. BindsWith(p, values[rc]) /\ p \in Preds
        BY <2>2, <2>3, PredsArePreds DEF BindsInv, PolicyTypeOK
      <3>2. values[rc] \in [Names -> Values \cup {Unset}]
        BY <2>2 DEF PolicyTypeOK
      <3>3. CASE call[c].name \in Uses[p]
        BY <2>1, <2>3, <3>1, <3>3 DEF BindsInv
      <3>4. CASE call[c].name \notin Uses[p]
        BY <2>2, <3>1, <3>2, <3>4, OtherNamesBind
      <3> QED
        BY <3>1, <3>3, <3>4
    <2>4. values'[rc] = values[rc] \/ values'[rc] = new
      BY <1>2, InstallChanges
    <2> HIDE DEF new
    <2>5. ASSUME NEW r \in Regs, NEW p \in PredsOf(policy'[r]) PROVE BindsWith(p, values'[r])
      <3>1. policy' = policy
        BY <1>2, InstallChanges
      <3>2. CASE r = rc
        BY <2>3, <2>4, <2>5, <3>1, <3>2
      <3>3. CASE r # rc
        BY <1>2, <2>5, <3>1, <3>3, InstallChanges DEF BindsInv
      <3> QED
        BY <3>2, <3>3
    <2>6. ASSUME NEW d \in Clients, call'[d] # None
          PROVE  CallBinds(d)'
      <3>1. d # c /\ call'[d] = call[d] /\ call[d] # None
        BY <1>0, <1>2, <2>6, InstallChanges
      <3>2. call[d].reg # rc /\ call[d].reg \in Regs
        BY <2>1, <3>1, CallFields DEF ContextCallsRunAlone
      <3>3. values'[call[d].reg] = values[call[d].reg] /\ policy' = policy
        BY <1>2, <3>2, InstallChanges
      <3> QED
        BY <3>1, <3>3, CallStaysBound
    <2> QED
      BY <2>5, <2>6
  <1>3. CASE /\ ~\E c \in Clients : CommitPolicy(c)
             /\ ~\E c \in Clients : InstallContext(c)
    <2>1. policy' = policy /\ values' = values
      BY <1>3, OtherSteps
    <2>2. ASSUME NEW c \in Clients, call'[c] # None
          PROVE  CallBinds(c)'
      <3>1. CASE call'[c] = call[c]
        BY <2>1, <2>2, <3>1, CallStaysBound
      <3>2. CASE /\ call[c] # None /\ call[c].kind = "policy"
                 /\ Resolvable(call[c].edit, values[call[c].reg])
                 /\ call'[c] = [call[c] EXCEPT !.step = "commit"]
        <4>1. call[c] \in Call /\ call[c].edit \in Edits
          BY <3>2, CallFields
        <4>2. /\ call'[c].edit = call[c].edit /\ call'[c].reg = call[c].reg
              /\ call'[c].kind = "policy"
          BY <3>2, <4>1 DEF Call
        <4>3. ASSUME NEW p \in EditPreds(call[c].edit) PROVE BindsWith(p, values[call[c].reg])
          BY <3>2, <4>1, <4>3, ResolvedBinds
        <4> QED
          BY <2>1, <4>2, <4>3 DEF CallBinds
      <3>3. CASE /\ call[c] # None /\ call[c].kind = "context" /\ ProbesPass(c)
                 /\ call'[c] = [call[c] EXCEPT !.step = "install"]
        <4>1. call[c] \in Call
          BY <3>3, CallFields
        <4>2. /\ call'[c].reg = call[c].reg /\ call'[c].name = call[c].name
              /\ call'[c].value = call[c].value /\ call'[c].dependents = call[c].dependents
              /\ call'[c].kind = "context"
          BY <3>3, <4>1 DEF Call
        <4>3. /\ call[c].dependents = {p \in PredsOf(policy[call[c].reg]) : call[c].name \in Uses[p]}
              /\ \A p \in call[c].dependents :
                    BindsWith(p, [values[call[c].reg] EXCEPT ![call[c].name] = call[c].value])
          BY <3>3 DEF BindsInv, ProbesPass
        <4> QED
          BY <2>1, <4>2, <4>3 DEF CallBinds
      <3>4. CASE call'[c].kind = "policy" /\ call'[c].step = "resolve"
        BY <3>4 DEF CallBinds
      <3>5. CASE /\ call'[c].kind = "context" /\ call'[c].step = "probe"
                 /\ call'[c].dependents =
                       {p \in PredsOf(policy[call'[c].reg]) : call'[c].name \in Uses[p]}
        BY <2>1, <3>5 DEF CallBinds
      <3> QED
        BY <1>3, <2>2, <3>1, <3>2, <3>3, <3>4, <3>5, OtherSteps
    <2> QED
      BY <2>1, <2>2 DEF BindsInv
  <1> QED
    BY <1>1, <1>2, <1>3

\* "Checked on change": as long as no bridge is registered anew under the id of a call in progress and
\* no vcatbridge_set_context overlaps another call for its registration, every stored predicate binds
\* with the context as it is, in whatever order policies and values were set.
THEOREM CheckedOnChange ==
    PolicySpec /\ []CallsKeepTheirBridge /\ []ContextCallsRunAlone => []PoliciesBind
  <1>1. PolicyInit => BindsInv
    BY InitPolicyTypeOK DEF PolicyInit, BindsInv
  <1>2. PInv /\ PInv' /\ BindsInv /\ CallsKeepTheirBridge /\ ContextCallsRunAlone
           /\ [PolicyNext]_allVars => BindsInv'
    BY NextBinds DEF PInv
  <1>3. BindsInv => PoliciesBind
    BY DEF BindsInv, PoliciesBind
  <1> QED
    BY <1>1, <1>2, <1>3, PoliciesAreSound, PTL DEF PolicySpec

================================================================================
