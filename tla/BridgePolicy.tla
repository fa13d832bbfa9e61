----------------------------- MODULE BridgePolicy -----------------------------
(***************************************************************************)
(* The policy and the context of a bridge (src/bridge/duckdb_source.cpp):   *)
(* vcatbridge_set_policy, vcatbridge_configure_policy and                   *)
(* vcatbridge_set_context look the bridge up under PendingMutex, let go of  *)
(* it, check the change on the source, and come back to install it.         *)
(* BridgeRegistry supplies the registry those two visits go to; the steps   *)
(* of a call are steps of its client, and anything may happen between them. *)
(*                                                                         *)
(* A registration owns its policy and its context, so both are indexed by   *)
(* the registration's number: PendingSource hands them to the GrantBook on  *)
(* ATTACH without a copy.                                                   *)
(*                                                                         *)
(* Predicates are model values.  Uses[p] are the $names in p, and Accepts[p]*)
(* the values with which p binds as a BOOLEAN on the source; ByColumn holds *)
(* the predicates that mention a column.                                    *)
(***************************************************************************)
EXTENDS BridgeRegistry

CONSTANTS
    Clients,    \* connections on which the owner calls the policy functions
    Tables,     \* source tables and views, of one schema
    Views,      \* those of them that are views
    FkParents,  \* FkParents[t]: the tables t has a foreign key to
    Preds,      \* predicates of the owner's policies
    TruePred,   \* the predicate that is literally 'true'
    Names,      \* context names
    Values,     \* context values
    Unset,      \* no value
    Uses,       \* Uses[p] \subseteq Names
    Accepts,    \* Accepts[p] \subseteq Values
    ByColumn,   \* the predicates that name a column of the table
    Functions,  \* function names of the whitelist
    Edits       \* the changes owners make

Verbs == {"select", "insert", "update", "delete", "alter", "drop"}

ASSUME PolicyAssumption ==
    /\ Views \subseteq Tables
    /\ FkParents \in [Tables -> SUBSET Tables]
    /\ TruePred \in Preds
    /\ Uses \in [Preds -> SUBSET Names] /\ Uses[TruePred] = {}
    /\ Accepts \in [Preds -> SUBSET Values]
    /\ ByColumn \subseteq Preds \ {TruePred}
    /\ Unset \notin Values /\ None \notin Preds

\* What one call of vcatbridge_set_policy changes, and a document of vcatbridge_configure_policy.
VerbEdit ==
    [kind: {"verb"}, table: Tables, verb: Verbs, granted: BOOLEAN, using: Preds,
     check: Preds \cup {None}]
ListOps == {"set", "add", "remove"}
DocumentEdit ==
    [kind: {"document"}, tables: SUBSET Tables, verbs: SUBSET VerbEdit, keys: SUBSET Tables,
     foreign_keys: [Tables -> SUBSET Tables], create: BOOLEAN, builtins: BOOLEAN,
     add: SUBSET Functions, remove: SUBSET Functions]
Edit ==
    VerbEdit
    \cup [kind: {"key"}, table: Tables, set: BOOLEAN]
    \cup [kind: {"foreign_keys"}, table: Tables, op: ListOps, parents: SUBSET Tables]
    \cup [kind: {"create"}, granted: BOOLEAN]
    \cup [kind: {"whitelist"}, op: ListOps, names: SUBSET Functions]
    \cup DocumentEdit

ASSUME EditsAssumption == Edits \subseteq Edit

Regs == 1..MaxRegs

SourceGrant ==
    [verbs: SUBSET Verbs, using: [Verbs -> Preds \cup {None}], check: [Verbs -> Preds \cup {None}],
     select_unrestricted: BOOLEAN, key_set: BOOLEAN,
     foreign_key_parents: SUBSET Tables, allowed_foreign_keys: SUBSET Tables]

FunctionGrants == [builtins: BOOLEAN, allowed: SUBSET Functions, disallowed: SUBSET Functions]

PolicyState ==
    [tables: [Tables -> SourceGrant \cup {None}], create: BOOLEAN, functions: FunctionGrants]

VARIABLES
    policy,        \* policy[r]: PolicyState of registration r
    values,        \* values[r]: BridgeContext::values
    ctxFinalized,  \* the registrations whose BridgeContext is finalized
    call           \* call[c]: what client c is in the middle of, None between calls

policyVars == <<policy, values, ctxFinalized, call>>
allVars == <<vars, policyVars>>

NoGrant ==
    [verbs |-> {}, using |-> [v \in Verbs |-> None], check |-> [v \in Verbs |-> None],
     select_unrestricted |-> FALSE, key_set |-> FALSE,
     foreign_key_parents |-> {}, allowed_foreign_keys |-> {}]

EmptyPolicy ==
    [tables |-> [t \in Tables |-> None], create |-> FALSE,
     functions |-> [builtins |-> TRUE, allowed |-> {}, disallowed |-> {}]]

PolicyInit ==
    /\ Init
    /\ policy = [r \in Regs |-> EmptyPolicy]
    /\ values = [r \in Regs |-> [n \in Names |-> Unset]]
    /\ ctxFinalized = {}
    /\ call = [c \in Clients |-> None]

--------------------------------------------------------------------------------
(* Edits.  Each is checked on the source (Resolvable), then applied to a copy of the policy; an   *)
(* application that throws yields None, and the copy is dropped.                                   *)

BindsWithMutUnsetPasses(p, vals) == \A n \in Uses[p] : vals[n] \in Accepts[p] \cup {Unset}

\* ParseAndValidatePredicate and ProbePredicate: p with every $name filled in binds as a BOOLEAN.
BindsWith(p, vals) == \A n \in Uses[p] : vals[n] \in Accepts[p]

\* ResolveVerb: what a grant of one verb asks of the source and of the context.
VerbResolves(e, vals) ==
    /\ e.table \in Views => e.verb = "select"
    /\ e.verb \in {"insert", "drop"} => e.using = TruePred
    /\ e.verb = "insert" => e.check # None
    /\ e.verb = "alter" => e.using \notin ByColumn
    /\ BindsWith(e.using, vals)
    /\ e.check # None => BindsWith(e.check, vals)

KeyResolves(t) == t \notin Views

\* An empty list asks nothing, so it passes for a view too.
ForeignKeysResolve(t, parents) == parents # {} => t \notin Views /\ parents \subseteq FkParents[t]

\* A drop keeps no predicate, and an update's check falls back to its USING.
UsingOf(e) == IF e.verb = "drop" THEN None ELSE e.using
CheckOf(e) == IF e.check = None /\ e.verb = "update" THEN e.using ELSE e.check

InstallVerb(grant, e) ==
    [grant EXCEPT
        !.verbs = IF e.granted THEN @ \cup {e.verb} ELSE @ \ {e.verb},
        !.using[e.verb] = IF e.granted THEN UsingOf(e) ELSE None,
        !.check[e.verb] = IF e.granted THEN CheckOf(e) ELSE None,
        !.select_unrestricted =
            IF e.verb = "select" THEN e.granted /\ e.using = TruePred ELSE @]

GrantOrNew(state, t) == IF state.tables[t] = None THEN NoGrant ELSE state.tables[t]

\* Revoking the last verb removes the table.
EditVerb(state, e) ==
    LET t == e.table
        found == [GrantOrNew(state, t) EXCEPT !.foreign_key_parents = FkParents[t]]
        revoked == InstallVerb(state.tables[t], e)
    IN  IF e.granted THEN [state EXCEPT !.tables[t] = InstallVerb(found, e)]
        ELSE IF state.tables[t] = None THEN state
        ELSE [state EXCEPT !.tables[t] = IF revoked.verbs = {} THEN None ELSE revoked]

\* After ATTACH, settings other than verbs need a granted table (GrantToConfigure).
EditKey(state, e, isLive) ==
    IF state.tables[e.table] = None
      THEN IF ~e.set THEN state
           ELSE IF isLive THEN None
           ELSE [state EXCEPT !.tables[e.table] = [NoGrant EXCEPT !.key_set = TRUE]]
      ELSE [state EXCEPT !.tables[e.table].key_set = e.set]

AllowedAfter(e, allowed) ==
    CASE e.op = "set"    -> e.parents
      [] e.op = "add"    -> allowed \cup e.parents
      [] e.op = "remove" -> allowed \ e.parents

EditForeignKeys(state, e, isLive) ==
    LET clears == e.op = "remove" \/ (e.op = "set" /\ e.parents = {})
        allowed == GrantOrNew(state, e.table).allowed_foreign_keys
    IN  IF state.tables[e.table] = None /\ clears THEN state
        ELSE IF state.tables[e.table] = None /\ isLive THEN None
        ELSE [state EXCEPT !.tables[e.table] =
                [GrantOrNew(state, e.table) EXCEPT
                    !.allowed_foreign_keys = AllowedAfter(e, allowed)]]

\* ApplyFunctionList: a name is on at most one of the two lists.
ApplyFunctionList(functions, op, names) ==
    LET start == IF op = "set" THEN [builtins |-> FALSE, allowed |-> {}, disallowed |-> {}]
                 ELSE functions
    IN  IF op = "remove"
          THEN [start EXCEPT !.disallowed = @ \cup names, !.allowed = @ \ names]
          ELSE [start EXCEPT !.allowed = @ \cup names, !.disallowed = @ \ names]

\* ResolvePolicy: the whole policy from one document; only the configured tables are in it.
Document(e) ==
    LET InstallAll(t) ==
          [NoGrant EXCEPT
              !.foreign_key_parents = FkParents[t],
              !.verbs = {g.verb : g \in {h \in e.verbs : h.table = t}},
              !.using = [v \in Verbs |->
                  IF \E g \in e.verbs : g.table = t /\ g.verb = v
                    THEN UsingOf(CHOOSE g \in e.verbs : g.table = t /\ g.verb = v) ELSE None],
              !.check = [v \in Verbs |->
                  IF \E g \in e.verbs : g.table = t /\ g.verb = v
                    THEN CheckOf(CHOOSE g \in e.verbs : g.table = t /\ g.verb = v) ELSE None],
              !.select_unrestricted =
                  \E g \in e.verbs : g.table = t /\ g.verb = "select" /\ g.using = TruePred,
              !.key_set = t \in e.keys,
              !.allowed_foreign_keys = e.foreign_keys[t]]
    IN  [tables |-> [t \in Tables |-> IF t \in e.tables THEN InstallAll(t) ELSE None],
         create |-> e.create,
         functions |-> ApplyFunctionList(
             ApplyFunctionList([builtins |-> e.builtins, allowed |-> {}, disallowed |-> {}],
                               "add", e.add), "remove", e.remove)]

\* The source's answer to an edit, with the context values `vals'.
Resolvable(e, vals) ==
    CASE e.kind = "verb"         -> e.granted => VerbResolves(e, vals)
      [] e.kind = "key"          -> e.set => KeyResolves(e.table)
      [] e.kind = "foreign_keys" -> e.op # "remove" => ForeignKeysResolve(e.table, e.parents)
      [] e.kind = "document"     ->
            /\ \A g \in e.verbs : VerbResolves(g, vals)
            /\ \A t \in e.keys : KeyResolves(t)
            /\ \A t \in e.tables : ForeignKeysResolve(t, e.foreign_keys[t])
      [] OTHER -> TRUE

Edited(state, e, isLive) ==
    CASE e.kind = "verb"         -> EditVerb(state, e)
      [] e.kind = "key"          -> EditKey(state, e, isLive)
      [] e.kind = "foreign_keys" -> EditForeignKeys(state, e, isLive)
      [] e.kind = "create"       -> [state EXCEPT !.create = e.granted]
      [] e.kind = "whitelist"    -> [state EXCEPT !.functions = ApplyFunctionList(@, e.op, e.names)]
      [] e.kind = "document"     -> Document(e)

\* The target already reads every row of the parent, so a foreign key check tells it nothing.
ReadsAll(state, parent) ==
    /\ state.tables[parent] # None
    /\ "select" \in state.tables[parent].verbs
    /\ state.tables[parent].select_unrestricted

\* ValidateGrantSet: every table has a verb, and no insert or update runs over a foreign key to a
\* table the target cannot read in full, unless the owner allowed that key.
HoldsTogether(state) ==
    \A t \in Tables : state.tables[t] # None =>
        LET grant == state.tables[t]
        IN  /\ grant.verbs # {}
            /\ grant.verbs \cap {"insert", "update"} # {} =>
                 \A parent \in grant.foreign_key_parents \ grant.allowed_foreign_keys :
                     ReadsAll(state, parent)

Attachable(state) ==
    /\ HoldsTogether(state)
    /\ state.create \/ \E t \in Tables : state.tables[t] # None

--------------------------------------------------------------------------------
(* vcatbridge_set_policy and vcatbridge_configure_policy *)

RegOf(b) == IF Purged[b] # None THEN Purged[b].reg ELSE live[b].reg

\* LookUpOpenBridge.
BeginPolicy(c, b, i, e) ==
    /\ call[c] = None
    /\ Touch(b, i) /\ ~Finalized(b)
    /\ call' = [call EXCEPT ![c] = [kind |-> "policy", step |-> "resolve", id |-> b,
                                    db |-> i, reg |-> RegOf(b), edit |-> e]]
    /\ UNCHANGED <<policy, values, ctxFinalized>>

\* ContextSnapshot, then the checks on the source in a transaction of its own.
ResolvePolicy(c) ==
    /\ call[c] # None /\ call[c].kind = "policy" /\ call[c].step = "resolve"
    /\ call' = [call EXCEPT ![c] =
                  IF Resolvable(call[c].edit, values[call[c].reg])
                    THEN [call[c] EXCEPT !.step = "commit"] ELSE None]
    /\ UNCHANGED <<vars, policy, values, ctxFinalized>>

OutcomeMutUnvalidated(b, e) == Edited(policy[RegOf(b)], e, Purged[b] = None)

\* What CommitPolicy would install, None if the edit or ValidateGrantSet throws.
Outcome(b, e) ==
    LET isLive == Purged[b] = None
        state == Edited(policy[RegOf(b)], e, isLive)
    IN  IF state # None /\ (isLive => HoldsTogether(state)) THEN state ELSE None

CommitPolicyMutLateFinalize(c) ==
    /\ call[c] # None /\ call[c].kind = "policy" /\ call[c].step = "commit"
    /\ Touch(call[c].id, call[c].db)
    /\ Outcome(call[c].id, call[c].edit) # None
    /\ policy' = [policy EXCEPT ![RegOf(call[c].id)] = Outcome(call[c].id, call[c].edit)]
    /\ call' = [call EXCEPT ![c] = None]
    /\ UNCHANGED <<values, ctxFinalized>>

CommitPolicyMutInstallsThrown(c) ==
    /\ call[c] # None /\ call[c].kind = "policy" /\ call[c].step = "commit"
    /\ Touch(call[c].id, call[c].db) /\ ~Finalized(call[c].id)
    /\ policy' = [policy EXCEPT ![RegOf(call[c].id)] = Outcome(call[c].id, call[c].edit)]
    /\ call' = [call EXCEPT ![c] = None]
    /\ UNCHANGED <<values, ctxFinalized>>

\* CommitPolicy: the bridge is looked up again, by its id, and must still be open.
CommitPolicy(c) ==
    /\ call[c] # None /\ call[c].kind = "policy" /\ call[c].step = "commit"
    /\ Touch(call[c].id, call[c].db) /\ ~Finalized(call[c].id)
    /\ Outcome(call[c].id, call[c].edit) # None
    /\ policy' = [policy EXCEPT ![RegOf(call[c].id)] = Outcome(call[c].id, call[c].edit)]
    /\ call' = [call EXCEPT ![c] = None]
    /\ UNCHANGED <<values, ctxFinalized>>

\* The bridge is gone or finalized, the edit does not apply, or a target transaction has DDL it has
\* not committed (BridgeSession): the policy stays as it is.
CommitRefused(c) ==
    /\ call[c] # None /\ call[c].kind = "policy" /\ call[c].step = "commit"
    /\ LET b == call[c].id
       IN  \/ LookupRefused(b, call[c].db)
           \/ /\ Touch(b, call[c].db)
              /\ \/ Finalized(b)
                 \/ Outcome(b, call[c].edit) = None
                 \/ Purged[b] = None /\ call[c].edit.kind # "whitelist"
    /\ call' = [call EXCEPT ![c] = None]
    /\ UNCHANGED <<policy, values, ctxFinalized>>

--------------------------------------------------------------------------------
(* vcatbridge_set_context and the two finalizers *)

PredsOf(state) ==
    LET granted == {t \in Tables : state.tables[t] # None}
    IN  ({state.tables[t].using[v] : t \in granted, v \in Verbs}
           \cup {state.tables[t].check[v] : t \in granted, v \in Verbs}) \ {None}

\* LookupContext: the predicates that use the name are collected under the lock.
BeginSetContext(c, b, i, n, v) ==
    /\ call[c] = None
    /\ Touch(b, i)
    /\ call' = [call EXCEPT ![c] =
                  [kind |-> "context", step |-> "probe", db |-> i, reg |-> RegOf(b),
                   name |-> n, value |-> v,
                   dependents |-> {p \in PredsOf(policy[RegOf(b)]) : n \in Uses[p]}]]
    /\ UNCHANGED <<policy, values, ctxFinalized>>

ProbesPassMutSkipped(c) == call[c].reg \notin ctxFinalized

\* Every predicate collected is bound on the source with the new value.
ProbesPass(c) ==
    /\ call[c].reg \notin ctxFinalized
    /\ \A p \in call[c].dependents :
          BindsWith(p, [values[call[c].reg] EXCEPT ![call[c].name] = call[c].value])

ProbeContext(c) ==
    /\ call[c] # None /\ call[c].kind = "context" /\ call[c].step = "probe"
    /\ call' = [call EXCEPT ![c] =
                  IF ProbesPass(c) THEN [call[c] EXCEPT !.step = "install"] ELSE None]
    /\ UNCHANGED <<vars, policy, values, ctxFinalized>>

InstallContextMutUnchecked(c) ==
    /\ call[c] # None /\ call[c].kind = "context" /\ call[c].step = "install"
    /\ values' = [values EXCEPT ![call[c].reg][call[c].name] = call[c].value]
    /\ call' = [call EXCEPT ![c] = None]
    /\ UNCHANGED <<vars, policy, ctxFinalized>>

\* Under BridgeContext::lock: the context object the lookup found, wherever its bridge is by now.
InstallContext(c) ==
    /\ call[c] # None /\ call[c].kind = "context" /\ call[c].step = "install"
    /\ values' = IF call[c].reg \in ctxFinalized THEN values
                 ELSE [values EXCEPT ![call[c].reg][call[c].name] = call[c].value]
    /\ call' = [call EXCEPT ![c] = None]
    /\ UNCHANGED <<vars, policy, ctxFinalized>>

FinalizeContext(b, i) ==
    /\ Touch(b, i)
    /\ RegOf(b) \notin ctxFinalized
    /\ ctxFinalized' = ctxFinalized \cup {RegOf(b)}
    /\ UNCHANGED <<policy, values, call>>

--------------------------------------------------------------------------------
(* The registry's own steps *)

\* RedeemBridge runs ValidateGrantSet before it takes the entry.
RedeemPolicy(b, token, t, main) ==
    /\ Redeem(b, token, t, main)
    /\ Attachable(policy[Purged[b].reg])
    /\ UNCHANGED policyVars

\* A client in the middle of a call holds its instance open.
CloseIdleInstance(i) ==
    /\ CloseInstance(i)
    /\ \A c \in Clients : call[c] # None => call[c].db # i
    /\ UNCHANGED policyVars

PolicyStep(c) ==
    \/ \E b \in Ids, i \in Instances, e \in Edits : BeginPolicy(c, b, i, e)
    \/ ResolvePolicy(c)
    \/ CommitPolicy(c)
    \/ CommitRefused(c)

ContextStep(c) ==
    \/ \E b \in Ids, i \in Instances, n \in Names, v \in Values : BeginSetContext(c, b, i, n, v)
    \/ ProbeContext(c)
    \/ InstallContext(c)

RegistryStep(b, i) ==
    /\ \/ \E token \in {ChosenToken, nextReg} : Register(b, i, token)
       \/ RegisterRefused(b, i)
       \/ LookupRefused(b, i)
       \/ Touch(b, i) /\ (Finalized(b) \/ RegOf(b) \in ctxFinalized)
       \/ FinalizePolicy(b, i)
       \/ \E token \in Tokens, main \in BOOLEAN :
             RedeemRefused(b, token, i, main) \/ WrongToken(b, token, i, main)
    /\ UNCHANGED policyVars

PolicyNext ==
    \/ \E c \in Clients : PolicyStep(c) \/ ContextStep(c)
    \/ \E b \in Ids, i \in Instances :
          \/ RegistryStep(b, i)
          \/ FinalizeContext(b, i)
          \/ \E token \in Tokens, main \in BOOLEAN : RedeemPolicy(b, token, i, main)
    \/ \E b \in Ids : CatalogStep(b) /\ UNCHANGED policyVars
    \/ \E i \in Instances : CloseIdleInstance(i)
    \/ Tick /\ UNCHANGED policyVars

PolicySpec == PolicyInit /\ [][PolicyNext]_allVars

--------------------------------------------------------------------------------
(* Properties *)

Call ==
    [kind: {"policy"}, step: {"resolve", "commit"}, id: Ids, db: Instances, reg: Regs, edit: Edits]
    \cup [kind: {"context"}, step: {"probe", "install"}, db: Instances, reg: Regs, name: Names,
          value: Values, dependents: SUBSET Preds]

\* Types: what CommitPolicy installs is a policy, never the remains of an edit that threw.
PolicyTypeOK ==
    /\ TypeOK
    /\ policy \in [Regs -> PolicyState]
    /\ values \in [Regs -> [Names -> Values \cup {Unset}]]
    /\ ctxFinalized \subseteq Regs
    /\ call \in [Clients -> Call \cup {None}]

\* The registrations a bridge id still reaches.
Reachable(r) ==
    \E b \in Ids : \/ pending[b] # None /\ pending[b].reg = r
                   \/ live[b] # None /\ live[b].reg = r

\* "Set before use": no policy a target can meet names a context value that is not set, so that
\* FillContext finds every $name of a stored predicate.
NamesAreSet ==
    \A r \in Regs : Reachable(r) =>
        \A p \in PredsOf(policy[r]) : \A n \in Uses[p] : values[r][n] # Unset

\* "Checked on change": every stored predicate binds with the context as it is now, whichever of
\* vcatbridge_set_policy and vcatbridge_set_context came last.
PoliciesBind ==
    \A r \in Regs : Reachable(r) =>
        \A p \in PredsOf(policy[r]) :
            (\A n \in Uses[p] : values[r][n] # Unset) => BindsWith(p, values[r])

\* After ATTACH, every change leaves a policy that holds together: no table without a verb, no
\* insert or update over a foreign key into rows the target may not read.
LivePolicyHolds ==
    \A b \in Ids : live[b] # None => HoldsTogether(policy[live[b].reg])

\* A policy call that looked the bridge up before vcatbridge_finalize_policy does not change it
\* afterwards, nor does any other.
FinalizedPolicyIsFrozen ==
    [][\A b \in Ids :
          /\ pending[b] # None /\ pending[b].finalized => policy'[pending[b].reg] = policy[pending[b].reg]
          /\ live[b] # None /\ live[b].finalized => policy'[live[b].reg] = policy[live[b].reg]]_allVars

\* A vcatbridge_set_context that passed its first check before vcatbridge_finalize_context installs
\* nothing afterwards.
FinalizedContextIsFrozen ==
    [][\A r \in ctxFinalized : values'[r] = values[r]]_allVars

================================================================================
