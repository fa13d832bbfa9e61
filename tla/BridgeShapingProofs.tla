--------------------------- MODULE BridgeShapingProofs ---------------------------
(***************************************************************************)
(* Proofs about what PolicyResolver and PolicyShaper make of a statement in  *)
(* BridgeStatement: the predicates of every table it reads, and of what it   *)
(* writes, are those of a book it has met, or the verb was not granted in    *)
(* one of them; the reads are under one context, and so is the write.  Then  *)
(* about the context itself: when FillContext can meet a name without a      *)
(* value, and that no predicate reaches the source with one.                 *)
(***************************************************************************)
EXTENDS BridgeStatementProofs

--------------------------------------------------------------------------------
(* The inductive invariant *)

WriteVerbs == {"insert", "update", "delete"}

Filters ==
    {None} \cup UNION {[pred: {p}, values: [Uses[p] -> Values \cup {Unset}]] : p \in Preds}

\* The steps at which no floor has been bound yet, and those from the shaper's snapshot on.
Unread == Steps \ {"floor", "filter", "using", "check", "visible", "run", "ran", "unfilled"}
Snapped == {"may_read", "resolver", "floor", "filter", "using", "check", "visible"}

\* The raw form of UnderPolicy: the predicate before the context is filled in.
TookRaw(c, raw, t, verb, clause) ==
    /\ raw \in Preds \cup {None}
    /\ \E b \in InForce(c) :
          \/ GrantedIn(b, t, verb) /\ raw = b.grants[t][clause][verb]
          \/ ~GrantedIn(b, t, verb) /\ raw = None

FloorTook(c, i) ==
    LET t == stmt[c].of.floors[i]
    IN  /\ \E b \in InForce(c) : GrantedIn(b, t, "select")
        /\ UnderPolicy(c, stmt[c].filters[i], t, "select", "using", stmt[c].shown)

ReadsUnderPolicy(c) ==
    /\ stmt[c].filters \in Seq(Filters)
    /\ stmt[c].step \in Unread => stmt[c].filters = <<>>
    /\ stmt[c].step \in {"floor", "filter"} \/ stmt[c].filters # <<>> =>
          \E b \in InForce(c) : stmt[c].shown = b.values
    /\ \A i \in 1..Len(stmt[c].filters) : FloorTook(c, i)
    /\ stmt[c].step = "filter" => \E b \in InForce(c) : GrantedIn(b, Floor(c), "select")
    /\ stmt[c].step \in {"resolver", "floor", "filter"} => Len(stmt[c].filters) < Len(stmt[c].of.floors)

TookShape(c) ==
    LET t == stmt[c].of.table
        verb == stmt[c].of.kind
    IN  \E b \in InForce(c) :
          /\ UnderPolicy(c, stmt[c].using, t, verb, "using", b.values)
          /\ UnderPolicy(c, stmt[c].check, t, verb, "check", b.values)
          /\ ReadsRows(stmt[c].of) => UnderPolicy(c, stmt[c].visible, t, "select", "using", b.values)

WritesUnderPolicy(c) ==
    /\ stmt[c].step \in Snapped => \E b \in InForce(c) : stmt[c].values = b.values
    /\ stmt[c].step \in {"check", "visible"} =>
          TookRaw(c, stmt[c].using, stmt[c].of.table, stmt[c].of.kind, "using")
    /\ stmt[c].step = "visible" =>
          TookRaw(c, stmt[c].check, stmt[c].of.table, stmt[c].of.kind, "check")
    /\ stmt[c].step \in {"run", "ran"} => TookShape(c)
    /\ stmt[c].step \notin Altering

Taken(c) ==
    ReadsUnderPolicy(c) /\ (stmt[c].of.kind \in WriteVerbs => WritesUnderPolicy(c))

JInv == \A c \in Sessions : stmt[c] # None => Taken(c)

--------------------------------------------------------------------------------
(* Taking a predicate from a book *)

\* Filling in the context turns no predicate into none.
LEMMA FilledIsFilter ==
    ASSUME NEW p \in Preds \cup {None}, NEW values \in [Names -> Values \cup {Unset}]
    PROVE  /\ Filled(p, values) \in Filters
           /\ Filled(p, values) = None <=> p = None
  <1>1. CASE p = None
    <2>1. Filled(p, values) = None
      BY <1>1 DEF Filled
    <2>2. None \in Filters
      BY Zenon DEF Filters
    <2> QED
      BY <1>1, <2>1, <2>2
  <1>2. CASE p # None
    <2>1. p \in Preds /\ Uses[p] \subseteq Names
      BY <1>2, StatementAssumption
    <2>2. [n \in Uses[p] |-> values[n]] \in [Uses[p] -> Values \cup {Unset}]
      BY <2>1
    <2>3. Filled(p, values) \in [pred: {p}, values: [Uses[p] -> Values \cup {Unset}]]
      BY <1>2, <2>2 DEF Filled
    <2>4. None \notin [pred: {p}, values: [Uses[p] -> Values \cup {Unset}]]
      BY <2>1, StatementAssumption
    <2> QED
      BY <1>2, <2>1, <2>3, <2>4 DEF Filters
  <1> QED
    BY <1>1, <1>2

\* What UsingFor and CheckFor read is the book's policy.
LEMMA ReadsRaw ==
    ASSUME IInv, NEW c \in Sessions, stmt[c] # None, NEW t \in Tables, NEW verb \in Verbs
    PROVE  /\ TookRaw(c, UsingFor(t, verb), t, verb, "using")
           /\ TookRaw(c, CheckFor(t, verb), t, verb, "check")
           /\ UsingFor(t, verb) \in Preds \cup {None}
           /\ CheckFor(t, verb) \in Preds \cup {None}
  <1>1. book \in InForce(c) /\ book \in Books
    BY BookInForce DEF IInv, Sound, Shaped
  <1>2. book.grants[t] \in SourceGrant \cup {None}
    BY <1>1 DEF Books
  <1>3. CASE book.grants[t] = None
    BY <1>1, <1>3 DEF TookRaw, UsingFor, CheckFor, GrantOf, GrantedIn
  <1>4. CASE book.grants[t] # None
    <2>1. book.grants[t] \in SourceGrant
      BY <1>2, <1>4
    <2>2. /\ UsingFor(t, verb) = book.grants[t].using[verb]
          /\ CheckFor(t, verb) = book.grants[t].check[verb]
      BY <1>4 DEF UsingFor, CheckFor, GrantOf
    <2>3. /\ book.grants[t].using[verb] \in Preds \cup {None}
          /\ book.grants[t].check[verb] \in Preds \cup {None}
          /\ verb \notin book.grants[t].verbs =>
                book.grants[t].using[verb] = None /\ book.grants[t].check[verb] = None
      BY <2>1 DEF SourceGrant
    <2> QED
      BY <1>1, <1>4, <2>2, <2>3 DEF TookRaw, GrantedIn
  <1> QED
    BY <1>3, <1>4

\* A predicate taken from a book and filled is a policy taken.
LEMMA FilledIsTaken ==
    ASSUME NEW c, NEW p \in Preds \cup {None}, NEW values \in [Names -> Values \cup {Unset}],
           NEW t, NEW verb, NEW clause, TookRaw(c, p, t, verb, clause)
    PROVE  UnderPolicy(c, Filled(p, values), t, verb, clause, values)
  <1>1. PICK b \in InForce(c) : \/ GrantedIn(b, t, verb) /\ p = b.grants[t][clause][verb]
                                \/ ~GrantedIn(b, t, verb) /\ p = None
    BY DEF TookRaw
  <1>2. Filled(p, values) = None <=> p = None
    BY FilledIsFilter
  <1> QED
    BY <1>1, <1>2 DEF UnderPolicy, TookPolicy, Revoked

--------------------------------------------------------------------------------
(* Steps that take no policy *)

\* What was taken stays taken while the books of the statement grow.
LEMMA TakenGrows ==
    ASSUME NEW c, \A b \in InForce(c) : b \in InForce(c)'
    PROVE  /\ \A taken, t, verb, clause, values :
                 UnderPolicy(c, taken, t, verb, clause, values) =>
                     \/ \E b \in InForce(c)' :
                           GrantedIn(b, t, verb) /\ taken = Filled(b.grants[t][clause][verb], values)
                     \/ taken = None /\ \E b \in InForce(c)' : ~GrantedIn(b, t, verb)
           /\ \A raw, t, verb, clause :
                 TookRaw(c, raw, t, verb, clause) =>
                     \E b \in InForce(c)' :
                        \/ GrantedIn(b, t, verb) /\ raw = b.grants[t][clause][verb]
                        \/ ~GrantedIn(b, t, verb) /\ raw = None
  BY DEF UnderPolicy, TookPolicy, Revoked, TookRaw

SameReads(r, s) == s.of = r.of /\ s.filters = r.filters /\ s.shown = r.shown

SameWrites(r, s) ==
    /\ s.of = r.of /\ s.values = r.values /\ s.using = r.using /\ s.check = r.check
    /\ s.visible = r.visible

\* The steps that need nothing a read, or a write, has not taken yet.
ReadsNothing(r, s) ==
    /\ s.step \in Unread => r.step \in Unread
    /\ s.step \in {"floor", "filter"} => s.step = r.step
    /\ s.step = "resolver" => s.step = r.step \/ 0 < Len(r.of.floors)

WritesNothing(r, s) ==
    /\ s.step \in Snapped => r.step \in Snapped
    /\ s.step \in {"check", "visible"} => s.step = r.step
    /\ s.step \in {"run", "ran"} => r.step \in {"run", "ran"}
    /\ s.step \notin Altering

\* A read that keeps what it took, and goes where nothing more is needed.
LEMMA ReadKeeps ==
    ASSUME NEW c, ReadsUnderPolicy(c), \A b \in InForce(c) : b \in InForce(c)',
           SameReads(stmt[c], stmt'[c]), ReadsNothing(stmt[c], stmt'[c])
    PROVE  ReadsUnderPolicy(c)'
  <1>1. stmt'[c].filters \in Seq(Filters) /\ (stmt'[c].step \in Unread => stmt'[c].filters = <<>>)
    BY DEF ReadsUnderPolicy, SameReads, ReadsNothing
  <1>2. stmt'[c].step \in {"floor", "filter"} \/ stmt'[c].filters # <<>> =>
           \E b \in InForce(c)' : stmt'[c].shown = b.values
    BY SMTT(30) DEF ReadsUnderPolicy, SameReads, ReadsNothing
  <1>3. ASSUME NEW i \in 1..Len(stmt[c].filters) PROVE FloorTook(c, i)'
    <2>1. FloorTook(c, i)
      BY <1>3 DEF ReadsUnderPolicy
    <2> QED
      BY <2>1, TakenGrows DEF FloorTook, UnderPolicy, TookPolicy, Revoked, SameReads
  <1>4. stmt'[c].step = "filter" => \E b \in InForce(c)' : GrantedIn(b, Floor(c)', "select")
    BY DEF ReadsUnderPolicy, SameReads, ReadsNothing, Floor
  <1>5. stmt'[c].step \in {"resolver", "floor", "filter"} =>
           Len(stmt'[c].filters) < Len(stmt'[c].of.floors)
    <2>1. "resolver" \in Unread
      BY DEF Unread, Steps
    <2>2. stmt'[c].step = "resolver" => Len(stmt'[c].filters) = 0
      BY <1>1, <2>1
    <2> QED
      BY <2>2 DEF ReadsUnderPolicy, SameReads, ReadsNothing
  <1> QED
    BY <1>1, <1>2, <1>3, <1>4, <1>5 DEF ReadsUnderPolicy, SameReads

\* A write that keeps what it took, and goes where nothing more is needed.
LEMMA WriteKeeps ==
    ASSUME NEW c, WritesUnderPolicy(c), \A b \in InForce(c) : b \in InForce(c)',
           SameWrites(stmt[c], stmt'[c]), WritesNothing(stmt[c], stmt'[c])
    PROVE  WritesUnderPolicy(c)'
  <1>1. stmt'[c].step \in Snapped => \E b \in InForce(c)' : stmt'[c].values = b.values
    BY SMTT(30) DEF WritesUnderPolicy, WritesNothing, SameWrites
  <1>2. /\ stmt'[c].step \in {"check", "visible"} =>
              TookRaw(c, stmt[c].using, stmt[c].of.table, stmt[c].of.kind, "using")'
        /\ stmt'[c].step = "visible" =>
              TookRaw(c, stmt[c].check, stmt[c].of.table, stmt[c].of.kind, "check")'
    BY TakenGrows DEF WritesUnderPolicy, WritesNothing, SameWrites, TookRaw
  <1>3. ASSUME stmt'[c].step \in {"run", "ran"} PROVE TookShape(c)'
    <2> DEFINE t == stmt[c].of.table
               verb == stmt[c].of.kind
    <2>1. TookShape(c)
      BY <1>3 DEF WritesUnderPolicy, WritesNothing
    <2>2. PICK b \in InForce(c) :
             /\ UnderPolicy(c, stmt[c].using, t, verb, "using", b.values)
             /\ UnderPolicy(c, stmt[c].check, t, verb, "check", b.values)
             /\ ReadsRows(stmt[c].of) => UnderPolicy(c, stmt[c].visible, t, "select", "using", b.values)
      BY <2>1 DEF TookShape
    <2> DEFINE v == b.values
    <2> HIDE DEF v
    <2>3. \A taken, u, w, clause : UnderPolicy(c, taken, u, w, clause, v) =>
             \/ \E x \in InForce(c)' :
                   GrantedIn(x, u, w) /\ taken = Filled(x.grants[u][clause][w], v)
             \/ taken = None /\ \E x \in InForce(c)' : ~GrantedIn(x, u, w)
      BY TakenGrows
    <2>4. /\ stmt'[c].of = stmt[c].of /\ stmt'[c].using = stmt[c].using
          /\ stmt'[c].check = stmt[c].check /\ stmt'[c].visible = stmt[c].visible
      BY SMTT(30) DEF SameWrites
    <2>5. UnderPolicy(c, stmt[c].using, t, verb, "using", v)'
      BY <2>2, <2>3, <2>4, ZenonT(30) DEF UnderPolicy, TookPolicy, Revoked, v
    <2>6. UnderPolicy(c, stmt[c].check, t, verb, "check", v)'
      BY <2>2, <2>3, <2>4, ZenonT(30) DEF UnderPolicy, TookPolicy, Revoked, v
    <2>7. ReadsRows(stmt[c].of) => UnderPolicy(c, stmt[c].visible, t, "select", "using", v)'
      BY <2>2, <2>3, <2>4 DEF UnderPolicy, TookPolicy, Revoked, v
    <2> QED
      BY <2>2, <2>4, <2>5, <2>6, <2>7 DEF TookShape, v
  <1> QED
    BY <1>1, <1>2, <1>3 DEF WritesUnderPolicy, WritesNothing

\* A statement nobody moves keeps what it took, whatever the owner does.
LEMMA UnmovedKeeps ==
    ASSUME IInv, NEW c \in Sessions, stmt[c] # None, Taken(c), stmt'[c] = stmt[c],
           history' = history \/ \E b \in Books : history' = Append(history, b)
    PROVE  Taken(c)'
  <1>1. \A b \in InForce(c) : b \in InForce(c)'
    BY InForceGrows DEF IInv, Sound, Shaped
  <1>2. /\ SameReads(stmt[c], stmt'[c]) /\ ReadsNothing(stmt[c], stmt'[c])
        /\ SameWrites(stmt[c], stmt'[c])
    BY DEF SameReads, SameWrites, ReadsNothing
  <1>3. stmt[c].of.kind \in WriteVerbs => WritesNothing(stmt[c], stmt'[c])
    BY DEF WritesNothing, Taken, WritesUnderPolicy
  <1> QED
    BY <1>1, <1>2, <1>3, ReadKeeps, WriteKeeps DEF Taken

\* A step of one session, as the statement of that session sees it.
Moves(c) ==
    /\ history' = history
    /\ \A d \in Sessions \ {c} : stmt'[d] = stmt[d]

\* It is enough to look at that statement.
LEMMA OneTakes ==
    ASSUME IInv, JInv, NEW c \in Sessions, Moves(c), stmt'[c] # None => Taken(c)'
    PROVE  JInv'
  <1>1. ASSUME NEW d \in Sessions, d # c, stmt'[d] # None PROVE Taken(d)'
    BY <1>1, UnmovedKeeps DEF Moves, JInv
  <1> QED
    BY <1>1 DEF JInv

\* The books of a statement that goes on in a step of its session.
LEMMA SameBooks ==
    ASSUME NEW c, Moves(c), stmt'[c].began = stmt[c].began
    PROVE  InForce(c)' = InForce(c)
  BY DEF Moves, InForce

\* A step of the statement that takes no policy.
LEMMA Carries ==
    ASSUME IInv, JInv, NEW c \in Sessions, stmt[c] # None, Moves(c),
           stmt'[c].began = stmt[c].began,
           SameReads(stmt[c], stmt'[c]), ReadsNothing(stmt[c], stmt'[c]),
           stmt[c].of.kind \in WriteVerbs =>
               SameWrites(stmt[c], stmt'[c]) /\ WritesNothing(stmt[c], stmt'[c])
    PROVE  JInv'
  <1>1. \A b \in InForce(c) : b \in InForce(c)'
    BY SameBooks
  <1>2. Taken(c)
    BY DEF JInv
  <1>3. ReadsUnderPolicy(c)'
    BY <1>1, <1>2, ReadKeeps DEF Taken
  <1>4. ASSUME stmt'[c].of.kind \in WriteVerbs PROVE WritesUnderPolicy(c)'
    <2>1. stmt[c].of.kind \in WriteVerbs
      BY <1>4 DEF SameReads
    <2> QED
      BY <1>1, <1>2, <2>1, WriteKeeps DEF Taken
  <1> QED
    BY <1>3, <1>4, OneTakes DEF Taken

\* A statement that ends has taken nothing.
LEMMA EndsTakes ==
    ASSUME IInv, JInv, NEW c \in Sessions, Ends(c)
    PROVE  JInv'
  <1>1. stmt'[c] = None /\ Moves(c)
    BY DEF Ends, IInv, State, Moves, ownerVars
  <1> QED
    BY <1>1, OneTakes

\* What a statement that goes to another step keeps.
LEMMA Stepped ==
    ASSUME IInv, NEW c \in Sessions, stmt[c] # None, NEW x,
           stmt' = [stmt EXCEPT ![c].step = x], history' = history
    PROVE  /\ Moves(c) /\ stmt'[c].began = stmt[c].began /\ stmt'[c].step = x
           /\ SameReads(stmt[c], stmt'[c]) /\ SameWrites(stmt[c], stmt'[c])
  <1>1. DOMAIN stmt[c] = Fields
    BY DEF IInv, Sound, Shaped
  <1>2. stmt'[c] = [stmt[c] EXCEPT !.step = x] /\ Moves(c)
    BY DEF IInv, State, Moves
  <1> QED
    BY <1>1, <1>2 DEF Fields, SameReads, SameWrites

\* The lookup and the description come before any policy is read.
LEMMA EarlySteps ==
    ASSUME IInv, JInv, NEW c \in Sessions,
           \/ FindSchema(c) \/ AskServed(c) \/ CreateMissing(c) \/ FindSchemaAgain(c)
           \/ DescribeColumns(c) \/ Plan(c)
    PROVE  JInv'
  <1>0. stmt[c] # None /\ stmt[c].step \in {"schema", "served", "create", "again", "columns", "plan"}
    BY DEF FindSchema, AskServed, CreateMissing, FindSchemaAgain, DescribeColumns, Plan, At
  <1>1. ASSUME NEW x \in {"describe", "served", "create", "again", "no_schema", "conflict", "plan", "use"},
               stmt' = [stmt EXCEPT ![c].step = x], history' = history
        PROVE  JInv'
    <2>1. /\ Moves(c) /\ stmt'[c].began = stmt[c].began /\ stmt'[c].step = x
          /\ SameReads(stmt[c], stmt'[c]) /\ SameWrites(stmt[c], stmt'[c])
      BY <1>0, <1>1, Stepped
    <2>2. ReadsNothing(stmt[c], stmt'[c]) /\ WritesNothing(stmt[c], stmt'[c])
      BY <1>0, <2>1 DEF ReadsNothing, WritesNothing, Unread, Steps, Snapped, Altering
    <2> QED
      BY <1>0, <2>1, <2>2, Carries
  <1>2. \/ Ends(c)
        \/ \E x \in {"describe", "served", "create", "again", "no_schema", "conflict", "plan", "use"} :
              stmt' = [stmt EXCEPT ![c].step = x] /\ history' = history
    BY DEF FindSchema, AskServed, CreateMissing, FindSchemaAgain, DescribeColumns, Plan, Goes,
           CreateServedSchemas, CreateConflicts, ownerVars
  <1> QED
    BY <1>1, <1>2, EndsTakes

\* Describing and pinning read the book for other things than predicates.
LEMMA PlanningSteps ==
    ASSUME IInv, JInv, NEW c \in Sessions, DescribeGrant(c) \/ Use(c) \/ AlterGrant(c)
    PROVE  JInv'
  <1>0. /\ stmt[c] # None /\ Taken(c) /\ DOMAIN stmt[c] = Fields /\ DOMAIN stmt = Sessions
        /\ stmt[c].of \in Statement
    BY StatementAssumption DEF DescribeGrant, Use, AlterGrant, At, IInv, JInv, Sound, Shaped, State
  <1>1. CASE DescribeGrant(c)
    <2>1. ASSUME NEW v, Learns(c, [stmt[c] EXCEPT !.step = "columns", !.verbs = v]) PROVE JInv'
      <3>1. stmt'[c] = [stmt[c] EXCEPT !.step = "columns", !.verbs = v] /\ Moves(c)
        BY <1>0, <2>1 DEF Learns, Moves, ownerVars
      <3>2. /\ stmt'[c].began = stmt[c].began /\ stmt'[c].step = "columns"
            /\ SameReads(stmt[c], stmt'[c]) /\ SameWrites(stmt[c], stmt'[c])
        BY <1>0, <3>1 DEF Fields, SameReads, SameWrites
      <3>3. stmt[c].step = "describe"
        BY <1>1 DEF DescribeGrant, At
      <3>4. ReadsNothing(stmt[c], stmt'[c]) /\ WritesNothing(stmt[c], stmt'[c])
        BY <3>2, <3>3 DEF ReadsNothing, WritesNothing, Unread, Steps, Snapped, Altering
      <3> QED
        BY <1>0, <3>1, <3>2, <3>4, Carries
    <2> QED
      BY <1>1, <2>1, EndsTakes DEF DescribeGrant
  <1>2. CASE Use(c)
    <2> DEFINE x == AfterUse(stmt[c].of)
    <2>1. /\ x \in {"resolver", "shaper", "alter_grant"}
          /\ stmt[c].of.kind \in WriteVerbs => x = "shaper"
          /\ x = "resolver" => stmt[c].of.kind = "select"
      BY <1>0 DEF AfterUse, Statement, Verbs, WriteVerbs
    <2>2. x = "resolver" => 0 < Len(stmt[c].of.floors)
      <3>1. stmt[c].of.kind = "select" => stmt[c].of.floors # <<>>
        BY <1>0, StatementAssumption DEF IInv, Sound, Shaped
      <3>2. stmt[c].of.floors \in Seq(Tables)
        BY <1>0 DEF Statement
      <3> QED
        BY <2>1, <3>1, <3>2
    <2> HIDE DEF x
    <2>3. ASSUME NEW n, stmt' = [stmt EXCEPT ![c].step = x, ![c].catalog = n], history' = history
          PROVE  JInv'
      <3>1. stmt'[c] = [stmt[c] EXCEPT !.step = x, !.catalog = n] /\ Moves(c)
        BY <1>0, <2>3 DEF Moves
      <3>2. /\ stmt'[c].began = stmt[c].began /\ stmt'[c].step = x
            /\ SameReads(stmt[c], stmt'[c]) /\ SameWrites(stmt[c], stmt'[c])
        BY <1>0, <3>1 DEF Fields, SameReads, SameWrites
      <3>3. stmt[c].step = "use"
        BY <1>2 DEF Use, At
      <3>4. /\ ReadsNothing(stmt[c], stmt'[c])
            /\ stmt[c].of.kind \in WriteVerbs => WritesNothing(stmt[c], stmt'[c])
        BY <2>1, <2>2, <3>2, <3>3 DEF ReadsNothing, WritesNothing, Unread, Steps, Snapped, Altering
      <3> QED
        BY <1>0, <3>1, <3>2, <3>4, Carries
    <2>4. \/ Ends(c)
          \/ stmt' = [stmt EXCEPT ![c].step = x, ![c].catalog = PinnedName] /\ history' = history
      BY <1>2 DEF Use, ownerVars, x
    <2> QED
      BY <2>3, <2>4, EndsTakes
  <1>3. CASE AlterGrant(c)
    <2>0. stmt[c].step = "alter_grant" /\ stmt[c].of.kind \notin WriteVerbs
      BY <1>0, <1>3 DEF AlterGrant, At, Taken, WritesUnderPolicy, Altering
    <2>1. ASSUME NEW v, Learns(c, [stmt[c] EXCEPT !.step = "alter_context", !.grant = v]) PROVE JInv'
      <3>1. stmt'[c] = [stmt[c] EXCEPT !.step = "alter_context", !.grant = v] /\ Moves(c)
        BY <1>0, <2>1 DEF Learns, Moves, ownerVars
      <3>2. /\ stmt'[c].began = stmt[c].began /\ stmt'[c].step = "alter_context"
            /\ SameReads(stmt[c], stmt'[c])
        BY <1>0, <3>1 DEF Fields, SameReads
      <3>4. ReadsNothing(stmt[c], stmt'[c])
        BY <2>0, <3>2 DEF ReadsNothing, Unread, Steps
      <3> QED
        BY <1>0, <2>0, <3>1, <3>2, <3>4, Carries
    <2> QED
      BY <1>3, <2>1, EndsTakes DEF AlterGrant
  <1> QED
    BY <1>1, <1>2, <1>3

\* The other steps that take nothing.
LEMMA LateSteps ==
    ASSUME IInv, JInv, NEW c \in Sessions, MayRead(c) \/ AlterContext(c) \/ AlterColumn(c) \/ Run(c)
    PROVE  JInv'
  <1>0. /\ stmt[c] # None /\ Taken(c) /\ DOMAIN stmt[c] = Fields /\ DOMAIN stmt = Sessions
        /\ stmt[c].of \in Statement
    BY StatementAssumption DEF MayRead, AlterContext, AlterColumn, Run, At, IInv, JInv, Sound, Shaped, State
  <1>1. CASE MayRead(c)
    <2>0. stmt[c].step = "may_read"
      BY <1>1 DEF MayRead, At
    <2>1. ASSUME NEW x \in {"using", "resolver"}, Goes(c, x), x = "resolver" => stmt[c].of.floors # <<>>
          PROVE  JInv'
      <3>1. /\ Moves(c) /\ stmt'[c].began = stmt[c].began /\ stmt'[c].step = x
            /\ SameReads(stmt[c], stmt'[c]) /\ SameWrites(stmt[c], stmt'[c])
        BY <1>0, <2>1, Stepped DEF Goes, ownerVars
      <3>2. x = "resolver" => 0 < Len(stmt[c].of.floors)
        BY <1>0, <2>1 DEF Statement
      <3>3. ReadsNothing(stmt[c], stmt'[c]) /\ WritesNothing(stmt[c], stmt'[c])
        BY <2>0, <3>1, <3>2 DEF ReadsNothing, WritesNothing, Unread, Steps, Snapped, Altering
      <3> QED
        BY <1>0, <3>1, <3>3, Carries
    <2> QED
      BY <1>1, <2>1, EndsTakes DEF MayRead
  <1>2. CASE AlterContext(c) \/ AlterColumn(c)
    <2>0. /\ stmt[c].step \in {"alter_context", "alter_column"}
          /\ stmt[c].of.kind \notin WriteVerbs
      BY <1>0, <1>2 DEF AlterContext, AlterColumn, At, Taken, WritesUnderPolicy, Altering
    <2>1. ASSUME NEW x \in {"unfilled", "run"}, Goes(c, x) PROVE JInv'
      <3>1. /\ Moves(c) /\ stmt'[c].began = stmt[c].began /\ stmt'[c].step = x
            /\ SameReads(stmt[c], stmt'[c])
        BY <1>0, <2>1, Stepped DEF Goes, ownerVars
      <3>2. ReadsNothing(stmt[c], stmt'[c])
        BY <2>0, <3>1 DEF ReadsNothing, Unread
      <3> QED
        BY <1>0, <2>0, <3>1, <3>2, Carries
    <2>2. ASSUME NEW v, Learns(c, [stmt[c] EXCEPT !.step = "alter_column", !.values = v]) PROVE JInv'
      <3>1. stmt'[c] = [stmt[c] EXCEPT !.step = "alter_column", !.values = v] /\ Moves(c)
        BY <1>0, <2>2 DEF Learns, Moves, ownerVars
      <3>2. /\ stmt'[c].began = stmt[c].began /\ stmt'[c].step = "alter_column"
            /\ SameReads(stmt[c], stmt'[c])
        BY <1>0, <3>1 DEF Fields, SameReads
      <3>3. ReadsNothing(stmt[c], stmt'[c])
        BY <2>0, <3>2 DEF ReadsNothing, Unread, Steps
      <3> QED
        BY <1>0, <2>0, <3>1, <3>2, <3>3, Carries
    <2>3. \/ Ends(c) \/ Goes(c, "unfilled") \/ Goes(c, "run")
          \/ Learns(c, [stmt[c] EXCEPT !.step = "alter_column", !.values = book.values])
      BY <1>2 DEF AlterContext, AlterColumn
    <2> QED
      BY <2>1, <2>2, <2>3, EndsTakes
  <1>3. CASE Run(c)
    <2>0. stmt[c].step = "run"
      BY <1>3 DEF Run, At
    <2>1. ASSUME NEW d, stmt' = [stmt EXCEPT ![c].step = "ran", ![c].database = d], history' = history
          PROVE  JInv'
      <3>1. stmt'[c] = [stmt[c] EXCEPT !.step = "ran", !.database = d] /\ Moves(c)
        BY <1>0, <2>1 DEF Moves
      <3>2. /\ stmt'[c].began = stmt[c].began /\ stmt'[c].step = "ran"
            /\ SameReads(stmt[c], stmt'[c]) /\ SameWrites(stmt[c], stmt'[c])
        BY <1>0, <3>1 DEF Fields, SameReads, SameWrites
      <3>3. ReadsNothing(stmt[c], stmt'[c]) /\ WritesNothing(stmt[c], stmt'[c])
        BY <2>0, <3>2 DEF ReadsNothing, WritesNothing, Unread, Snapped, Altering
      <3> QED
        BY <1>0, <3>1, <3>2, <3>3, Carries
    <2>2. \/ Ends(c)
          \/ /\ stmt' = [stmt EXCEPT ![c].step = "ran", ![c].database = Resolve(c, stmt[c].catalog)]
             /\ history' = history
      BY <1>3 DEF Run, ownerVars
    <2> QED
      BY <2>1, <2>2, EndsTakes
  <1> QED
    BY <1>1, <1>2, <1>3

--------------------------------------------------------------------------------
(* Steps that take policy *)

\* Every book a statement has met is one.
LEMMA InForceBooks ==
    ASSUME IInv, NEW c \in Sessions, stmt[c] # None, NEW b \in InForce(c)
    PROVE  b \in Books /\ b.values \in [Names -> Values \cup {Unset}]
  <1>1. b \in Books
    BY DEF IInv, State, Sound, Shaped, InForce
  <1> QED
    BY <1>1 DEF Books

\* A statement begins with no floors bound.
LEMMA BeginTakes ==
    ASSUME IInv, JInv, NEW c \in Sessions, NEW s \in Statements, Begin(c, s)
    PROVE  JInv'
  <1>1. stmt'[c] = Begun(s) /\ Moves(c)
    BY DEF Begin, Moves, IInv, State, ownerVars
  <1>2. stmt'[c].step = "schema" /\ stmt'[c].filters = <<>>
    BY <1>1 DEF Begun
  <1>3. ReadsUnderPolicy(c)'
    BY <1>2 DEF ReadsUnderPolicy
  <1>4. WritesUnderPolicy(c)'
    BY <1>2 DEF WritesUnderPolicy, Snapped, Altering
  <1> QED
    BY <1>1, <1>3, <1>4, OneTakes DEF Taken

\* The two snapshots are the context of the book.
LEMMA SnapshotTakes ==
    ASSUME IInv, JInv, NEW c \in Sessions, ResolverSnapshot(c) \/ ShaperSnapshot(c)
    PROVE  JInv'
  <1>0. /\ stmt[c] # None /\ Taken(c) /\ DOMAIN stmt[c] = Fields /\ DOMAIN stmt = Sessions
        /\ stmt[c].began \in 1..Len(history)
    BY DEF ResolverSnapshot, ShaperSnapshot, At, IInv, JInv, Sound, Shaped, State
  <1>1. book \in InForce(c)
    BY <1>0, BookInForce DEF IInv
  <1>2. CASE ResolverSnapshot(c)
    <2>0. stmt[c].step = "resolver" /\ stmt[c].filters = <<>>
      BY <1>0, <1>2 DEF ResolverSnapshot, At, Taken, ReadsUnderPolicy, Unread, Steps
    <2>1. stmt'[c] = [stmt[c] EXCEPT !.step = "floor", !.shown = book.values] /\ Moves(c)
      BY <1>0, <1>2 DEF ResolverSnapshot, Learns, Moves, ownerVars
    <2>2. /\ stmt'[c].began = stmt[c].began /\ stmt'[c].step = "floor"
          /\ stmt'[c].shown = book.values /\ stmt'[c].filters = <<>> /\ stmt'[c].of = stmt[c].of
          /\ SameWrites(stmt[c], stmt'[c])
      BY <1>0, <2>0, <2>1 DEF Fields, SameWrites
    <2>3. InForce(c)' = InForce(c)
      BY <2>1, <2>2, SameBooks
    <2>4. Len(stmt'[c].filters) < Len(stmt'[c].of.floors)
      BY <1>0, <2>0, <2>2 DEF Taken, ReadsUnderPolicy
    <2>5. ReadsUnderPolicy(c)'
      BY <1>1, <2>2, <2>3, <2>4 DEF ReadsUnderPolicy, Unread
    <2>6. WritesNothing(stmt[c], stmt'[c])
      BY <2>0, <2>2 DEF WritesNothing, Snapped, Altering
    <2>7. stmt'[c].of.kind \in WriteVerbs => WritesUnderPolicy(c)'
      BY <1>0, <2>2, <2>3, <2>6, WriteKeeps DEF Taken
    <2> QED
      BY <2>1, <2>5, <2>7, OneTakes DEF Taken
  <1>3. CASE ShaperSnapshot(c)
    <2>0. stmt[c].step = "shaper"
      BY <1>3 DEF ShaperSnapshot, At
    <2>1. stmt'[c] = [stmt[c] EXCEPT !.step = "may_read", !.values = book.values] /\ Moves(c)
      BY <1>0, <1>3 DEF ShaperSnapshot, Learns, Moves, ownerVars
    <2>2. /\ stmt'[c].began = stmt[c].began /\ stmt'[c].step = "may_read"
          /\ stmt'[c].values = book.values /\ SameReads(stmt[c], stmt'[c])
      BY <1>0, <2>1 DEF Fields, SameReads
    <2>3. InForce(c)' = InForce(c)
      BY <2>1, <2>2, SameBooks
    <2>4. ReadsNothing(stmt[c], stmt'[c])
      BY <2>0, <2>2 DEF ReadsNothing, Unread, Steps
    <2>5. ReadsUnderPolicy(c)'
      BY <1>0, <2>2, <2>3, <2>4, ReadKeeps DEF Taken
    <2>6. WritesUnderPolicy(c)'
      BY <1>1, <2>2, <2>3 DEF WritesUnderPolicy, Altering
    <2> QED
      BY <2>1, <2>5, <2>6, OneTakes DEF Taken
  <1> QED
    BY <1>2, <1>3

\* A floor goes on to its filter only if the book grants its select.
LEMMA CheckFloorTakes ==
    ASSUME IInv, JInv, NEW c \in Sessions, CheckFloor(c)
    PROVE  JInv'
  <1>0. /\ stmt[c] # None /\ Taken(c) /\ stmt[c].began \in 1..Len(history) /\ stmt[c].step = "floor"
    BY DEF CheckFloor, At, IInv, JInv, Sound, Shaped
  <1>1. book \in InForce(c)
    BY <1>0, BookInForce DEF IInv
  <1>2. ASSUME Has(Floor(c), "select"), Goes(c, "filter") PROVE JInv'
    <2>1. /\ Moves(c) /\ stmt'[c].began = stmt[c].began /\ stmt'[c].step = "filter"
          /\ SameReads(stmt[c], stmt'[c]) /\ SameWrites(stmt[c], stmt'[c])
      BY <1>0, <1>2, Stepped DEF Goes, ownerVars
    <2>2. InForce(c)' = InForce(c) /\ Floor(c)' = Floor(c)
      BY <2>1, SameBooks DEF Floor, SameReads
    <2>3. GrantedIn(book, Floor(c), "select")
      BY <1>2 DEF Has, GrantOf, GrantedIn
    <2>4. \A i \in 1..Len(stmt'[c].filters) : FloorTook(c, i)'
      BY <1>0, <2>1, <2>2 DEF Taken, ReadsUnderPolicy, FloorTook, UnderPolicy, TookPolicy, Revoked, SameReads
    <2>5. ReadsUnderPolicy(c)'
      BY <1>0, <1>1, <2>1, <2>2, <2>3, <2>4 DEF Taken, ReadsUnderPolicy, SameReads, Unread
    <2>6. WritesNothing(stmt[c], stmt'[c])
      BY <1>0, <2>1 DEF WritesNothing, Snapped, Altering
    <2>7. stmt'[c].of.kind \in WriteVerbs => WritesUnderPolicy(c)'
      BY <1>0, <2>1, <2>2, <2>6, WriteKeeps DEF Taken, SameReads
    <2> QED
      BY <2>1, <2>5, <2>7, OneTakes DEF Taken
  <1> QED
    BY <1>2, EndsTakes DEF CheckFloor

\* Going to the error of FillContext takes nothing.
LEMMA UnfilledTakes ==
    ASSUME IInv, JInv, NEW c \in Sessions, stmt[c] # None, Goes(c, "unfilled")
    PROVE  JInv'
  <1>1. /\ Moves(c) /\ stmt'[c].began = stmt[c].began /\ stmt'[c].step = "unfilled"
        /\ SameReads(stmt[c], stmt'[c]) /\ SameWrites(stmt[c], stmt'[c])
    BY Stepped DEF Goes, ownerVars
  <1>2. ReadsNothing(stmt[c], stmt'[c]) /\ WritesNothing(stmt[c], stmt'[c])
    BY <1>1 DEF ReadsNothing, WritesNothing, Unread, Snapped, Altering
  <1> QED
    BY <1>1, <1>2, Carries

\* A floor is bound under the select predicate of the book, filled from the snapshot.
LEMMA FilterFloorTakes ==
    ASSUME IInv, JInv, NEW c \in Sessions, FilterFloor(c)
    PROVE  JInv'
  <1> DEFINE raw == UsingFor(Floor(c), "select")
             f == Filled(raw, stmt[c].shown)
             filters == Append(stmt[c].filters, f)
             step == IF Len(filters) < Len(stmt[c].of.floors) THEN "floor" ELSE AfterFloors(stmt[c].of)
             s == [stmt[c] EXCEPT !.filters = filters, !.step = step]
  <1>0. /\ stmt[c] # None /\ Taken(c) /\ DOMAIN stmt[c] = Fields /\ DOMAIN stmt = Sessions
        /\ stmt[c].of \in Statement /\ stmt[c].step = "filter"
    BY StatementAssumption DEF FilterFloor, At, IInv, JInv, Sound, Shaped, State
  <1>1. /\ stmt[c].filters \in Seq(Filters) /\ Len(stmt[c].filters) < Len(stmt[c].of.floors)
        /\ stmt[c].of.floors \in Seq(Tables)
        /\ \E b \in InForce(c) : stmt[c].shown = b.values
        /\ \E b \in InForce(c) : GrantedIn(b, Floor(c), "select")
    BY <1>0 DEF Taken, ReadsUnderPolicy, Statement
  <1>2. Floor(c) \in Tables
    BY <1>1 DEF Floor
  <1>3. raw \in Preds \cup {None} /\ TookRaw(c, raw, Floor(c), "select", "using")
    BY <1>0, <1>2, ReadsRaw DEF Verbs
  <1>4. stmt[c].shown \in [Names -> Values \cup {Unset}]
    BY <1>0, <1>1, InForceBooks
  <1>5. f \in Filters /\ UnderPolicy(c, f, Floor(c), "select", "using", stmt[c].shown)
    BY <1>3, <1>4, FilledIsFilter, FilledIsTaken
  <1>6. ASSUME Learns(c, s) PROVE JInv'
    <2> HIDE DEF f
    <2>1. /\ filters \in Seq(Filters) /\ Len(filters) = Len(stmt[c].filters) + 1
          /\ \A i \in 1..Len(stmt[c].filters) : filters[i] = stmt[c].filters[i]
          /\ filters[Len(stmt[c].filters) + 1] = f
          /\ Len(stmt[c].filters) \in Nat
      BY <1>1, <1>5
    <2>2. /\ step \in {"floor", "run", "using"}
          /\ step = "floor" => Len(filters) < Len(stmt[c].of.floors)
          /\ stmt[c].of.kind \in WriteVerbs => step \in {"floor", "using"}
      BY DEF AfterFloors, WriteVerbs
    <2> HIDE DEF filters, step
    <2>3. stmt'[c] = s /\ Moves(c)
      BY <1>0, <1>6 DEF Learns, Moves, ownerVars
    <2>4. /\ stmt'[c].began = stmt[c].began /\ stmt'[c].step = step /\ stmt'[c].filters = filters
          /\ stmt'[c].shown = stmt[c].shown /\ stmt'[c].of = stmt[c].of
          /\ SameWrites(stmt[c], stmt'[c])
      BY <1>0, <2>3 DEF Fields, SameWrites
    <2>5. InForce(c)' = InForce(c)
      BY <2>3, <2>4, SameBooks
    <2>6. ASSUME NEW i \in 1..Len(filters) PROVE FloorTook(c, i)'
      <3>1. CASE i \in 1..Len(stmt[c].filters)
        <4>1. FloorTook(c, i)
          BY <1>0, <3>1 DEF Taken, ReadsUnderPolicy
        <4> QED
          BY <2>1, <2>4, <2>5, <3>1, <4>1 DEF FloorTook, UnderPolicy, TookPolicy, Revoked
      <3>2. CASE i = Len(stmt[c].filters) + 1
        <4>1. stmt'[c].of.floors[i] = Floor(c) /\ stmt'[c].filters[i] = f
          BY <2>1, <2>4, <3>2 DEF Floor
        <4> QED
          BY <1>1, <1>5, <2>4, <2>5, <4>1 DEF FloorTook, UnderPolicy, TookPolicy, Revoked
      <3> QED
        BY <2>1, <3>1, <3>2, SMTT(30)
    <2>7. ReadsUnderPolicy(c)'
      BY <1>1, <2>1, <2>2, <2>4, <2>5, <2>6 DEF ReadsUnderPolicy, Unread
    <2>8. stmt[c].of.kind \in WriteVerbs => WritesNothing(stmt[c], stmt'[c])
      BY <1>0, <2>2, <2>4 DEF WritesNothing, Snapped, Altering
    <2>9. stmt'[c].of.kind \in WriteVerbs => WritesUnderPolicy(c)'
      BY <1>0, <2>4, <2>5, <2>8, WriteKeeps DEF Taken
    <2> QED
      BY <2>3, <2>7, <2>9, OneTakes DEF Taken
  <1> HIDE DEF s
  <1>7. Goes(c, "unfilled") \/ Learns(c, s)
    BY DEF FilterFloor, s
  <1> QED
    BY <1>0, <1>6, <1>7, UnfilledTakes

\* PolicyShaper reads USING and the check of the book, in two critical sections.
LEMMA ShapeTakes ==
    ASSUME IInv, JInv, NEW c \in Sessions, ShapeUsing(c) \/ ShapeCheck(c)
    PROVE  JInv'
  <1> DEFINE t == stmt[c].of.table
             verb == stmt[c].of.kind
  <1>0. /\ stmt[c] # None /\ Taken(c) /\ DOMAIN stmt[c] = Fields /\ DOMAIN stmt = Sessions
        /\ stmt[c].of \in Statement
    BY StatementAssumption DEF ShapeUsing, ShapeCheck, At, IInv, JInv, Sound, Shaped, State
  <1>1. t \in Tables /\ verb \in Verbs
    BY <1>0 DEF Statement
  <1>2. /\ TookRaw(c, UsingFor(t, verb), t, verb, "using")
        /\ TookRaw(c, CheckFor(t, verb), t, verb, "check")
    BY <1>0, <1>1, ReadsRaw
  <1>3. CASE ShapeUsing(c)
    <2>0. stmt[c].step = "using"
      BY <1>3 DEF ShapeUsing, At
    <2>1. stmt'[c] = [stmt[c] EXCEPT !.step = "check", !.using = UsingFor(t, verb)] /\ Moves(c)
      BY <1>0, <1>3 DEF ShapeUsing, Learns, Moves, ownerVars
    <2>2. /\ stmt'[c].began = stmt[c].began /\ stmt'[c].step = "check"
          /\ stmt'[c].using = UsingFor(t, verb) /\ stmt'[c].values = stmt[c].values
          /\ SameReads(stmt[c], stmt'[c])
      BY <1>0, <2>1 DEF Fields, SameReads
    <2>3. InForce(c)' = InForce(c)
      BY <2>1, <2>2, SameBooks
    <2>4. ReadsNothing(stmt[c], stmt'[c])
      BY <2>2 DEF ReadsNothing, Unread
    <2>5. ReadsUnderPolicy(c)'
      BY <1>0, <2>2, <2>3, <2>4, ReadKeeps DEF Taken
    <2>6. ASSUME verb \in WriteVerbs PROVE WritesUnderPolicy(c)'
      <3>1. \E b \in InForce(c) : stmt[c].values = b.values
        BY <1>0, <2>0, <2>6, SMTT(30) DEF Taken, WritesUnderPolicy, Snapped
      <3>2. TookRaw(c, stmt[c].using, t, verb, "using")'
        BY <1>2, <2>2, <2>3 DEF TookRaw, SameReads
      <3> QED
        BY <2>2, <2>3, <3>1, <3>2 DEF WritesUnderPolicy, Altering
    <2> QED
      BY <2>1, <2>2, <2>5, <2>6, OneTakes DEF Taken, SameReads
  <1>4. CASE ShapeCheck(c)
    <2>0. stmt[c].step = "check"
      BY <1>4 DEF ShapeCheck, At
    <2>1. stmt'[c] = [stmt[c] EXCEPT !.step = "visible", !.check = CheckFor(t, verb)] /\ Moves(c)
      BY <1>0, <1>4 DEF ShapeCheck, Learns, Moves, ownerVars
    <2>2. /\ stmt'[c].began = stmt[c].began /\ stmt'[c].step = "visible"
          /\ stmt'[c].check = CheckFor(t, verb) /\ stmt'[c].values = stmt[c].values
          /\ stmt'[c].using = stmt[c].using /\ SameReads(stmt[c], stmt'[c])
      BY <1>0, <2>1 DEF Fields, SameReads
    <2>3. InForce(c)' = InForce(c)
      BY <2>1, <2>2, SameBooks
    <2>4. ReadsNothing(stmt[c], stmt'[c])
      BY <2>2 DEF ReadsNothing, Unread
    <2>5. ReadsUnderPolicy(c)'
      BY <1>0, <2>2, <2>3, <2>4, ReadKeeps DEF Taken
    <2>6. ASSUME verb \in WriteVerbs PROVE WritesUnderPolicy(c)'
      <3>1. /\ \E b \in InForce(c) : stmt[c].values = b.values
            /\ TookRaw(c, stmt[c].using, t, verb, "using")
        BY <1>0, <2>0, <2>6, SMTT(30) DEF Taken, WritesUnderPolicy, Snapped
      <3>2. TookRaw(c, stmt[c].using, t, verb, "using")'
        BY <2>2, <2>3, <3>1, ZenonT(30) DEF TookRaw, SameReads
      <3>3. TookRaw(c, stmt[c].check, t, verb, "check")'
        BY <1>2, <2>2, <2>3 DEF TookRaw, SameReads
      <3> QED
        BY <2>2, <2>3, <3>1, <3>2, <3>3 DEF WritesUnderPolicy, Altering
    <2> QED
      BY <2>1, <2>2, <2>5, <2>6, OneTakes DEF Taken, SameReads
  <1> QED
    BY <1>3, <1>4

\* The last of PolicyShaper's reads, after which the three predicates are filled from one snapshot.
LEMMA ShapeVisibleTakes ==
    ASSUME IInv, JInv, NEW c \in Sessions, ShapeVisible(c)
    PROVE  JInv'
  <1> DEFINE t == stmt[c].of.table
             verb == stmt[c].of.kind
             visible == IF ReadsRows(stmt[c].of) THEN UsingFor(t, "select") ELSE None
             v == Filled(visible, stmt[c].values)
             u == Filled(stmt[c].using, stmt[c].values)
             k == Filled(stmt[c].check, stmt[c].values)
             s == [stmt[c] EXCEPT !.step = "run", !.visible = v, !.using = u, !.check = k]
  <1>0. /\ stmt[c] # None /\ Taken(c) /\ DOMAIN stmt[c] = Fields /\ DOMAIN stmt = Sessions
        /\ stmt[c].of \in Statement /\ stmt[c].step = "visible"
    BY StatementAssumption DEF ShapeVisible, At, IInv, JInv, Sound, Shaped, State
  <1>1. t \in Tables /\ "select" \in Verbs
    BY <1>0 DEF Statement, Verbs
  <1>2. ASSUME Learns(c, s) PROVE JInv'
    <2> HIDE DEF v, u, k
    <2>1. stmt'[c] = s /\ Moves(c)
      BY <1>0, <1>2 DEF Learns, Moves, ownerVars
    <2>2. /\ stmt'[c].began = stmt[c].began /\ stmt'[c].step = "run" /\ stmt'[c].visible = v
          /\ stmt'[c].using = u /\ stmt'[c].check = k /\ SameReads(stmt[c], stmt'[c])
      BY <1>0, <2>1 DEF Fields, SameReads
    <2>3. InForce(c)' = InForce(c)
      BY <2>1, <2>2, SameBooks
    <2>4. ReadsNothing(stmt[c], stmt'[c])
      BY <2>2 DEF ReadsNothing, Unread
    <2>5. ReadsUnderPolicy(c)'
      BY <1>0, <2>2, <2>3, <2>4, ReadKeeps DEF Taken
    <2>6. ASSUME verb \in WriteVerbs PROVE WritesUnderPolicy(c)'
      <3>1. /\ \E b \in InForce(c) : stmt[c].values = b.values
            /\ TookRaw(c, stmt[c].using, t, verb, "using")
            /\ TookRaw(c, stmt[c].check, t, verb, "check")
        BY <1>0, <2>6 DEF Taken, WritesUnderPolicy, Snapped
      <3>2. PICK b \in InForce(c) : stmt[c].values = b.values
        BY <3>1
      <3>3. stmt[c].values \in [Names -> Values \cup {Unset}]
        BY <1>0, <3>2, InForceBooks, SMTT(30)
      <3>4. UnderPolicy(c, u, t, verb, "using", stmt[c].values)
        BY <3>1, <3>3, FilledIsTaken DEF TookRaw, u
      <3>5. UnderPolicy(c, k, t, verb, "check", stmt[c].values)
        BY <3>1, <3>3, FilledIsTaken DEF TookRaw, k
      <3>6. ASSUME ReadsRows(stmt[c].of)
            PROVE  UnderPolicy(c, v, t, "select", "using", stmt[c].values)
        <4>1. TookRaw(c, UsingFor(t, "select"), t, "select", "using")
          BY <1>0, <1>1, ReadsRaw
        <4>2. v = Filled(UsingFor(t, "select"), stmt[c].values)
          BY <3>6 DEF v
        <4> QED
          BY <3>3, <4>1, <4>2, FilledIsTaken DEF TookRaw
      <3>7. TookShape(c)'
        <4>1. /\ UnderPolicy(c, stmt[c].using, t, verb, "using", b.values)'
              /\ UnderPolicy(c, stmt[c].check, t, verb, "check", b.values)'
          BY <2>2, <2>3, <3>2, <3>4, <3>5 DEF UnderPolicy, TookPolicy, Revoked, SameReads
        <4>2. ReadsRows(stmt[c].of) => UnderPolicy(c, stmt[c].visible, t, "select", "using", b.values)'
          BY <2>2, <2>3, <3>2, <3>6 DEF UnderPolicy, TookPolicy, Revoked, SameReads
        <4> QED
          BY <2>2, <2>3, <4>1, <4>2 DEF TookShape, SameReads
      <3> QED
        BY <2>2, <3>7 DEF WritesUnderPolicy, Snapped, Altering
    <2> QED
      BY <2>1, <2>2, <2>5, <2>6, OneTakes DEF Taken, SameReads
  <1>3. Goes(c, "unfilled") \/ Learns(c, s)
    BY DEF ShapeVisible
  <1> QED
    BY <1>0, <1>2, <1>3, UnfilledTakes

--------------------------------------------------------------------------------
(* The theorems *)

\* Every step keeps what the statements in flight have taken.
LEMMA StepTakes == IInv /\ JInv /\ [Next]_vars => JInv'
  <1> SUFFICES ASSUME IInv, JInv, [Next]_vars PROVE JInv'
    OBVIOUS
  <1>1. ASSUME NEW c \in Sessions, TargetStep(c) PROVE JInv'
    <2>1. CASE \E s \in Statements : Begin(c, s)
      BY <2>1, BeginTakes
    <2>2. CASE \/ FindSchema(c) \/ AskServed(c) \/ CreateMissing(c) \/ FindSchemaAgain(c)
               \/ DescribeColumns(c) \/ Plan(c)
      BY <2>2, EarlySteps
    <2>3. CASE DescribeGrant(c) \/ Use(c) \/ AlterGrant(c)
      BY <2>3, PlanningSteps
    <2>4. CASE MayRead(c) \/ AlterContext(c) \/ AlterColumn(c) \/ Run(c)
      BY <2>4, LateSteps
    <2>5. CASE ResolverSnapshot(c) \/ ShaperSnapshot(c)
      BY <2>5, SnapshotTakes
    <2>6. CASE CheckFloor(c)
      BY <2>6, CheckFloorTakes
    <2>7. CASE FilterFloor(c)
      BY <2>7, FilterFloorTakes
    <2>8. CASE ShapeUsing(c) \/ ShapeCheck(c)
      BY <2>8, ShapeTakes
    <2>9. CASE ShapeVisible(c)
      BY <2>9, ShapeVisibleTakes
    <2>10. CASE Finish(c)
      BY <2>10, EndsTakes DEF Finish
    <2>11. CASE EndTransaction(c)
      <3>1. stmt'[c] = None /\ Moves(c)
        BY <2>11 DEF EndTransaction, ownerVars, Moves
      <3> QED
        BY <3>1, OneTakes
    <2> QED
      BY <1>1, <2>1, <2>2, <2>3, <2>4, <2>5, <2>6, <2>7, <2>8, <2>9, <2>10, <2>11 DEF TargetStep
  <1>2. ASSUME stmt' = stmt, history' = history \/ \E b \in Books : history' = Append(history, b)
        PROVE  JInv'
    BY <1>2, UnmovedKeeps DEF JInv
  <1>3. CASE CatalogStep
    <2>1. stmt' = stmt /\ history' = history
      BY <1>3 DEF CatalogStep, Bind, BindSchemas, ScanSchemas, CheckDrop, DropEntry, CommitDrop, RollbackDrop,
           CleanUpDrop, ownerVars
    <2> QED
      BY <1>2, <2>1
  <1>4. CASE OwnerStep
    BY <1>2, <1>4, OwnerAppends
  <1>5. CASE UNCHANGED vars
    BY <1>2, <1>5 DEF vars, ownerVars
  <1> QED
    BY <1>1, <1>3, <1>4, <1>5 DEF Next

\* In every reachable state what a statement has taken of the policy is the policy of books it met.
THEOREM PolicyIsTaken == Spec => []JInv
  <1>1. Init => JInv
    BY DEF Init, JInv
  <1>2. IInv /\ JInv /\ [Next]_vars => JInv'
    BY StepTakes
  <1> QED
    BY <1>1, <1>2, StatementsAreSound, PTL DEF Spec

\* For every policy and every sequence of edits, a plan reads a table on the source only if its select
\* was granted at some moment of the statement, and under the select predicate of such a moment
\* unless that grant was revoked during the statement; all of them under one context (PolicyResolver).
THEOREM ReadsFilteredUnlessRevoked == Spec => []FilteredUnlessRevoked
  <1>1. IInv /\ JInv => FilteredUnlessRevoked
    <2> SUFFICES ASSUME IInv, JInv, NEW c \in Sessions, stmt[c] # None
                 PROVE  \E b \in InForce(c) : \A i \in DOMAIN stmt[c].filters :
                           LET t == stmt[c].of.floors[i]
                           IN  /\ \E granted \in InForce(c) : GrantedIn(granted, t, "select")
                               /\ UnderPolicy(c, stmt[c].filters[i], t, "select", "using", b.values)
      BY DEF FilteredUnlessRevoked
    <2>1. /\ ReadsUnderPolicy(c) /\ stmt[c].filters \in Seq(Filters)
          /\ DOMAIN stmt[c].filters = 1..Len(stmt[c].filters)
      BY DEF JInv, Taken, ReadsUnderPolicy
    <2>2. book \in InForce(c)
      BY BookInForce DEF IInv, Sound, Shaped
    <2>3. CASE stmt[c].filters = <<>>
      BY <2>1, <2>2, <2>3
    <2>4. CASE stmt[c].filters # <<>>
      <3>1. PICK b \in InForce(c) : stmt[c].shown = b.values
        BY <2>1, <2>4 DEF ReadsUnderPolicy
      <3>2. \A i \in 1..Len(stmt[c].filters) : FloorTook(c, i)
        BY <2>1 DEF ReadsUnderPolicy
      <3> QED
        BY <2>1, <3>1, <3>2 DEF FloorTook
    <2> QED
      BY <2>3, <2>4
  <1> QED
    BY <1>1, StatementsAreSound, PolicyIsTaken, PTL

\* A write reaches the source under a USING and a check of its verb that were in force during the
\* statement, and a select predicate if it reads rows, the three under one context, unless the verb
\* was revoked during the statement (PolicyShaper).  The plan that feeds it is no part of this.
THEOREM WritesShapedUnlessRevoked == Spec => []ShapedUnlessRevoked
  <1>1. JInv => ShapedUnlessRevoked
    BY DEF JInv, Taken, WritesUnderPolicy, TookShape, WriteVerbs, IsWrite, ShapedUnlessRevoked
  <1> QED
    BY <1>1, PolicyIsTaken, PTL

--------------------------------------------------------------------------------
(* The context: the inductive invariant *)

\* The predicates of a book use names that it sets, or that were left unset at ATTACH.
Binds(b) ==
    \A t \in Tables : b.grants[t] # None =>
        \A p \in PredsOf(b.grants[t]) : \A n \in Names :
            n \in Uses[p] => b.values[n] # Unset \/ n \in UnboundAtAttach

\* Set names stay set from book to book, and every book binds its own predicates as far as that.
ContextState ==
    /\ \A i, j \in 1..Len(history) : i <= j =>
          \A n \in Names : history[i].values[n] # Unset => history[j].values[n] # Unset
    /\ \A i \in 1..Len(history) : Binds(history[i])

CatalogState ==
    /\ schemas \subseteq Schemas /\ bound \in {"unbound", "bound", "served"}
    /\ dropping \in [schema: Schemas, dropped: BOOLEAN] \cup {None} /\ lingering \subseteq Schemas
    /\ begun \subseteq Sessions /\ seen \in [Sessions -> SUBSET Schemas]
    /\ autocommit \in [Sessions -> BOOLEAN] /\ moves \in 0..MaxChanges

Writing == {"shaper", "may_read", "using", "check", "visible"}

HasReason(c) ==
    \E n \in Names : /\ history[stmt[c].began].values[n] = Unset
                     /\ book.values[n] # Unset \/ n \in UnboundAtAttach

Filling(c) ==
    /\ stmt[c].step \in Writing => stmt[c].of.kind \in WriteVerbs
    /\ stmt[c].of.kind \notin WriteVerbs =>
          stmt[c].using = None /\ stmt[c].check = None /\ stmt[c].visible = None
    /\ \A i \in 1..Len(stmt[c].filters) : IsFilter(stmt[c].filters[i])
    /\ stmt[c].step \in {"run", "ran"} =>
          IsFilter(stmt[c].using) /\ IsFilter(stmt[c].check) /\ IsFilter(stmt[c].visible)
    /\ stmt[c].step = "unfilled" => HasReason(c)

KInv ==
    ContextState /\ CatalogState /\ \A c \in Sessions : stmt[c] # None => Filling(c)

--------------------------------------------------------------------------------
(* The context of the books a statement has met *)

\* A name set in one of them is set by now; one unset in any of them was unset at the beginning.
LEMMA SetStays ==
    ASSUME IInv, ContextState, NEW c \in Sessions, stmt[c] # None, NEW b \in InForce(c),
           NEW n \in Names
    PROVE  /\ b.values[n] # Unset => book.values[n] # Unset
           /\ b.values[n] = Unset => history[stmt[c].began].values[n] = Unset
  <1>1. stmt[c].began \in 1..Len(history) /\ Len(history) \in Nat /\ Len(history) > 0
    BY DEF IInv, State, Sound, Shaped
  <1>2. PICK i \in stmt[c].began..Len(history) : b = history[i]
    BY DEF InForce
  <1>3. i \in 1..Len(history) /\ i <= Len(history) /\ stmt[c].began <= i
    BY <1>1, <1>2
  <1>4. Len(history) \in 1..Len(history)
    BY <1>1
  <1>5. b.values[n] # Unset => book.values[n] # Unset
    BY <1>2, <1>3, <1>4 DEF ContextState, book
  <1>6. history[stmt[c].began].values[n] # Unset => b.values[n] # Unset
    BY <1>1, <1>2, <1>3 DEF ContextState
  <1> QED
    BY <1>5, <1>6

\* The names of the predicate have values, except those left unset at ATTACH.
FillsMostly(p, values) == p = None \/ \A n \in Uses[p] : values[n] # Unset \/ n \in UnboundAtAttach

\* The predicates of a book bind with its own context, as far as they did at ATTACH.
LEMMA BookBinds ==
    ASSUME IInv, ContextState, NEW c \in Sessions, stmt[c] # None, NEW b \in InForce(c),
           NEW t \in Tables, b.grants[t] # None, NEW verb \in Verbs
    PROVE  /\ FillsMostly(b.grants[t].using[verb], b.values)
           /\ FillsMostly(b.grants[t].check[verb], b.values)
  <1>1. b \in Books
    BY InForceBooks
  <1>2. b.grants[t] \in SourceGrant
    BY <1>1 DEF Books
  <1>3. Binds(b)
    BY DEF IInv, State, Sound, Shaped, ContextState, InForce
  <1>4. /\ b.grants[t].using[verb] \in Preds \cup {None}
        /\ b.grants[t].check[verb] \in Preds \cup {None}
    BY <1>2 DEF SourceGrant
  <1>5. ASSUME NEW p \in Preds, p = b.grants[t].using[verb] \/ p = b.grants[t].check[verb],
               NEW n \in Uses[p]
        PROVE  b.values[n] # Unset \/ n \in UnboundAtAttach
    <2>1. n \in Names /\ p # None
      BY <1>5, StatementAssumption
    <2>2. p \in PredsOf(b.grants[t])
      BY <1>5, <2>1 DEF PredsOf
    <2> QED
      BY <1>3, <1>5, <2>1, <2>2 DEF Binds
  <1> QED
    BY <1>4, <1>5 DEF FillsMostly

\* A predicate of one book that another book's context does not fill: a name was set since, or was
\* left unset at ATTACH.
LEMMA UnfilledIsLate ==
    ASSUME IInv, ContextState, NEW c \in Sessions, stmt[c] # None,
           NEW b \in InForce(c), NEW v \in InForce(c), NEW p \in Preds \cup {None},
           FillsMostly(p, b.values), ~Fills(p, v.values)
    PROVE  HasReason(c)
  <1>1. p \in Preds /\ Uses[p] \subseteq Names
    BY StatementAssumption DEF Fills
  <1>2. PICK n \in Uses[p] : v.values[n] = Unset
    BY DEF Fills
  <1>3. b.values[n] # Unset \/ n \in UnboundAtAttach
    BY <1>1, <1>2, StatementAssumption DEF FillsMostly
  <1> QED
    BY <1>1, <1>2, <1>3, SetStays DEF HasReason

\* What is filled without an error is a filter.
LEMMA FilledIsFilled ==
    ASSUME NEW p \in Preds \cup {None}, NEW values \in [Names -> Values \cup {Unset}], Fills(p, values)
    PROVE  IsFilter(Filled(p, values))
  <1>1. CASE p = None
    BY <1>1 DEF Filled, IsFilter
  <1>2. CASE p # None
    <2>1. p \in Preds /\ Uses[p] \subseteq Names
      BY <1>2, StatementAssumption
    <2>2. [n \in Uses[p] |-> values[n]] \in [Uses[p] -> Values]
      BY <1>2, <2>1 DEF Fills
    <2>3. Filled(p, values) \in [pred: {p}, values: [Uses[p] -> Values]]
      BY <1>2, <2>2 DEF Filled
    <2> QED
      BY <2>1, <2>3 DEF IsFilter
  <1> QED
    BY <1>1, <1>2

\* The raw predicate a step took binds with the context of its book.
LEMMA RawBinds ==
    ASSUME IInv, ContextState, NEW c \in Sessions, stmt[c] # None,
           NEW t \in Tables, NEW verb \in Verbs, NEW clause \in {"using", "check"},
           NEW raw, TookRaw(c, raw, t, verb, clause)
    PROVE  \E b \in InForce(c) : FillsMostly(raw, b.values)
  <1>1. PICK b \in InForce(c) : \/ GrantedIn(b, t, verb) /\ raw = b.grants[t][clause][verb]
                                \/ ~GrantedIn(b, t, verb) /\ raw = None
    BY DEF TookRaw
  <1>2. CASE raw = None
    BY <1>1, <1>2 DEF FillsMostly
  <1>3. CASE raw # None
    <2>1. b.grants[t] # None /\ raw = b.grants[t][clause][verb]
      BY <1>1, <1>3 DEF GrantedIn
    <2>2. /\ FillsMostly(b.grants[t].using[verb], b.values)
          /\ FillsMostly(b.grants[t].check[verb], b.values)
      BY <2>1, BookBinds
    <2> QED
      BY <2>1, <2>2
  <1> QED
    BY <1>2, <1>3

--------------------------------------------------------------------------------
(* Steps that fill nothing *)

SameShape(r, s) ==
    /\ s.of = r.of /\ s.filters = r.filters /\ s.using = r.using /\ s.check = r.check
    /\ s.visible = r.visible

FillsNothing(r, s) ==
    /\ s.step \in Writing => r.step \in Writing \/ r.of.kind \in WriteVerbs
    /\ s.step \in {"run", "ran"} => r.step \in {"run", "ran"} \/ r.of.kind \notin WriteVerbs
    /\ s.step = "unfilled" => r.step = "unfilled"

\* What a step of session c leaves as it is, and where it leads.
Step(c) ==
    /\ Moves(c) /\ CatalogState'
    /\ stmt'[c].began = stmt[c].began

\* A statement nobody moves, after an owner's step or another session's.
LEMMA UnmovedFills ==
    ASSUME IInv, ContextState, ContextState', NEW c \in Sessions, stmt[c] # None, Filling(c),
           stmt'[c] = stmt[c],
           history' = history \/ \E b \in Books : history' = Append(history, b)
    PROVE  Filling(c)'
  <1>1. stmt[c].began \in 1..Len(history) /\ Len(history) \in Nat /\ history \in Seq(Books)
    BY DEF IInv, State, Sound, Shaped
  <1>2. HasReason(c) => HasReason(c)'
    <2>1. CASE history' = history
      BY <2>1 DEF HasReason, book, UnboundAtAttach
    <2>2. ASSUME NEW b \in Books, history' = Append(history, b) PROVE HasReason(c) => HasReason(c)'
      <3>1. /\ Len(history') = Len(history) + 1
            /\ \A i \in 1..Len(history) : history'[i] = history[i]
        BY <1>1, <2>2
      <3>2. /\ Len(history) \in 1..Len(history') /\ Len(history') \in 1..Len(history')
            /\ Len(history) <= Len(history') /\ Len(history) \in 1..Len(history)
        BY <1>1, <3>1
      <3>3. \A n \in Names : history[Len(history)].values[n] # Unset =>
                                 history'[Len(history')].values[n] # Unset
        BY <3>1, <3>2 DEF ContextState
      <3>4. UnboundAtAttach' = UnboundAtAttach
        BY <1>1, <3>1 DEF UnboundAtAttach
      <3> QED
        BY <1>1, <3>1, <3>3, <3>4 DEF HasReason, book
    <2> QED
      BY <2>1, <2>2
  <1> QED
    BY <1>2 DEF Filling, IsFilter

\* It is enough to look at the statement that moved.
LEMMA OneFills ==
    ASSUME IInv, KInv, NEW c \in Sessions, Moves(c), CatalogState',
           stmt'[c] # None => Filling(c)'
    PROVE  KInv'
  <1>1. ContextState'
    BY DEF KInv, ContextState, Moves, Binds, UnboundAtAttach
  <1>2. ASSUME NEW d \in Sessions, d # c, stmt'[d] # None PROVE Filling(d)'
    BY <1>1, <1>2, UnmovedFills DEF Moves, KInv
  <1> QED
    BY <1>1, <1>2 DEF KInv

\* A step that fills nothing.
LEMMA Passes ==
    ASSUME IInv, KInv, NEW c \in Sessions, stmt[c] # None, Step(c),
           SameShape(stmt[c], stmt'[c]), FillsNothing(stmt[c], stmt'[c])
    PROVE  KInv'
  <1>1. Filling(c)
    BY DEF KInv
  <1>2. HasReason(c) => HasReason(c)'
    BY DEF HasReason, Step, Moves, book, UnboundAtAttach
  <1>3. IsFilter(None)
    BY DEF IsFilter
  <1>4. Filling(c)'
    BY <1>1, <1>2, <1>3 DEF Filling, SameShape, FillsNothing, IsFilter
  <1> QED
    BY <1>4, OneFills DEF Step

\* A step to the error of FillContext, for a reason.
LEMMA GoesUnfilled ==
    ASSUME IInv, KInv, NEW c \in Sessions, stmt[c] # None, Goes(c, "unfilled"), HasReason(c)
    PROVE  KInv'
  <1>1. DOMAIN stmt[c] = Fields /\ DOMAIN stmt = Sessions /\ Filling(c)
    BY DEF IInv, State, Sound, Shaped, KInv
  <1>2. stmt'[c] = [stmt[c] EXCEPT !.step = "unfilled"] /\ Moves(c) /\ CatalogState'
    BY <1>1 DEF Goes, Moves, KInv, CatalogState, catalogVars, targetVars, ownerVars
  <1>3. /\ stmt'[c].began = stmt[c].began /\ stmt'[c].step = "unfilled"
        /\ SameShape(stmt[c], stmt'[c])
    BY <1>1, <1>2 DEF Fields, SameShape
  <1>4. HasReason(c)'
    BY <1>2, <1>3 DEF HasReason, Moves, book, UnboundAtAttach
  <1>5. Filling(c)'
    BY <1>1, <1>3, <1>4 DEF Filling, SameShape, Writing, IsFilter
  <1> QED
    BY <1>2, <1>5, OneFills

\* The end of a statement.
LEMMA EndsFills ==
    ASSUME IInv, KInv, NEW c \in Sessions, Ends(c)
    PROVE  KInv'
  <1>1. stmt'[c] = None /\ Moves(c) /\ CatalogState'
    BY DEF Ends, IInv, State, Moves, KInv, CatalogState, catalogVars, ownerVars
  <1> QED
    BY <1>1, OneFills

\* A statement that only goes to another step.
LEMMA GoesFills ==
    ASSUME IInv, KInv, NEW c \in Sessions, stmt[c] # None, NEW x,
           stmt' = [stmt EXCEPT ![c].step = x], history' = history, CatalogState',
           x \in Writing => stmt[c].step \in Writing,
           x \in {"run", "ran"} => stmt[c].of.kind \notin WriteVerbs,
           x # "unfilled"
    PROVE  KInv'
  <1>1. DOMAIN stmt[c] = Fields /\ DOMAIN stmt = Sessions
    BY DEF IInv, State, Sound, Shaped
  <1>2. stmt'[c] = [stmt[c] EXCEPT !.step = x] /\ Moves(c)
    BY <1>1 DEF Moves
  <1>3. /\ stmt'[c].began = stmt[c].began /\ stmt'[c].step = x
        /\ SameShape(stmt[c], stmt'[c])
    BY <1>1, <1>2 DEF Fields, SameShape
  <1>4. FillsNothing(stmt[c], stmt'[c])
    BY <1>3 DEF FillsNothing
  <1> QED
    BY <1>2, <1>3, <1>4, Passes DEF Step

\* A statement that keeps something that is no predicate.
LEMMA LearnsFills ==
    ASSUME IInv, KInv, NEW c \in Sessions, stmt[c] # None, NEW s, Learns(c, s),
           s.began = stmt[c].began, SameShape(stmt[c], s), FillsNothing(stmt[c], s)
    PROVE  KInv'
  <1>1. stmt'[c] = s /\ Moves(c) /\ CatalogState'
    BY DEF IInv, State, Learns, Moves, KInv, CatalogState, catalogVars, targetVars, ownerVars
  <1> QED
    BY <1>1, Passes DEF Step

\* Served schemas are schemas.
LEMMA ServedAreSchemas ==
    ASSUME NEW b
    PROVE  Served(b) \subseteq Schemas
  BY StatementAssumption DEF Served

\* The steps that decide only where to go on.
LEMMA DecidingSteps ==
    ASSUME IInv, JInv, KInv, NEW c \in Sessions,
           \/ FindSchema(c) \/ AskServed(c) \/ CreateMissing(c) \/ FindSchemaAgain(c)
           \/ DescribeColumns(c) \/ Plan(c) \/ CheckFloor(c) \/ MayRead(c) \/ AlterColumn(c)
    PROVE  KInv'
  <1>0. stmt[c] # None
    BY DEF FindSchema, AskServed, CreateMissing, FindSchemaAgain, DescribeColumns, Plan, CheckFloor,
           MayRead, AlterColumn, At
  <1>1. ASSUME NEW x \in {"describe", "served", "create", "again", "no_schema", "conflict", "plan", "use",
                      "filter", "resolver"},
               Goes(c, x)
        PROVE  KInv'
    <2>1. CatalogState'
      BY <1>1 DEF KInv, CatalogState, Goes, catalogVars, targetVars, ownerVars
    <2> QED
      BY <1>0, <1>1, <2>1, GoesFills DEF Goes, Writing, ownerVars
  <1>2. CASE CreateMissing(c)
    <2>1. CatalogState'
      BY <1>2, ServedAreSchemas
      DEF CreateMissing, CreateServedSchemas, CreateConflicts, KInv, CatalogState, dropVars, targetVars,
          ownerVars
    <2>2. PICK x \in {"again", "conflict"} : stmt' = [stmt EXCEPT ![c].step = x] /\ history' = history
      BY <1>2 DEF CreateMissing, ownerVars
    <2> QED
      BY <1>0, <2>1, <2>2, GoesFills DEF Writing
  <1>3. CASE MayRead(c)
    <2>1. ASSUME Goes(c, "using") PROVE KInv'
      <3>1. CatalogState'
        BY <2>1 DEF KInv, CatalogState, Goes, catalogVars, targetVars, ownerVars
      <3>2. stmt[c].step \in Writing
        BY <1>3 DEF MayRead, At, Writing
      <3> QED
        BY <1>0, <2>1, <3>1, <3>2, GoesFills DEF Goes, ownerVars
    <2> QED
      BY <1>1, <1>3, <2>1, EndsFills DEF MayRead
  <1>4. CASE AlterColumn(c)
    <2>1. ASSUME Goes(c, "run") PROVE KInv'
      <3>1. CatalogState'
        BY <2>1 DEF KInv, CatalogState, Goes, catalogVars, targetVars, ownerVars
      <3>2. stmt[c].of.kind \notin WriteVerbs
        BY <1>0, <1>4 DEF AlterColumn, At, JInv, Taken, WritesUnderPolicy, Altering
      <3> QED
        BY <1>0, <2>1, <3>1, <3>2, GoesFills DEF Goes, Writing, ownerVars
    <2> QED
      BY <1>4, <2>1, EndsFills DEF AlterColumn
  <1> QED
    BY <1>1, <1>2, <1>3, <1>4, EndsFills
    DEF FindSchema, AskServed, FindSchemaAgain, DescribeColumns, Plan, CheckFloor

\* The steps that keep verbs, a grant or a snapshot.
LEMMA KeepingSteps ==
    ASSUME IInv, KInv, NEW c \in Sessions,
           DescribeGrant(c) \/ AlterGrant(c) \/ ResolverSnapshot(c) \/ ShaperSnapshot(c)
    PROVE  KInv'
  <1>0. stmt[c] # None /\ DOMAIN stmt[c] = Fields
    BY DEF DescribeGrant, AlterGrant, ResolverSnapshot, ShaperSnapshot, At, IInv, Sound, Shaped
  <1>1. ASSUME NEW s, Learns(c, s), s.began = stmt[c].began, SameShape(stmt[c], s),
               s.step \in {"columns", "alter_context", "floor"}
        PROVE  KInv'
    <2>1. FillsNothing(stmt[c], s)
      BY <1>1 DEF FillsNothing, Writing
    <2> QED
      BY <1>0, <1>1, <2>1, LearnsFills
  <1>2. CASE DescribeGrant(c)
    <2>1. ASSUME NEW v, Learns(c, [stmt[c] EXCEPT !.step = "columns", !.verbs = v]) PROVE KInv'
      <3> DEFINE s == [stmt[c] EXCEPT !.step = "columns", !.verbs = v]
      <3>1. s.began = stmt[c].began /\ SameShape(stmt[c], s) /\ s.step = "columns"
        BY <1>0 DEF Fields, SameShape
      <3> QED
        BY <1>1, <2>1, <3>1
    <2> QED
      BY <1>2, <2>1, EndsFills DEF DescribeGrant
  <1>3. CASE AlterGrant(c)
    <2>1. ASSUME NEW v, Learns(c, [stmt[c] EXCEPT !.step = "alter_context", !.grant = v]) PROVE KInv'
      <3> DEFINE s == [stmt[c] EXCEPT !.step = "alter_context", !.grant = v]
      <3>1. s.began = stmt[c].began /\ SameShape(stmt[c], s) /\ s.step = "alter_context"
        BY <1>0 DEF Fields, SameShape
      <3> QED
        BY <1>1, <2>1, <3>1
    <2> QED
      BY <1>3, <2>1, EndsFills DEF AlterGrant
  <1>4. CASE ResolverSnapshot(c)
    <2> DEFINE s == [stmt[c] EXCEPT !.step = "floor", !.shown = book.values]
    <2>1. s.began = stmt[c].began /\ SameShape(stmt[c], s) /\ s.step = "floor"
      BY <1>0 DEF Fields, SameShape
    <2>2. Learns(c, s)
      BY <1>4 DEF ResolverSnapshot
    <2> QED
      BY <1>1, <2>1, <2>2
  <1>5. CASE ShaperSnapshot(c)
    <2> DEFINE s == [stmt[c] EXCEPT !.step = "may_read", !.values = book.values]
    <2>1. s.began = stmt[c].began /\ SameShape(stmt[c], s) /\ s.step = "may_read"
      BY <1>0 DEF Fields, SameShape
    <2>2. Learns(c, s) /\ stmt[c].step = "shaper"
      BY <1>5 DEF ShaperSnapshot, At
    <2> HIDE DEF s
    <2>3. FillsNothing(stmt[c], s)
      BY <2>1, <2>2 DEF FillsNothing, Writing
    <2> QED
      BY <1>0, <2>1, <2>2, <2>3, LearnsFills
  <1> QED
    BY <1>2, <1>3, <1>4, <1>5

\* Pinning and running.
LEMMA UseAndRun ==
    ASSUME IInv, KInv, NEW c \in Sessions, Use(c) \/ Run(c)
    PROVE  KInv'
  <1>0. /\ stmt[c] # None /\ DOMAIN stmt[c] = Fields /\ DOMAIN stmt = Sessions
        /\ stmt[c].of \in Statement
    BY StatementAssumption DEF Use, Run, At, IInv, State, Sound, Shaped
  <1>1. CASE Use(c)
    <2> DEFINE x == AfterUse(stmt[c].of)
    <2>1. x \in {"resolver", "shaper", "alter_grant"} /\ (x = "shaper" => stmt[c].of.kind \in WriteVerbs)
      BY <1>0 DEF AfterUse, Statement, Verbs, WriteVerbs
    <2> HIDE DEF x
    <2>2. ASSUME NEW n, stmt' = [stmt EXCEPT ![c].step = x, ![c].catalog = n], history' = history,
                 CatalogState'
          PROVE  KInv'
      <3>1. stmt'[c] = [stmt[c] EXCEPT !.step = x, !.catalog = n] /\ Moves(c)
        BY <1>0, <2>2 DEF Moves
      <3>2. stmt'[c].began = stmt[c].began /\ stmt'[c].step = x /\ SameShape(stmt[c], stmt'[c])
        BY <1>0, <3>1 DEF Fields, SameShape
      <3>3. FillsNothing(stmt[c], stmt'[c])
        BY <2>1, <3>2 DEF FillsNothing, Writing
      <3> QED
        BY <1>0, <2>2, <3>1, <3>2, <3>3, Passes DEF Step
    <2>3. \/ Ends(c)
          \/ /\ stmt' = [stmt EXCEPT ![c].step = x, ![c].catalog = PinnedName] /\ history' = history
             /\ UNCHANGED <<catalogVars, targetVars, autocommit, moves>>
      BY <1>1 DEF Use, ownerVars, x
    <2>4. UNCHANGED <<catalogVars, targetVars, autocommit, moves>> => CatalogState'
      BY DEF KInv, CatalogState, catalogVars, targetVars
    <2> QED
      BY <2>2, <2>3, <2>4, EndsFills
  <1>2. CASE Run(c)
    <2>1. ASSUME NEW d, stmt' = [stmt EXCEPT ![c].step = "ran", ![c].database = d],
                 history' = history, CatalogState'
          PROVE  KInv'
      <3>1. stmt'[c] = [stmt[c] EXCEPT !.step = "ran", !.database = d] /\ Moves(c)
        BY <1>0, <2>1 DEF Moves
      <3>2. stmt'[c].began = stmt[c].began /\ stmt'[c].step = "ran" /\ SameShape(stmt[c], stmt'[c])
        BY <1>0, <3>1 DEF Fields, SameShape
      <3>3. FillsNothing(stmt[c], stmt'[c])
        BY <1>2, <3>2 DEF FillsNothing, Writing, Run, At
      <3> QED
        BY <1>0, <2>1, <3>1, <3>2, <3>3, Passes DEF Step
    <2>2. \/ Ends(c)
          \/ /\ stmt' = [stmt EXCEPT ![c].step = "ran", ![c].database = Resolve(c, stmt[c].catalog)]
             /\ history' = history /\ UNCHANGED <<catalogVars, targetVars, autocommit, moves>>
      BY <1>2 DEF Run, ownerVars
    <2>3. UNCHANGED <<catalogVars, targetVars, autocommit, moves>> => CatalogState'
      BY DEF KInv, CatalogState, catalogVars, targetVars
    <2> QED
      BY <2>1, <2>2, <2>3, EndsFills
  <1> QED
    BY <1>1, <1>2

\* The context an ALTER meets is at least as full as that of the grant it took.
LEMMA AlterContextFills ==
    ASSUME IInv, KInv, NEW c \in Sessions, AlterContext(c)
    PROVE  KInv'
  <1>0. /\ stmt[c] # None /\ DOMAIN stmt[c] = Fields /\ Sound(c) /\ stmt[c].step = "alter_context"
        /\ stmt[c].of \in Statement /\ stmt[c].began \in 1..Len(history)
    BY StatementAssumption DEF AlterContext, At, IInv, Sound, Shaped
  <1>1. book \in InForce(c)
    BY <1>0, BookInForce DEF IInv
  <1>2. PICK b \in InForce(c) : /\ b.grants[stmt[c].of.table] # None
                                /\ stmt[c].grant = b.grants[stmt[c].of.table]
    BY <1>0 DEF Sound, Whole
  <1>3. ASSUME NEW verb \in Verbs, ~Fills(stmt[c].grant.using[verb], book.values), Goes(c, "unfilled")
        PROVE  KInv'
    <2>1. stmt[c].of.table \in Tables
      BY <1>0 DEF Statement
    <2>2. FillsMostly(stmt[c].grant.using[verb], b.values)
      BY <1>0, <1>2, <2>1, BookBinds DEF KInv
    <2>3. b \in Books /\ stmt[c].grant \in SourceGrant
      BY <1>0, <1>2, <2>1, InForceBooks DEF Books
    <2>4. stmt[c].grant.using[verb] \in Preds \cup {None}
      BY <2>3 DEF SourceGrant
    <2>5. HasReason(c)
      BY <1>0, <1>1, <1>3, <2>2, <2>4, UnfilledIsLate DEF KInv
    <2> QED
      BY <1>0, <1>3, <2>5, GoesUnfilled
  <1> DEFINE s == [stmt[c] EXCEPT !.step = "alter_column", !.values = book.values]
  <1>4. ASSUME Learns(c, s) PROVE KInv'
    <2>1. s.began = stmt[c].began /\ SameShape(stmt[c], s) /\ s.step = "alter_column"
      BY <1>0 DEF Fields, SameShape
    <2> HIDE DEF s
    <2>2. FillsNothing(stmt[c], s)
      BY <2>1 DEF FillsNothing, Writing
    <2> QED
      BY <1>0, <1>4, <2>1, <2>2, LearnsFills
  <1>5. \/ Ends(c) \/ Learns(c, s)
        \/ \E verb \in {"alter", "select"} :
              ~Fills(stmt[c].grant.using[verb], book.values) /\ Goes(c, "unfilled")
    BY DEF AlterContext
  <1>6. {"alter", "select"} \subseteq Verbs
    BY DEF Verbs
  <1> QED
    BY <1>3, <1>4, <1>5, <1>6, EndsFills

--------------------------------------------------------------------------------
(* Steps that fill *)

\* A statement begins with nothing taken.
LEMMA BeginFills ==
    ASSUME IInv, KInv, NEW c \in Sessions, NEW s \in Statements, Begin(c, s)
    PROVE  KInv'
  <1>1. stmt'[c] = Begun(s) /\ Moves(c) /\ CatalogState'
    BY DEF Begin, Moves, IInv, State, KInv, CatalogState, catalogVars, ownerVars
  <1>2. /\ stmt'[c].step = "schema" /\ stmt'[c].filters = <<>> /\ stmt'[c].using = None
        /\ stmt'[c].check = None /\ stmt'[c].visible = None
    BY <1>1 DEF Begun
  <1>3. Filling(c)'
    BY <1>2 DEF Filling, Writing
  <1> QED
    BY <1>1, <1>3, OneFills

\* A floor's predicate is filled from the snapshot, or there is a reason why not.
LEMMA FilterFloorFills ==
    ASSUME IInv, JInv, KInv, NEW c \in Sessions, FilterFloor(c)
    PROVE  KInv'
  <1> DEFINE raw == UsingFor(Floor(c), "select")
             f == Filled(raw, stmt[c].shown)
             filters == Append(stmt[c].filters, f)
             step == IF Len(filters) < Len(stmt[c].of.floors) THEN "floor" ELSE AfterFloors(stmt[c].of)
             s == [stmt[c] EXCEPT !.filters = filters, !.step = step]
  <1>0. /\ stmt[c] # None /\ Taken(c) /\ Filling(c) /\ DOMAIN stmt[c] = Fields
        /\ DOMAIN stmt = Sessions /\ stmt[c].of \in Statement /\ stmt[c].step = "filter"
        /\ stmt[c].of.kind # "alter"
    BY StatementAssumption
    DEF FilterFloor, At, IInv, JInv, KInv, Sound, Shaped, State, Whole, Shaping
  <1>1. /\ stmt[c].filters \in Seq(Filters) /\ Len(stmt[c].filters) < Len(stmt[c].of.floors)
        /\ stmt[c].of.floors \in Seq(Tables)
        /\ \E b \in InForce(c) : stmt[c].shown = b.values
    BY <1>0 DEF Taken, ReadsUnderPolicy, Statement
  <1>2. Floor(c) \in Tables /\ "select" \in Verbs
    BY <1>1 DEF Floor, Verbs
  <1>3. raw \in Preds \cup {None} /\ TookRaw(c, raw, Floor(c), "select", "using")
    BY <1>0, <1>2, ReadsRaw
  <1>4. PICK v \in InForce(c) : stmt[c].shown = v.values
    BY <1>1
  <1>5. stmt[c].shown \in [Names -> Values \cup {Unset}]
    BY <1>0, <1>4, InForceBooks
  <1>6. f \in Filters
    BY <1>3, <1>5, FilledIsFilter
  <1>7. ASSUME Fills(raw, stmt[c].shown), Learns(c, s) PROVE KInv'
    <2>1. IsFilter(f)
      BY <1>3, <1>5, <1>7, FilledIsFilled
    <2> HIDE DEF f
    <2>2. /\ Len(filters) = Len(stmt[c].filters) + 1 /\ Len(stmt[c].filters) \in Nat
          /\ \A i \in 1..Len(stmt[c].filters) : filters[i] = stmt[c].filters[i]
          /\ filters[Len(stmt[c].filters) + 1] = f
      BY <1>1, <1>6
    <2>3. \A i \in 1..Len(filters) : IsFilter(filters[i])
      BY <1>0, <2>1, <2>2 DEF Filling
    <2>4. /\ step \in {"floor", "run", "using"}
          /\ step = "using" => stmt[c].of.kind \in WriteVerbs
          /\ step = "run" => stmt[c].of.kind \notin WriteVerbs
      BY <1>0 DEF AfterFloors, WriteVerbs, Statement, Verbs
    <2> HIDE DEF filters, step
    <2>5. stmt'[c] = s /\ Moves(c) /\ CatalogState'
      BY <1>0, <1>7 DEF Learns, Moves, KInv, CatalogState,
             catalogVars, targetVars, ownerVars
    <2>6. /\ stmt'[c].step = step /\ stmt'[c].filters = filters /\ stmt'[c].of = stmt[c].of
          /\ stmt'[c].using = stmt[c].using /\ stmt'[c].check = stmt[c].check
          /\ stmt'[c].visible = stmt[c].visible
      BY <1>0, <2>5 DEF Fields
    <2>7. IsFilter(None)
      BY DEF IsFilter
    <2>8. Filling(c)'
      BY <1>0, <2>3, <2>4, <2>6, <2>7 DEF Filling, Writing, IsFilter
    <2> QED
      BY <2>5, <2>8, OneFills
  <1>8. ASSUME ~Fills(raw, stmt[c].shown), Goes(c, "unfilled") PROVE KInv'
    <2>1. PICK b \in InForce(c) : FillsMostly(raw, b.values)
      BY <1>0, <1>2, <1>3, RawBinds DEF KInv
    <2>2. HasReason(c)
      BY <1>0, <1>3, <1>4, <1>8, <2>1, UnfilledIsLate DEF KInv
    <2> QED
      BY <1>0, <1>8, <2>2, GoesUnfilled
  <1> HIDE DEF s, raw
  <1>9. \/ ~Fills(raw, stmt[c].shown) /\ Goes(c, "unfilled")
        \/ Fills(raw, stmt[c].shown) /\ Learns(c, s)
    BY DEF FilterFloor, s, raw
  <1> QED
    BY <1>7, <1>8, <1>9

\* PolicyShaper keeps raw predicates for a while, of writes only.
LEMMA ShapeFills ==
    ASSUME IInv, KInv, NEW c \in Sessions, ShapeUsing(c) \/ ShapeCheck(c)
    PROVE  KInv'
  <1>0. /\ stmt[c] # None /\ Filling(c) /\ DOMAIN stmt[c] = Fields /\ DOMAIN stmt = Sessions
        /\ stmt[c].of.kind \in WriteVerbs
    BY DEF ShapeUsing, ShapeCheck, At, IInv, KInv, Filling, Sound, Shaped, State, Writing
  <1>1. ASSUME stmt'[c].filters = stmt[c].filters, stmt'[c].of = stmt[c].of,
               stmt'[c].step \in {"check", "visible"}, Moves(c), CatalogState'
        PROVE  KInv'
    <2>1. Filling(c)'
      BY <1>0, <1>1 DEF Filling, IsFilter
    <2> QED
      BY <1>1, <2>1, OneFills
  <1>2. CASE ShapeUsing(c)
    <2> DEFINE u == UsingFor(stmt[c].of.table, stmt[c].of.kind)
    <2>1. stmt'[c] = [stmt[c] EXCEPT !.step = "check", !.using = u] /\ Moves(c) /\ CatalogState'
      BY <1>0, <1>2 DEF ShapeUsing, Learns, Moves, KInv, CatalogState,
             catalogVars, targetVars, ownerVars
    <2>2. stmt'[c].filters = stmt[c].filters /\ stmt'[c].of = stmt[c].of /\ stmt'[c].step = "check"
      BY <1>0, <2>1 DEF Fields
    <2> QED
      BY <1>1, <2>1, <2>2
  <1>3. CASE ShapeCheck(c)
    <2> DEFINE k == CheckFor(stmt[c].of.table, stmt[c].of.kind)
    <2>1. stmt'[c] = [stmt[c] EXCEPT !.step = "visible", !.check = k] /\ Moves(c) /\ CatalogState'
      BY <1>0, <1>3 DEF ShapeCheck, Learns, Moves, KInv, CatalogState,
             catalogVars, targetVars, ownerVars
    <2>2. stmt'[c].filters = stmt[c].filters /\ stmt'[c].of = stmt[c].of /\ stmt'[c].step = "visible"
      BY <1>0, <2>1 DEF Fields
    <2> QED
      BY <1>1, <2>1, <2>2
  <1> QED
    BY <1>2, <1>3

\* The three predicates of a write are filled together, or there is a reason why not.
LEMMA ShapeVisibleFills ==
    ASSUME IInv, JInv, KInv, NEW c \in Sessions, ShapeVisible(c)
    PROVE  KInv'
  <1> DEFINE t == stmt[c].of.table
             verb == stmt[c].of.kind
             visible == IF ReadsRows(stmt[c].of) THEN UsingFor(t, "select") ELSE None
             v == Filled(visible, stmt[c].values)
             u == Filled(stmt[c].using, stmt[c].values)
             k == Filled(stmt[c].check, stmt[c].values)
             s == [stmt[c] EXCEPT !.step = "run", !.visible = v, !.using = u, !.check = k]
  <1>0. /\ stmt[c] # None /\ Taken(c) /\ Filling(c) /\ DOMAIN stmt[c] = Fields
        /\ DOMAIN stmt = Sessions /\ stmt[c].of \in Statement /\ stmt[c].step = "visible"
    BY StatementAssumption DEF ShapeVisible, At, IInv, JInv, KInv, Sound, Shaped, State
  <1>1. t \in Tables /\ verb \in Verbs /\ "select" \in Verbs /\ verb \in WriteVerbs
    BY <1>0 DEF Statement, Verbs, Filling, Writing
  <1>2. /\ TookRaw(c, stmt[c].using, t, verb, "using") /\ TookRaw(c, stmt[c].check, t, verb, "check")
        /\ \E b \in InForce(c) : stmt[c].values = b.values
    BY <1>0, <1>1 DEF Taken, WritesUnderPolicy, Snapped
  <1>3. visible = None \/ TookRaw(c, visible, t, "select", "using")
    BY <1>0, <1>1, ReadsRaw
  <1>4. PICK w \in InForce(c) : stmt[c].values = w.values
    BY <1>2
  <1>5. stmt[c].values \in [Names -> Values \cup {Unset}]
    BY <1>0, <1>4, InForceBooks, SMTT(30)
  <1> HIDE DEF visible
  <1>6. /\ stmt[c].using \in Preds \cup {None} /\ stmt[c].check \in Preds \cup {None}
        /\ visible \in Preds \cup {None}
    BY <1>2, <1>3 DEF TookRaw
  <1>7. ASSUME NEW p \in {stmt[c].using, stmt[c].check, visible}, ~Fills(p, stmt[c].values),
               Goes(c, "unfilled")
        PROVE  KInv'
    <2>1. p # None
      BY <1>7 DEF Fills
    <2>2. \E b \in InForce(c) : FillsMostly(p, b.values)
      <3>1. CASE p = stmt[c].using
        BY <1>0, <1>1, <1>2, <3>1, RawBinds DEF KInv
      <3>2. CASE p = stmt[c].check
        BY <1>0, <1>1, <1>2, <3>2, RawBinds DEF KInv
      <3>3. CASE p = visible
        BY <1>0, <1>1, <1>3, <2>1, <3>3, RawBinds DEF KInv
      <3> QED
        BY <1>7, <3>1, <3>2, <3>3
    <2>3. HasReason(c)
      BY <1>0, <1>4, <1>6, <1>7, <2>2, UnfilledIsLate DEF KInv
    <2> QED
      BY <1>0, <1>7, <2>3, GoesUnfilled
  <1>8. ASSUME \A p \in {stmt[c].using, stmt[c].check, visible} : Fills(p, stmt[c].values), Learns(c, s)
        PROVE  KInv'
    <2>1. IsFilter(v) /\ IsFilter(u) /\ IsFilter(k)
      BY <1>5, <1>6, <1>8, FilledIsFilled
    <2> HIDE DEF v, u, k
    <2>2. stmt'[c] = s /\ Moves(c) /\ CatalogState'
      BY <1>0, <1>8 DEF Learns, Moves, KInv, CatalogState,
             catalogVars, targetVars, ownerVars
    <2>3. /\ stmt'[c].step = "run" /\ stmt'[c].visible = v /\ stmt'[c].using = u
          /\ stmt'[c].check = k /\ stmt'[c].filters = stmt[c].filters /\ stmt'[c].of = stmt[c].of
      BY <1>0, <2>2 DEF Fields
    <2>4. Filling(c)'
      BY <1>0, <1>1, <2>1, <2>3 DEF Filling, Writing, IsFilter
    <2> QED
      BY <2>2, <2>4, OneFills
  <1>9. \/ \E p \in {stmt[c].using, stmt[c].check, visible} :
              ~Fills(p, stmt[c].values) /\ Goes(c, "unfilled")
        \/ /\ \A p \in {stmt[c].using, stmt[c].check, visible} : Fills(p, stmt[c].values)
           /\ Learns(c, s)
    BY DEF ShapeVisible, visible
  <1> QED
    BY <1>7, <1>8, <1>9

--------------------------------------------------------------------------------
(* The catalog and the owner *)

\* Schemas, the bridge and nothing else.
LEMMA CatalogFills ==
    ASSUME IInv, KInv, CatalogStep
    PROVE  KInv'
  <1>1. stmt' = stmt /\ history' = history /\ autocommit' = autocommit /\ moves' = moves
    BY DEF CatalogStep, Bind, BindSchemas, ScanSchemas, CheckDrop, DropEntry, CommitDrop, RollbackDrop,
           CleanUpDrop, ownerVars
  <1>2. /\ schemas' \subseteq Schemas /\ bound' \in {"unbound", "bound", "served"}
        /\ dropping' \in [schema: Schemas, dropped: BOOLEAN] \cup {None} /\ lingering' \subseteq Schemas
        /\ begun' \subseteq Sessions /\ seen' \in [Sessions -> SUBSET Schemas]
    <2>1. CASE Bind \/ BindSchemas \/ ScanSchemas
      BY <2>1, ServedAreSchemas
      DEF Bind, BindSchemas, ScanSchemas, CreateServedSchemas, CreateConflicts, KInv, CatalogState,
          dropVars, targetVars
    <2>2. CASE DropEntry \/ CommitDrop \/ RollbackDrop
      <3>1. /\ dropping \in [schema: Schemas, dropped: BOOLEAN] /\ dropping.schema \in Schemas
            /\ CatalogState
        BY <2>2 DEF DropEntry, CommitDrop, RollbackDrop, KInv, CatalogState
      <3>2. CASE DropEntry
        BY <3>1, <3>2 DEF DropEntry, CatalogState, targetVars
      <3>3. CASE CommitDrop
        BY <3>1, <3>3 DEF CommitDrop, CatalogState
      <3>4. CASE RollbackDrop
        BY <3>1, <3>4 DEF RollbackDrop, CatalogState, targetVars
      <3> QED
        BY <2>2, <3>2, <3>3, <3>4
    <2>3. ASSUME NEW s \in Schemas, CheckDrop(s) \/ CleanUpDrop(s)
          PROVE  /\ schemas' \subseteq Schemas /\ bound' \in {"unbound", "bound", "served"}
                 /\ dropping' \in [schema: Schemas, dropped: BOOLEAN] \cup {None}
                 /\ lingering' \subseteq Schemas
                 /\ begun' \subseteq Sessions /\ seen' \in [Sessions -> SUBSET Schemas]
      <3>1. CatalogState
        BY DEF KInv
      <3>2. CASE CheckDrop(s)
        <4>1. dropping' \in [schema: Schemas, dropped: BOOLEAN]
          BY <2>3, <3>2 DEF CheckDrop
        <4> QED
          BY <3>1, <3>2, <4>1 DEF CheckDrop, CatalogState, targetVars
      <3>3. CASE CleanUpDrop(s)
        BY <3>1, <3>3 DEF CleanUpDrop, CatalogState, targetVars
      <3> QED
        BY <2>3, <3>2, <3>3
    <2> QED
      BY <2>1, <2>2, <2>3 DEF CatalogStep
  <1>3. ContextState' /\ CatalogState'
    BY <1>1, <1>2 DEF KInv, ContextState, CatalogState, Binds, UnboundAtAttach
  <1> QED
    BY <1>1, <1>3, UnmovedFills DEF KInv

\* An edit unsets no name and leaves predicates that bind.
LEMMA OwnerEditsBind ==
    ASSUME IInv, KInv, OwnerStep
    PROVE  \/ \E b \in Books : /\ Edit(b) /\ Binds(b)
                               /\ \A n \in Names : book.values[n] # Unset => b.values[n] # Unset
           \/ \E a : Move(a)
  <1>0. book \in Books /\ Binds(book)
    <2>1. history \in Seq(Books) /\ Len(history) > 0
      BY DEF IInv, State
    <2>2. Len(history) \in DOMAIN history /\ history[Len(history)] \in Books
      BY <2>1
    <2>3. ContextState
      BY DEF KInv
    <2> QED
      BY <2>2, <2>3 DEF ContextState, book
  <1>1. ASSUME NEW t \in Tables, NEW grant \in Grants[t] \cup {None}, SetPolicy(t, grant)
        PROVE  \E b \in Books : /\ Edit(b) /\ Binds(b)
                                /\ \A n \in Names : book.values[n] # Unset => b.values[n] # Unset
    <2> DEFINE b == [book EXCEPT !.grants[t] = grant]
    <2>1. grant \in SourceGrant \cup {None}
      BY StatementAssumption
    <2>2. b \in Books /\ b.values = book.values
      BY <1>0, <2>1 DEF Books
    <2>3. \A u \in Tables : b.grants[u] = IF u = t THEN grant ELSE book.grants[u]
      BY <1>0 DEF Books
    <2>4. Edit(b) /\ (grant # None => \A p \in PredsOf(grant) : Fills(p, book.values))
      BY <1>1 DEF SetPolicy
    <2> HIDE DEF b
    <2>5. ASSUME grant # None, NEW p \in PredsOf(grant), NEW n \in Names, n \in Uses[p]
          PROVE  book.values[n] # Unset
      <3>1. p # None
        BY <2>5 DEF PredsOf
      <3> QED
        BY <2>4, <2>5, <3>1 DEF Fills
    <2>6. Binds(b)
      BY <1>0, <2>2, <2>3, <2>5 DEF Binds
    <2> QED
      BY <2>2, <2>4, <2>6
  <1>2. ASSUME NEW n \in Names, NEW v \in Values, SetContext(n, v)
        PROVE  \E b \in Books : /\ Edit(b) /\ Binds(b)
                                /\ \A m \in Names : book.values[m] # Unset => b.values[m] # Unset
    <2> DEFINE b == [book EXCEPT !.values[n] = v]
    <2>1. b \in Books /\ b.grants = book.grants
      BY <1>0 DEF Books
    <2>2. \A m \in Names : b.values[m] = IF m = n THEN v ELSE book.values[m]
      BY <1>0 DEF Books
    <2>3. Edit(b) /\ v # Unset
      BY <1>2, StatementAssumption DEF SetContext
    <2> HIDE DEF b
    <2>4. Binds(b)
      BY <1>0, <2>1, <2>2, <2>3 DEF Binds
    <2> QED
      BY <2>1, <2>2, <2>3, <2>4
  <1>3. ASSUME \/ \E n \in CatalogNames : Detach(n)
               \/ \E n \in CatalogNames, d \in Databases : Attach(n, d)
               \/ \E n, m \in CatalogNames : Rename(n, m)
        PROVE  \E a : Move(a)
    BY <1>3 DEF Detach, Attach, Rename
  <1> QED
    BY <1>1, <1>2, <1>3 DEF OwnerStep

\* The owner's steps keep the context.
LEMMA OwnerFills ==
    ASSUME IInv, KInv, OwnerStep
    PROVE  KInv'
  <1>0. /\ history \in Seq(Books) /\ Len(history) \in Nat /\ Len(history) > 0
        /\ moves \in 0..MaxChanges /\ MaxChanges \in Nat
    BY StatementAssumption DEF IInv, State, KInv, CatalogState
  <1>1. ASSUME NEW b \in Books, Edit(b), Binds(b),
               \A n \in Names : book.values[n] # Unset => b.values[n] # Unset
        PROVE  KInv'
    <2>1. /\ stmt' = stmt /\ history' = Append(history, b)
          /\ UNCHANGED <<catalogVars, targetVars, autocommit, moves>>
      BY <1>1 DEF Edit
    <2>2. /\ Len(history') = Len(history) + 1 /\ history'[Len(history) + 1] = b
          /\ \A i \in 1..Len(history) : history'[i] = history[i]
      BY <1>0, <2>1
    <2>3. \A i \in 1..Len(history') : i \in 1..Len(history) \/ i = Len(history) + 1
      BY <1>0, <2>2
    <2>4. \A i \in 1..Len(history') : Binds(history'[i])
      BY <1>1, <2>2, <2>3 DEF KInv, ContextState
    <2>7. UnboundAtAttach' = UnboundAtAttach
      BY <1>0, <2>2 DEF UnboundAtAttach
    <2>5. ASSUME NEW i \in 1..Len(history'), NEW j \in 1..Len(history'), i <= j,
                 NEW n \in Names, history'[i].values[n] # Unset
          PROVE  history'[j].values[n] # Unset
      <3>1. CASE j \in 1..Len(history)
        <4>1. i \in 1..Len(history)
          BY <1>0, <2>5, <3>1
        <4> QED
          BY <2>2, <2>5, <3>1, <4>1 DEF KInv, ContextState
      <3>2. CASE j = Len(history) + 1 /\ i \in 1..Len(history)
        <4>1. Len(history) \in 1..Len(history) /\ i <= Len(history)
          BY <1>0, <3>2
        <4>2. book.values[n] # Unset
          BY <2>2, <2>5, <3>2, <4>1 DEF KInv, ContextState, book
        <4> QED
          BY <1>1, <2>2, <3>2, <4>2
      <3>3. CASE i = Len(history) + 1
        BY <1>0, <2>2, <2>3, <2>5, <3>3
      <3> QED
        BY <2>3, <2>5, <3>1, <3>2, <3>3
    <2>6. ContextState' /\ CatalogState'
      BY <2>1, <2>4, <2>5, <2>7 DEF ContextState, CatalogState, KInv, Binds, catalogVars, targetVars
    <2> QED
      BY <2>1, <2>6, UnmovedFills DEF KInv
  <1>2. ASSUME NEW a, Move(a) PROVE KInv'
    <2>1. /\ stmt' = stmt /\ history' = history /\ moves' = moves + 1
          /\ UNCHANGED <<catalogVars, targetVars, autocommit>> /\ Len(history) - 1 + moves < MaxChanges
      BY <1>2 DEF Move, MayChange
    <2>2. moves' \in 0..MaxChanges
      BY <1>0, <2>1
    <2>3. ContextState' /\ CatalogState'
      BY <2>1, <2>2 DEF KInv, ContextState, CatalogState, Binds, UnboundAtAttach, catalogVars, targetVars
    <2> QED
      BY <2>1, <2>3, UnmovedFills DEF KInv
  <1> QED
    BY <1>1, <1>2, OwnerEditsBind

--------------------------------------------------------------------------------
(* The theorems *)

\* The context a bridge is attached with binds its policy.
LEMMA InitFills == Init => KInv
  <1> SUFFICES ASSUME Init PROVE KInv
    OBVIOUS
  <1>1. PICK b \in InitialBooks : history = <<b>>
    BY DEF Init
  <1>2. Len(history) = 1 /\ history[1] = b
    BY <1>1
  <1>3. \A i \in 1..Len(history) : i = 1
    BY <1>2
  <1>4. ContextState
    BY <1>1, <1>2, <1>3 DEF ContextState, Binds, UnboundAtAttach
  <1>5. CatalogState
    BY ServedAreSchemas, StatementAssumption DEF Init, CatalogState
  <1> QED
    BY <1>4, <1>5 DEF Init, KInv

\* Every step keeps the invariant.
LEMMA StepFills == IInv /\ JInv /\ KInv /\ [Next]_vars => KInv'
  <1> SUFFICES ASSUME IInv, JInv, KInv, [Next]_vars PROVE KInv'
    OBVIOUS
  <1>1. ASSUME NEW c \in Sessions, TargetStep(c) PROVE KInv'
    <2>1. CASE \E s \in Statements : Begin(c, s)
      BY <2>1, BeginFills
    <2>2. CASE \/ FindSchema(c) \/ AskServed(c) \/ CreateMissing(c) \/ FindSchemaAgain(c)
               \/ DescribeColumns(c) \/ Plan(c) \/ CheckFloor(c) \/ MayRead(c) \/ AlterColumn(c)
      BY <2>2, DecidingSteps
    <2>3. CASE DescribeGrant(c) \/ AlterGrant(c) \/ ResolverSnapshot(c) \/ ShaperSnapshot(c)
      BY <2>3, KeepingSteps
    <2>4. CASE Use(c) \/ Run(c)
      BY <2>4, UseAndRun
    <2>5. CASE AlterContext(c)
      BY <2>5, AlterContextFills
    <2>6. CASE FilterFloor(c)
      BY <2>6, FilterFloorFills
    <2>7. CASE ShapeUsing(c) \/ ShapeCheck(c)
      BY <2>7, ShapeFills
    <2>8. CASE ShapeVisible(c)
      BY <2>8, ShapeVisibleFills
    <2>9. CASE Finish(c)
      BY <2>9, EndsFills DEF Finish
    <2>10. CASE EndTransaction(c)
      <3>1. stmt'[c] = None /\ Moves(c)
        BY <2>10 DEF EndTransaction, ownerVars, Moves
      <3>2. CatalogState'
        BY <2>10 DEF EndTransaction, catalogVars, ownerVars, KInv, CatalogState
      <3> QED
        BY <3>1, <3>2, OneFills
    <2> QED
      BY <1>1, <2>1, <2>2, <2>3, <2>4, <2>5, <2>6, <2>7, <2>8, <2>9, <2>10 DEF TargetStep
  <1>2. CASE UNCHANGED vars
    <2>1. /\ stmt' = stmt /\ history' = history /\ UNCHANGED <<catalogVars, targetVars, autocommit, moves>>
      BY <1>2 DEF vars, ownerVars
    <2>2. ContextState' /\ CatalogState'
      BY <2>1 DEF KInv, ContextState, CatalogState, Binds, UnboundAtAttach, catalogVars, targetVars
    <2> QED
      BY <2>1, <2>2, UnmovedFills DEF KInv
  <1> QED
    BY <1>1, <1>2, CatalogFills, OwnerFills DEF Next

\* The context invariant holds of every reachable state.
THEOREM ContextHolds == Spec => []KInv
  <1>1. IInv /\ JInv /\ KInv /\ [Next]_vars => KInv'
    BY StepFills
  <1> QED
    BY <1>1, InitFills, StatementsAreSound, PolicyIsTaken, PTL DEF Spec

\* FillContext's internal error is met only if the owner first set a name after the statement began,
\* or never gave a value to a name the policy already used without one when the bridge was attached.
THEOREM UnfilledIsExplained == Spec => []UnfilledHasReason
  <1>1. KInv => UnfilledHasReason
    BY DEF KInv, Filling, HasReason, UnfilledHasReason, At
  <1> QED
    BY <1>1, ContextHolds, PTL

\* The types; in particular no predicate reaches the source with a $name that has no value.
THEOREM StatementTypeCorrect == Spec => []TypeOK
  <1>1. IInv /\ JInv /\ KInv => TypeOK
    <2> SUFFICES ASSUME IInv, JInv, KInv PROVE TypeOK
      OBVIOUS
    <2>1. \A i \in DOMAIN history : history[i] \in Books
      BY DEF IInv, State
    <2>2. ASSUME NEW c \in Sessions, stmt[c] # None
          PROVE  /\ stmt[c].of \in Statements /\ stmt[c].step \in Steps
                 /\ \A i \in DOMAIN stmt[c].filters : IsFilter(stmt[c].filters[i])
                 /\ stmt[c].step \in {"run", "ran"} =>
                       IsFilter(stmt[c].using) /\ IsFilter(stmt[c].check) /\ IsFilter(stmt[c].visible)
      <3>1. DOMAIN stmt[c].filters = 1..Len(stmt[c].filters)
        BY <2>2 DEF JInv, Taken, ReadsUnderPolicy
      <3>2. Filling(c) /\ Shaped(c)
        BY <2>2 DEF KInv, IInv, Sound
      <3> QED
        BY <3>1, <3>2 DEF Filling, Shaped
    <2> QED
      BY <2>1, <2>2 DEF TypeOK, IInv, State, KInv, CatalogState
  <1> QED
    BY <1>1, StatementsAreSound, PolicyIsTaken, ContextHolds, PTL

================================================================================
