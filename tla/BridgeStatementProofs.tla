-------------------------- MODULE BridgeStatementProofs --------------------------
(***************************************************************************)
(* Proofs about BridgeStatement, for every number of sessions, tables,       *)
(* predicates, context names, statements, databases and owner changes.       *)
(***************************************************************************)
EXTENDS BridgeStatement, TLAPS

--------------------------------------------------------------------------------
(* The inductive invariant *)

Fields ==
    {"of", "step", "began", "verbs", "catalog", "database", "values", "shown", "filters",
     "using", "check", "visible", "grant"}

\* The steps of reads and of writes, and those after SourcePin::Use.
Shaping == {"resolver", "floor", "filter", "shaper", "may_read", "using", "check", "visible"}
Altering == {"alter_grant", "alter_context", "alter_column"}
Using == Shaping \cup Altering \cup {"run", "ran", "unfilled"}

\* One statement: what it has learned so far was so at some moment since it began.
OnPinned(c) ==
    /\ stmt[c].step \in Using =>
          stmt[c].catalog \in CatalogNames /\ refs[c][stmt[c].catalog] = Pinned
    /\ stmt[c].step = "ran" => stmt[c].database = Pinned

Whole(c) ==
    /\ stmt[c].step \in Shaping => stmt[c].of.kind # "alter"
    /\ stmt[c].step = "alter_context" =>
          \E b \in InForce(c) : /\ b.grants[stmt[c].of.table] # None
                                /\ stmt[c].grant = b.grants[stmt[c].of.table]
    /\ stmt[c].of.kind = "alter" /\ stmt[c].step \in {"alter_column", "run", "ran"} =>
          \E b1, b2 \in InForce(c) :
              /\ b1.grants[stmt[c].of.table] # None
              /\ \A verb \in {"alter", "select"} : Holds(b1.grants[stmt[c].of.table], verb, b2.values)

Found(c) ==
    \/ stmt[c].step \notin {"again", "no_schema"}
    \/ stmt[c].step = "again" /\ SeesSchema(c)
    \/ \E b \in InForce(c) : SchemaOf[stmt[c].of.table] \notin Served(b)

Shaped(c) ==
    /\ DOMAIN stmt[c] = Fields
    /\ stmt[c].of \in Statements
    /\ stmt[c].step \in Steps
    /\ stmt[c].began \in 1..Len(history)
    /\ c \in begun

Sound(c) == Shaped(c) /\ OnPinned(c) /\ Whole(c) /\ Found(c)

State ==
    /\ history \in Seq(Books) /\ Len(history) > 0
    /\ DOMAIN stmt = Sessions /\ DOMAIN seen = Sessions
    /\ refs \in [Sessions -> [CatalogNames -> Databases \cup {None}]]
    /\ attached \in [CatalogNames -> Databases \cup {None}]

IInv == State /\ \A c \in Sessions : stmt[c] # None => Sound(c)

--------------------------------------------------------------------------------
(* The books of a statement *)

\* The book is one of those a statement has met.
LEMMA BookInForce ==
    ASSUME State, NEW c \in Sessions, stmt[c].began \in 1..Len(history)
    PROVE  book \in InForce(c) /\ book \in Books
  BY DEF State, book, InForce

\* An owner's change forgets no book.
LEMMA InForceGrows ==
    ASSUME State, NEW c \in Sessions, stmt[c].began \in 1..Len(history),
           stmt'[c].began = stmt[c].began,
           history' = history \/ \E b \in Books : history' = Append(history, b)
    PROVE  /\ \A b \in InForce(c) : b \in InForce(c)'
           /\ stmt'[c].began \in 1..Len(history')
  <1>1. CASE history' = history
    BY <1>1 DEF InForce
  <1>2. ASSUME NEW b \in Books, history' = Append(history, b)
        PROVE  /\ \A x \in InForce(c) : x \in InForce(c)'
               /\ stmt'[c].began \in 1..Len(history')
    <2>1. /\ Len(history') = Len(history) + 1
          /\ \A i \in 1..Len(history) : history'[i] = history[i]
      BY <1>2 DEF State
    <2>2. Len(history) \in Nat
      BY DEF State
    <2> QED
      BY <2>1, <2>2 DEF InForce
  <1> QED
    BY <1>1, <1>2

\* A statement nobody moves stays sound, whatever the owner and the other sessions do.
LEMMA Untouched ==
    ASSUME State, NEW c \in Sessions, stmt[c] # None, Sound(c),
           stmt'[c] = stmt[c], refs'[c] = refs[c], c \in begun',
           history' = history \/ \E b \in Books : history' = Append(history, b),
           schemas \cup seen[c] \subseteq schemas' \cup seen'[c]
    PROVE  Sound(c)'
  <1>0. Shaped(c)
    BY DEF Sound
  <1>1. \A b \in InForce(c) : b \in InForce(c)'
    BY <1>0, InForceGrows DEF Shaped
  <1>2. stmt[c].began \in 1..Len(history')
    BY <1>0, InForceGrows DEF Shaped
  <1>a. Shaped(c)'
    BY <1>0, <1>2 DEF Shaped
  <1>b. OnPinned(c)'
    BY DEF Sound, OnPinned
  <1>c. Whole(c)'
    BY <1>1 DEF Sound, Whole
  <1>d. Found(c)'
    BY <1>1 DEF Sound, Found, SeesSchema
  <1> QED
    BY <1>a, <1>b, <1>c, <1>d DEF Sound

--------------------------------------------------------------------------------
(* Steps of a session *)

\* A step of one session leaves the statements of the others as they are.
LEMMA OneSession ==
    ASSUME IInv, State', NEW c \in Sessions,
           \A d \in Sessions \ {c} :
               /\ stmt'[d] = stmt[d] /\ refs'[d] = refs[d] /\ seen'[d] = seen[d]
               /\ d \in begun => d \in begun',
           history' = history, schemas \subseteq schemas',
           stmt'[c] # None => Sound(c)'
    PROVE  IInv'
  <1>1. ASSUME NEW d \in Sessions, stmt'[d] # None PROVE Sound(d)'
    <2>1. CASE d = c
      BY <1>1, <2>1
    <2>2. CASE d # c
      <3>1. stmt[d] # None /\ Sound(d) /\ d \in begun'
        BY <1>1, <2>2 DEF IInv, Sound, Shaped
      <3>2. schemas \cup seen[d] \subseteq schemas' \cup seen'[d]
        BY <2>2
      <3> QED
        BY <1>1, <2>2, <3>1, <3>2, Untouched DEF IInv
    <2> QED
      BY <2>1, <2>2
  <1> QED
    BY <1>1 DEF IInv

\* A statement that ends leaves nothing to keep.
LEMMA EndsKeeps ==
    ASSUME IInv, NEW c \in Sessions, Ends(c)
    PROVE  IInv'
  <1>1. /\ stmt'[c] = None
        /\ \A d \in Sessions \ {c} :
              /\ stmt'[d] = stmt[d] /\ refs'[d] = refs[d] /\ seen'[d] = seen[d]
              /\ d \in begun => d \in begun'
    BY DEF Ends, IInv, State
  <1>2. State'
    BY DEF Ends, IInv, State, NoRefs, ownerVars
  <1>3. history' = history /\ schemas' = schemas
    BY DEF Ends, ownerVars, catalogVars
  <1> QED
    BY <1>1, <1>2, <1>3, OneSession

\* A statement that goes on touches only what it has learned.
LEMMA LearnsKeeps ==
    ASSUME IInv, NEW c \in Sessions, NEW s, Learns(c, s), s # None => Sound(c)'
    PROVE  IInv'
  <1>1. /\ stmt'[c] = s
        /\ \A d \in Sessions \ {c} :
              /\ stmt'[d] = stmt[d] /\ refs'[d] = refs[d] /\ seen'[d] = seen[d]
              /\ d \in begun => d \in begun'
    BY DEF Learns, IInv, State, targetVars
  <1>2. State'
    BY DEF Learns, IInv, State, targetVars, ownerVars
  <1>3. history' = history /\ schemas' = schemas
    BY DEF Learns, ownerVars, catalogVars
  <1> QED
    BY <1>1, <1>2, <1>3, OneSession

\* Goes is Learns with nothing but the step.
LEMMA GoesLearns ==
    ASSUME IInv, NEW c \in Sessions, NEW step, Goes(c, step)
    PROVE  Learns(c, [stmt[c] EXCEPT !.step = step])
  BY DEF Goes, Learns, IInv, State

\* The fields the invariant speaks of, and the steps that need no new evidence.
SameClaims(r, s) ==
    /\ DOMAIN s = Fields
    /\ s.of = r.of /\ s.began = r.began /\ s.catalog = r.catalog

NoNewEvidence(r, s) ==
    /\ s.step \in Steps \ {"ran", "again", "no_schema", "alter_context", "alter_column"}
    /\ s.step \in Using => r.step \in Using
    /\ s.step \in Shaping => r.of.kind # "alter"
    /\ s.step = "run" /\ r.of.kind = "alter" => r.step = "alter_column"

\* Most steps of a statement need no more than what was shown of it before.
LEMMA PassesOn ==
    ASSUME IInv, NEW c \in Sessions, stmt[c] # None, NEW s, Learns(c, s),
           SameClaims(stmt[c], s), NoNewEvidence(stmt[c], s)
    PROVE  IInv'
  <1>0. /\ Sound(c) /\ stmt'[c] = s /\ refs' = refs /\ history' = history /\ begun' = begun
        /\ InForce(c)' = InForce(c)
    BY DEF IInv, State, Learns, InForce, SameClaims, ownerVars, targetVars
  <1>a. Shaped(c)'
    BY <1>0 DEF Sound, Shaped, SameClaims, NoNewEvidence
  <1>b. OnPinned(c)'
    BY <1>0 DEF Sound, OnPinned, SameClaims, NoNewEvidence
  <1>c. Whole(c)'
    BY <1>0 DEF Sound, Whole, SameClaims, NoNewEvidence
  <1>d. Found(c)'
    BY <1>0 DEF Sound, Found, SameClaims, NoNewEvidence
  <1> QED
    BY <1>a, <1>b, <1>c, <1>d, LearnsKeeps DEF Sound

\* The same for a statement that only goes to another step.
LEMMA GoesOn ==
    ASSUME IInv, NEW c \in Sessions, stmt[c] # None, NEW step, Goes(c, step),
           NoNewEvidence(stmt[c], [stmt[c] EXCEPT !.step = step])
    PROVE  IInv'
  <1>1. Shaped(c)
    BY DEF IInv, Sound
  <1>2. SameClaims(stmt[c], [stmt[c] EXCEPT !.step = step])
    BY <1>1 DEF Shaped, SameClaims, Fields
  <1> QED
    BY <1>2, GoesLearns, PassesOn

\* A read of the book, the context or the catalog that decides no more than where to go on.
LEMMA QuietSteps ==
    ASSUME IInv, NEW c \in Sessions,
           \/ FindSchema(c) \/ DescribeColumns(c) \/ Plan(c) \/ CheckFloor(c) \/ MayRead(c)
           \/ AlterColumn(c)
    PROVE  IInv'
  <1>0. stmt[c] # None /\ Sound(c) /\ DOMAIN stmt[c] = Fields
    BY DEF FindSchema, DescribeColumns, Plan, CheckFloor, MayRead, AlterColumn, At, IInv, Sound, Shaped
  <1>1. \A x : [stmt[c] EXCEPT !.step = x].step = x
    BY <1>0 DEF Fields
  <1>2. CASE FindSchema(c)
    <2>1. \E x \in {"describe", "served"} : Goes(c, x)
      BY <1>2 DEF FindSchema
    <2>2. PICK x \in {"describe", "served"} : Goes(c, x)
      BY <2>1
    <2>3. NoNewEvidence(stmt[c], [stmt[c] EXCEPT !.step = x])
      BY <1>1, <2>2 DEF NoNewEvidence, Steps, Using, Shaping, Altering
    <2> QED
      BY <1>0, <2>2, <2>3, GoesOn
  <1>3. CASE DescribeColumns(c)
    <2>1. stmt[c].step = "columns"
      BY <1>3 DEF DescribeColumns, At
    <2>2. ASSUME Goes(c, "plan") PROVE IInv'
      <3>1. NoNewEvidence(stmt[c], [stmt[c] EXCEPT !.step = "plan"])
        BY <1>1, <2>1 DEF NoNewEvidence, Steps, Using, Shaping, Altering
      <3> QED
        BY <1>0, <2>2, <3>1, GoesOn
    <2> QED
      BY <1>3, <2>2, EndsKeeps DEF DescribeColumns
  <1>4. CASE CheckFloor(c)
    <2>1. stmt[c].step = "floor"
      BY <1>4 DEF CheckFloor, At
    <2>2. ASSUME Goes(c, "filter") PROVE IInv'
      <3>1. NoNewEvidence(stmt[c], [stmt[c] EXCEPT !.step = "filter"])
        BY <1>0, <1>1, <2>1 DEF NoNewEvidence, Steps, Using, Shaping, Altering, Sound, Whole
      <3> QED
        BY <1>0, <2>2, <3>1, GoesOn
    <2> QED
      BY <1>4, <2>2, EndsKeeps DEF CheckFloor
  <1>5. CASE MayRead(c)
    <2>1. stmt[c].step = "may_read"
      BY <1>5 DEF MayRead, At
    <2>2. ASSUME NEW x \in {"using", "resolver"}, Goes(c, x) PROVE IInv'
      <3>1. NoNewEvidence(stmt[c], [stmt[c] EXCEPT !.step = x])
        BY <1>0, <1>1, <2>1, <2>2
        DEF NoNewEvidence, Steps, Using, Shaping, Altering, Sound, Whole
      <3> QED
        BY <1>0, <2>2, <3>1, GoesOn
    <2> QED
      BY <1>5, <2>2, EndsKeeps DEF MayRead
  <1>6. CASE AlterColumn(c)
    <2>1. stmt[c].step = "alter_column"
      BY <1>6 DEF AlterColumn, At
    <2>2. ASSUME Goes(c, "run") PROVE IInv'
      <3>1. NoNewEvidence(stmt[c], [stmt[c] EXCEPT !.step = "run"])
        BY <1>0, <1>1, <2>1 DEF NoNewEvidence, Steps, Using, Shaping, Altering
      <3> QED
        BY <1>0, <2>2, <3>1, GoesOn
    <2> QED
      BY <1>6, <2>2, EndsKeeps DEF AlterColumn
  <1>7. CASE Plan(c)
    <2>1. ASSUME Goes(c, "use") PROVE IInv'
      <3>1. NoNewEvidence(stmt[c], [stmt[c] EXCEPT !.step = "use"])
        BY <1>1 DEF NoNewEvidence, Steps, Using, Shaping, Altering
      <3> QED
        BY <1>0, <2>1, <3>1, GoesOn
    <2> QED
      BY <1>7, <2>1, EndsKeeps DEF Plan
  <1> QED
    BY <1>2, <1>3, <1>4, <1>5, <1>6, <1>7

\* A step of PolicyResolver or PolicyShaper that keeps what it read.
LEMMA ShapingSteps ==
    ASSUME IInv, NEW c \in Sessions,
           \/ ResolverSnapshot(c) \/ FilterFloor(c) \/ ShaperSnapshot(c)
           \/ ShapeUsing(c) \/ ShapeCheck(c) \/ ShapeVisible(c)
    PROVE  IInv'
  <1>0. stmt[c] # None /\ Sound(c) /\ DOMAIN stmt[c] = Fields
    BY DEF ResolverSnapshot, FilterFloor, ShaperSnapshot, ShapeUsing, ShapeCheck, ShapeVisible,
           At, IInv, Sound, Shaped
  <1>1. stmt[c].step \in Shaping /\ stmt[c].of.kind # "alter"
    BY <1>0 DEF ResolverSnapshot, FilterFloor, ShaperSnapshot, ShapeUsing, ShapeCheck, ShapeVisible,
                At, Shaping, Sound, Whole
  <1>2. ASSUME NEW s, Learns(c, s), SameClaims(stmt[c], s),
               s.step \in Shaping \cup {"run", "unfilled"}
        PROVE  IInv'
    <2>1. NoNewEvidence(stmt[c], s)
      BY <1>1, <1>2 DEF NoNewEvidence, Steps, Using, Shaping, Altering
    <2> QED
      BY <1>0, <1>2, <2>1, PassesOn
  <1>3. ASSUME Goes(c, "unfilled") PROVE IInv'
    <2>1. /\ SameClaims(stmt[c], [stmt[c] EXCEPT !.step = "unfilled"])
          /\ [stmt[c] EXCEPT !.step = "unfilled"].step = "unfilled"
      BY <1>0 DEF SameClaims, Fields
    <2> QED
      BY <1>2, <1>3, <2>1, GoesLearns
  <1>4. CASE ResolverSnapshot(c)
    <2> DEFINE s == [stmt[c] EXCEPT !.step = "floor", !.shown = book.values]
    <2>1. SameClaims(stmt[c], s) /\ s.step \in Shaping
      BY <1>0 DEF SameClaims, Fields, Shaping
    <2>2. Learns(c, s)
      BY <1>4 DEF ResolverSnapshot
    <2> QED
      BY <1>2, <2>1, <2>2
  <1>5. CASE ShaperSnapshot(c)
    <2> DEFINE s == [stmt[c] EXCEPT !.step = "may_read", !.values = book.values]
    <2>1. SameClaims(stmt[c], s) /\ s.step \in Shaping
      BY <1>0 DEF SameClaims, Fields, Shaping
    <2>2. Learns(c, s)
      BY <1>5 DEF ShaperSnapshot
    <2> QED
      BY <1>2, <2>1, <2>2
  <1>6. CASE ShapeUsing(c)
    <2> DEFINE s == [stmt[c] EXCEPT !.step = "check",
                                    !.using = UsingFor(stmt[c].of.table, stmt[c].of.kind)]
    <2>1. SameClaims(stmt[c], s) /\ s.step \in Shaping
      BY <1>0 DEF SameClaims, Fields, Shaping
    <2>2. Learns(c, s)
      BY <1>6 DEF ShapeUsing
    <2> QED
      BY <1>2, <2>1, <2>2
  <1>7. CASE ShapeCheck(c)
    <2> DEFINE s == [stmt[c] EXCEPT !.step = "visible",
                                    !.check = CheckFor(stmt[c].of.table, stmt[c].of.kind)]
    <2>1. SameClaims(stmt[c], s) /\ s.step \in Shaping
      BY <1>0 DEF SameClaims, Fields, Shaping
    <2>2. Learns(c, s)
      BY <1>7 DEF ShapeCheck
    <2> QED
      BY <1>2, <2>1, <2>2
  <1>8. CASE ShapeVisible(c)
    <2>1. ASSUME NEW v, NEW u, NEW k,
                 Learns(c, [stmt[c] EXCEPT !.step = "run", !.visible = v, !.using = u, !.check = k])
          PROVE  IInv'
      <3> DEFINE s == [stmt[c] EXCEPT !.step = "run", !.visible = v, !.using = u, !.check = k]
      <3>1. SameClaims(stmt[c], s) /\ s.step = "run"
        BY <1>0 DEF SameClaims, Fields
      <3> QED
        BY <1>2, <2>1, <3>1
    <2>2. \/ Goes(c, "unfilled")
          \/ \E v, u, k :
                Learns(c, [stmt[c] EXCEPT !.step = "run", !.visible = v, !.using = u, !.check = k])
      BY <1>8, Zenon DEF ShapeVisible
    <2> QED
      BY <1>3, <2>1, <2>2
  <1>9. CASE FilterFloor(c)
    <2>1. ASSUME NEW f, NEW x \in {"floor", "run", "using"},
                 Learns(c, [stmt[c] EXCEPT !.filters = f, !.step = x])
          PROVE  IInv'
      <3> DEFINE s == [stmt[c] EXCEPT !.filters = f, !.step = x]
      <3>1. SameClaims(stmt[c], s) /\ s.step = x
        BY <1>0 DEF SameClaims, Fields
      <3>2. x \in Shaping \cup {"run", "unfilled"}
        BY DEF Shaping
      <3> QED
        BY <1>2, <2>1, <3>1, <3>2
    <2>2. \/ Goes(c, "unfilled")
          \/ \E f : \E x \in {"floor", "run", "using"} :
                Learns(c, [stmt[c] EXCEPT !.filters = f, !.step = x])
      <3> DEFINE filters == Append(stmt[c].filters, Filled(UsingFor(Floor(c), "select"), stmt[c].shown))
                 step == IF Len(filters) < Len(stmt[c].of.floors) THEN "floor" ELSE AfterFloors(stmt[c].of)
      <3>1. step \in {"floor", "run", "using"}
        BY DEF AfterFloors
      <3>2. Goes(c, "unfilled") \/ Learns(c, [stmt[c] EXCEPT !.filters = filters, !.step = step])
        BY <1>9 DEF FilterFloor
      <3> QED
        BY <3>1, <3>2, Zenon
    <2> QED
      BY <1>3, <2>1, <2>2
  <1> QED
    BY <1>4, <1>5, <1>6, <1>7, <1>8, <1>9

\* What Learns leaves to look at.
LEMMA Learned ==
    ASSUME IInv, NEW c \in Sessions, NEW s, Learns(c, s)
    PROVE  /\ stmt'[c] = s /\ refs' = refs /\ history' = history /\ schemas' = schemas
           /\ seen' = seen /\ begun' = begun
  BY DEF Learns, IInv, State, ownerVars, catalogVars, targetVars

\* A statement begins with the book of that moment, in a transaction that has begun.
LEMMA BeginKeeps ==
    ASSUME IInv, NEW c \in Sessions, NEW s \in Statements, Begin(c, s)
    PROVE  IInv'
  <1>1. /\ stmt'[c] = Begun(s)
        /\ \A d \in Sessions \ {c} :
              /\ stmt'[d] = stmt[d] /\ refs'[d] = refs[d] /\ seen'[d] = seen[d]
              /\ d \in begun => d \in begun'
    BY DEF Begin, IInv, State
  <1>2. history' = history /\ schemas' = schemas /\ c \in begun'
    BY DEF Begin, ownerVars, catalogVars
  <1>3. State'
    BY DEF Begin, IInv, State, ownerVars
  <1>4. /\ DOMAIN Begun(s) = Fields /\ Begun(s).of = s /\ Begun(s).step = "schema"
        /\ Begun(s).began = Len(history)
    BY DEF Begun, Fields
  <1>5. Len(history) \in Nat /\ Len(history) > 0
    BY DEF IInv, State
  <1>6. Shaped(c)'
    BY <1>1, <1>2, <1>4, <1>5 DEF Shaped, Steps
  <1>7. OnPinned(c)' /\ Whole(c)' /\ Found(c)'
    BY <1>1, <1>4 DEF OnPinned, Whole, Found, Using, Shaping, Altering
  <1>8. Sound(c)'
    BY <1>6, <1>7 DEF Sound
  <1> QED
    BY <1>1, <1>2, <1>3, <1>8, OneSession

\* The lookup of a schema: it goes without only if some book of the statement did not serve it.
LEMMA LookupSteps ==
    ASSUME IInv, NEW c \in Sessions,
           AskServed(c) \/ CreateMissing(c) \/ FindSchemaAgain(c)
    PROVE  IInv'
  <1>0. stmt[c] # None /\ Sound(c) /\ Shaped(c) /\ DOMAIN stmt[c] = Fields
    BY DEF AskServed, CreateMissing, FindSchemaAgain, At, IInv, Sound, Shaped
  <1>1. book \in InForce(c)
    BY <1>0, BookInForce DEF Shaped, IInv
  <1>2. stmt[c].step \in {"served", "create", "again"}
    BY DEF AskServed, CreateMissing, FindSchemaAgain, At
  <1>3. ASSUME NEW x \in {"create", "again", "describe", "no_schema", "conflict"},
               stmt' = [stmt EXCEPT ![c].step = x], refs' = refs, history' = history,
               attached' = attached, schemas \subseteq schemas', seen' = seen, begun' = begun,
               \/ x \notin {"again", "no_schema"}
               \/ x = "again" /\ SchemaOf[stmt[c].of.table] \in schemas'
               \/ \E b \in InForce(c) : SchemaOf[stmt[c].of.table] \notin Served(b)
        PROVE  IInv'
    <2>1. /\ stmt'[c] = [stmt[c] EXCEPT !.step = x]
          /\ \A d \in Sessions \ {c} :
                /\ stmt'[d] = stmt[d] /\ refs'[d] = refs[d] /\ seen'[d] = seen[d]
                /\ d \in begun => d \in begun'
      BY <1>3 DEF IInv, State
    <2>2. /\ DOMAIN stmt'[c] = Fields /\ stmt'[c].step = x /\ stmt'[c].of = stmt[c].of
          /\ stmt'[c].began = stmt[c].began /\ InForce(c)' = InForce(c)
      BY <1>0, <1>3, <2>1 DEF Fields, InForce
    <2>3. State'
      BY <1>3 DEF IInv, State
    <2>4. Shaped(c)'
      BY <1>0, <1>3, <2>2 DEF Shaped, Steps
    <2>5. OnPinned(c)' /\ Whole(c)'
      BY <2>2 DEF OnPinned, Whole, Using, Shaping, Altering
    <2>6. Found(c)'
      BY <1>3, <2>2 DEF Found, SeesSchema
    <2>7. Sound(c)'
      BY <2>4, <2>5, <2>6 DEF Sound
    <2> QED
      BY <1>3, <2>1, <2>3, <2>7, OneSession
  <1>4. CASE AskServed(c)
    BY <1>1, <1>3, <1>4 DEF AskServed, Goes, ownerVars, catalogVars, targetVars
  <1>5. CASE CreateMissing(c)
    <2>1. /\ refs' = refs /\ history' = history /\ attached' = attached /\ seen' = seen
          /\ begun' = begun /\ schemas \subseteq schemas'
      BY <1>5 DEF CreateMissing, CreateServedSchemas, CreateConflicts, ownerVars, targetVars
    <2>2. CASE CreateServedSchemas /\ stmt' = [stmt EXCEPT ![c].step = "again"]
      <3>1. \/ SchemaOf[stmt[c].of.table] \in schemas'
            \/ SchemaOf[stmt[c].of.table] \notin Served(book)
        BY <2>2 DEF CreateServedSchemas
      <3> QED
        BY <1>1, <1>3, <2>1, <2>2, <3>1
    <2>3. CASE stmt' = [stmt EXCEPT ![c].step = "conflict"]
      BY <1>3, <2>1, <2>3
    <2> QED
      BY <1>5, <2>2, <2>3 DEF CreateMissing
  <1>6. CASE FindSchemaAgain(c)
    <2>1. stmt[c].step = "again"
      BY <1>6 DEF FindSchemaAgain, At
    <2>2. \/ Goes(c, "describe")
          \/ Goes(c, "no_schema") /\ \E b \in InForce(c) : SchemaOf[stmt[c].of.table] \notin Served(b)
      BY <1>0, <1>6, <2>1 DEF FindSchemaAgain, Sound, Found
    <2> QED
      BY <1>3, <2>2 DEF Goes, ownerVars, catalogVars, targetVars
  <1> QED
    BY <1>4, <1>5, <1>6

\* Describe copies the verbs of the grant; what the library makes of them is not the invariant's.
LEMMA DescribeKeeps ==
    ASSUME IInv, NEW c \in Sessions, DescribeGrant(c)
    PROVE  IInv'
  <1>0. stmt[c] # None /\ Sound(c) /\ DOMAIN stmt[c] = Fields
    BY DEF DescribeGrant, At, IInv, Sound, Shaped
  <1>1. ASSUME NEW v, Learns(c, [stmt[c] EXCEPT !.step = "columns", !.verbs = v])
        PROVE  IInv'
    <2> DEFINE s == [stmt[c] EXCEPT !.step = "columns", !.verbs = v]
    <2>1. SameClaims(stmt[c], s) /\ s.step = "columns"
      BY <1>0 DEF SameClaims, Fields
    <2>2. NoNewEvidence(stmt[c], s)
      BY <2>1 DEF NoNewEvidence, Steps, Using, Shaping, Altering
    <2> QED
      BY <1>0, <1>1, <2>1, <2>2, PassesOn
  <1> QED
    BY <1>1, EndsKeeps DEF DescribeGrant

\* SourcePin::Use: from here on the name means the pinned database in this transaction.
LEMMA UseKeeps ==
    ASSUME IInv, NEW c \in Sessions, Use(c)
    PROVE  IInv'
  <1>0. /\ stmt[c] # None /\ Sound(c) /\ Shaped(c) /\ DOMAIN stmt[c] = Fields
        /\ stmt[c].step = "use" /\ stmt[c].of \in Statement
    BY StatementAssumption DEF Use, At, IInv, Sound, Shaped
  <1> DEFINE step == AfterUse(stmt[c].of)
  <1>1. /\ step \in {"resolver", "shaper", "alter_grant"}
        /\ step = "alter_grant" <=> stmt[c].of.kind = "alter"
    BY <1>0 DEF AfterUse, Statement, Verbs
  <1>2. ASSUME PinnedIsAttached, stmt' = [stmt EXCEPT ![c].step = step, ![c].catalog = PinnedName],
               refs' = [refs EXCEPT ![c][PinnedName] = Pinned],
               UNCHANGED <<catalogVars, ownerVars, targetVars, autocommit>>
        PROVE  IInv'
    <2>1. PinnedName \in CatalogNames
      BY <1>2 DEF PinnedIsAttached, PinnedName
    <2> HIDE DEF step
    <2>2. /\ stmt'[c] = [stmt[c] EXCEPT !.step = step, !.catalog = PinnedName]
          /\ refs'[c][PinnedName] = Pinned
          /\ \A d \in Sessions \ {c} :
                /\ stmt'[d] = stmt[d] /\ refs'[d] = refs[d] /\ seen'[d] = seen[d]
                /\ d \in begun => d \in begun'
      BY <1>2, <2>1 DEF IInv, State, targetVars
    <2>3. State'
      BY <1>2, <2>1, StatementAssumption DEF IInv, State, ownerVars, targetVars
    <2>4. /\ DOMAIN stmt'[c] = Fields /\ stmt'[c].step = step /\ stmt'[c].of = stmt[c].of
          /\ stmt'[c].began = stmt[c].began /\ stmt'[c].catalog = PinnedName
      BY <1>0, <2>2 DEF Fields
    <2>5. /\ history' = history /\ schemas' = schemas /\ begun' = begun
          /\ InForce(c)' = InForce(c)
      BY <1>2, <2>4 DEF ownerVars, catalogVars, targetVars, InForce
    <2>6. Shaped(c)'
      BY <1>0, <1>1, <2>4, <2>5 DEF Shaped, Steps
    <2>7. OnPinned(c)'
      BY <1>1, <2>1, <2>2, <2>4 DEF OnPinned
    <2>8. Whole(c)' /\ Found(c)'
      BY <1>1, <2>4 DEF Whole, Found, Shaping
    <2>9. Sound(c)'
      BY <2>6, <2>7, <2>8 DEF Sound
    <2> QED
      BY <2>2, <2>3, <2>5, <2>9, OneSession
  <1> QED
    BY <1>2, EndsKeeps DEF Use

\* The two halves of ThrowUnlessAlterGrantedOverFullTable: the grant is that of one book, the
\* context with which its predicates fold to true that of another.
LEMMA AlterKeeps ==
    ASSUME IInv, NEW c \in Sessions, AlterGrant(c) \/ AlterContext(c)
    PROVE  IInv'
  <1>0. /\ stmt[c] # None /\ Sound(c) /\ Shaped(c) /\ DOMAIN stmt[c] = Fields
        /\ stmt[c].step \in {"alter_grant", "alter_context"}
    BY DEF AlterGrant, AlterContext, At, IInv, Sound, Shaped
  <1>1. book \in InForce(c)
    BY <1>0, BookInForce DEF Shaped, IInv
  <1>2. ASSUME NEW s, Learns(c, s), SameClaims(stmt[c], s),
               s.step \in {"alter_context", "alter_column"}, Whole(c)'
        PROVE  IInv'
    <2>1. stmt'[c] = s /\ refs' = refs /\ history' = history /\ begun' = begun
      BY <1>2, Learned
    <2>2. Shaped(c)'
      BY <1>0, <1>2, <2>1 DEF Shaped, Steps, SameClaims
    <2>3. OnPinned(c)'
      BY <1>0, <1>2, <2>1 DEF Sound, OnPinned, Using, Altering, SameClaims
    <2>4. Found(c)'
      BY <1>2, <2>1 DEF Found
    <2>5. Sound(c)'
      BY <1>2, <2>2, <2>3, <2>4 DEF Sound
    <2> QED
      BY <1>2, <2>5, LearnsKeeps
  <1>3. CASE AlterGrant(c)
    <2> DEFINE s == [stmt[c] EXCEPT !.step = "alter_context", !.grant = GrantOf(stmt[c].of.table)]
    <2>1. ASSUME GrantOf(stmt[c].of.table) # None, Learns(c, s)
          PROVE  IInv'
      <3>1. /\ SameClaims(stmt[c], s) /\ s.step = "alter_context"
            /\ s.grant = GrantOf(stmt[c].of.table)
        BY <1>0 DEF SameClaims, Fields
      <3>2. stmt'[c] = s /\ history' = history
        BY <2>1, Learned
      <3> HIDE DEF s
      <3>3. InForce(c)' = InForce(c)
        BY <3>1, <3>2 DEF InForce, SameClaims
      <3>4. Whole(c)'
        BY <1>1, <2>1, <3>1, <3>2, <3>3 DEF Whole, SameClaims, Shaping, GrantOf
      <3> QED
        BY <1>2, <2>1, <3>1, <3>4
    <2> QED
      BY <1>3, <2>1, EndsKeeps DEF AlterGrant
  <1>4. CASE AlterContext(c)
    <2>0. stmt[c].step = "alter_context"
      BY <1>4 DEF AlterContext, At
    <2> DEFINE s == [stmt[c] EXCEPT !.step = "alter_column", !.values = book.values]
    <2>1. ASSUME Goes(c, "unfilled") PROVE IInv'
      <3>1. [stmt[c] EXCEPT !.step = "unfilled"].step = "unfilled"
        BY <1>0 DEF Fields
      <3>2. NoNewEvidence(stmt[c], [stmt[c] EXCEPT !.step = "unfilled"])
        BY <2>0, <3>1 DEF NoNewEvidence, Steps, Using, Shaping, Altering
      <3> QED
        BY <1>0, <2>1, <3>2, GoesOn
    <2>2. ASSUME Learns(c, s), Holds(stmt[c].grant, "alter", book.values),
                 Holds(stmt[c].grant, "select", book.values)
          PROVE  IInv'
      <3>1. SameClaims(stmt[c], s) /\ s.step = "alter_column"
        BY <1>0 DEF SameClaims, Fields
      <3>2. stmt'[c] = s /\ history' = history
        BY <2>2, Learned
      <3> HIDE DEF s
      <3>3. InForce(c)' = InForce(c)
        BY <3>1, <3>2 DEF InForce, SameClaims
      <3>4. Whole(c)'
        BY <1>0, <1>1, <2>0, <2>2, <3>1, <3>2, <3>3 DEF Sound, Whole, SameClaims, Shaping
      <3> QED
        BY <1>2, <2>2, <3>1, <3>4
    <2>3. Goes(c, "unfilled") \/ Ends(c) \/
            (Learns(c, s) /\ Holds(stmt[c].grant, "alter", book.values)
                          /\ Holds(stmt[c].grant, "select", book.values))
      BY <1>4 DEF AlterContext
    <2> QED
      BY <2>1, <2>2, <2>3, EndsKeeps
  <1> QED
    BY <1>3, <1>4

\* The run: the name still means the pinned database, whatever else the transaction refers to.
LEMMA RunKeeps ==
    ASSUME IInv, NEW c \in Sessions, Run(c)
    PROVE  IInv'
  <1>0. /\ stmt[c] # None /\ Sound(c) /\ Shaped(c) /\ DOMAIN stmt[c] = Fields
        /\ stmt[c].step = "run"
    BY DEF Run, At, IInv, Sound, Shaped
  <1>1. /\ stmt[c].catalog \in CatalogNames /\ refs[c][stmt[c].catalog] = Pinned
        /\ Pinned # None /\ Pinned \in Databases
    BY <1>0, StatementAssumption DEF Sound, OnPinned, Using
  <1>2. Resolve(c, stmt[c].catalog) = Pinned
    BY <1>1 DEF Resolve
  <1>3. ASSUME NEW also \in CatalogNames,
               stmt' = [stmt EXCEPT ![c].step = "ran", ![c].database = Resolve(c, stmt[c].catalog)],
               refs' = [refs EXCEPT ![c] =
                           [n \in CatalogNames |-> IF n = also THEN Resolve(c, n) ELSE @[n]]],
               UNCHANGED <<catalogVars, ownerVars, targetVars, autocommit>>
        PROVE  IInv'
    <2>1. /\ stmt'[c] = [stmt[c] EXCEPT !.step = "ran", !.database = Pinned]
          /\ \A d \in Sessions \ {c} :
                /\ stmt'[d] = stmt[d] /\ refs'[d] = refs[d] /\ seen'[d] = seen[d]
                /\ d \in begun => d \in begun'
      BY <1>2, <1>3 DEF IInv, State, targetVars
    <2>2. refs'[c] = [n \in CatalogNames |-> IF n = also THEN Resolve(c, n) ELSE refs[c][n]]
      BY <1>3 DEF IInv, State
    <2>3. /\ refs'[c] \in [CatalogNames -> Databases \cup {None}]
          /\ refs'[c][stmt[c].catalog] = Pinned
      BY <1>1, <1>2, <2>2 DEF IInv, State, Resolve
    <2>4. State'
      BY <1>3, <2>3 DEF IInv, State, ownerVars, targetVars
    <2>5. /\ DOMAIN stmt'[c] = Fields /\ stmt'[c].step = "ran" /\ stmt'[c].of = stmt[c].of
          /\ stmt'[c].began = stmt[c].began
          /\ stmt'[c].catalog = stmt[c].catalog /\ stmt'[c].database = Pinned
      BY <1>0, <2>1 DEF Fields
    <2>6. /\ history' = history /\ schemas' = schemas /\ begun' = begun
          /\ InForce(c)' = InForce(c)
      BY <1>3, <2>5 DEF ownerVars, catalogVars, targetVars, InForce
    <2>7. Shaped(c)'
      BY <1>0, <2>5, <2>6 DEF Shaped, Steps
    <2>8. OnPinned(c)'
      BY <1>1, <2>3, <2>5 DEF OnPinned
    <2>9. Whole(c)'
      BY <1>0, <2>5, <2>6 DEF Sound, Whole, Shaping
    <2>10. Found(c)'
      BY <2>5 DEF Found
    <2>11. Sound(c)'
      BY <2>7, <2>8, <2>9, <2>10 DEF Sound
    <2> QED
      BY <2>1, <2>4, <2>6, <2>11, OneSession
  <1>4. PICK also \in CatalogNames :
            \/ Ends(c)
            \/ /\ stmt' = [stmt EXCEPT ![c].step = "ran",
                                       ![c].database = Resolve(c, stmt[c].catalog)]
               /\ refs' = [refs EXCEPT ![c] =
                             [n \in CatalogNames |-> IF n = also THEN Resolve(c, n) ELSE @[n]]]
               /\ UNCHANGED <<catalogVars, ownerVars, targetVars, autocommit>>
    BY DEF Run
  <1> QED
    BY <1>3, <1>4, EndsKeeps

\* A transaction may end only between statements.
LEMMA EndTransactionKeeps ==
    ASSUME IInv, NEW c \in Sessions, EndTransaction(c)
    PROVE  IInv'
  <1>1. /\ stmt'[c] = None
        /\ \A d \in Sessions \ {c} :
              /\ stmt'[d] = stmt[d] /\ refs'[d] = refs[d] /\ seen'[d] = seen[d]
              /\ d \in begun => d \in begun'
    BY DEF EndTransaction, IInv, State
  <1>2. State'
    BY DEF EndTransaction, IInv, State, NoRefs, ownerVars
  <1>3. history' = history /\ schemas' = schemas
    BY DEF EndTransaction, ownerVars, catalogVars
  <1> QED
    BY <1>1, <1>2, <1>3, OneSession

--------------------------------------------------------------------------------
(* Steps of the catalog and of the owner *)

\* A step that moves no statement.
LEMMA NoStatementMoves ==
    ASSUME IInv, State', stmt' = stmt, refs' = refs, begun' = begun,
           history' = history \/ \E b \in Books : history' = Append(history, b),
           \A c \in begun \cap Sessions : schemas \cup seen[c] \subseteq schemas' \cup seen'[c]
    PROVE  IInv'
  <1>1. ASSUME NEW c \in Sessions, stmt[c] # None PROVE Sound(c)'
    <2>1. Sound(c) /\ c \in begun'
      BY <1>1 DEF IInv, Sound, Shaped
    <2> QED
      BY <1>1, <2>1, Untouched DEF IInv
  <1> QED
    BY <1>1 DEF IInv

\* Schemas come and go; one that goes is still seen by the transactions that have begun.
LEMMA CatalogKeeps ==
    ASSUME IInv, CatalogStep
    PROVE  IInv'
  <1>1. /\ stmt' = stmt /\ refs' = refs /\ history' = history /\ attached' = attached
        /\ begun' = begun
    BY DEF CatalogStep, Bind, BindSchemas, ScanSchemas, CheckDrop, DropEntry, CommitDrop,
           RollbackDrop, CleanUpDrop, ownerVars, targetVars
  <1>2. /\ DOMAIN seen' = Sessions
        /\ \A c \in begun \cap Sessions : schemas \cup seen[c] \subseteq schemas' \cup seen'[c]
    <2>1. CASE CommitDrop
      BY <2>1 DEF CommitDrop
    <2>2. CASE ~CommitDrop
      <3>1. seen' = seen /\ schemas \subseteq schemas'
        BY <2>2 DEF CatalogStep, Bind, BindSchemas, ScanSchemas, CheckDrop, DropEntry, RollbackDrop,
                    CleanUpDrop, CreateServedSchemas, CreateConflicts, targetVars
      <3> QED
        BY <3>1 DEF IInv, State
    <2> QED
      BY <2>1, <2>2
  <1>3. State'
    BY <1>1, <1>2 DEF IInv, State
  <1> QED
    BY <1>1, <1>2, <1>3, NoStatementMoves

\* An edit appends a book.
LEMMA EditKeeps ==
    ASSUME IInv, NEW b \in Books, Edit(b)
    PROVE  IInv'
  <1>1. /\ stmt' = stmt /\ refs' = refs /\ history' = Append(history, b) /\ attached' = attached
        /\ schemas' = schemas /\ seen' = seen /\ begun' = begun
    BY DEF Edit, catalogVars, targetVars
  <1>2. State'
    BY <1>1 DEF IInv, State
  <1> QED
    BY <1>1, <1>2, NoStatementMoves

\* A move of databases leaves the book and every transaction's references alone.
LEMMA MoveKeeps ==
    ASSUME IInv, NEW a \in [CatalogNames -> Databases \cup {None}], Move(a)
    PROVE  IInv'
  <1>1. /\ stmt' = stmt /\ refs' = refs /\ history' = history /\ attached' = a
        /\ schemas' = schemas /\ seen' = seen /\ begun' = begun
    BY DEF Move, catalogVars, targetVars
  <1>2. State'
    BY <1>1 DEF IInv, State
  <1> QED
    BY <1>1, <1>2, NoStatementMoves

\* What the owner's steps are: an edit of the book or a move of databases.
LEMMA OwnerEditsOrMoves ==
    ASSUME IInv, OwnerStep
    PROVE  \/ \E b \in Books : Edit(b)
           \/ \E a \in [CatalogNames -> Databases \cup {None}] : Move(a)
  <1>0. book \in Books /\ attached \in [CatalogNames -> Databases \cup {None}]
    BY DEF IInv, State, book
  <1>1. ASSUME NEW t \in Tables, NEW grant \in Grants[t] \cup {None}, SetPolicy(t, grant)
        PROVE  \E b \in Books : Edit(b)
    <2>1. grant \in SourceGrant \cup {None}
      BY StatementAssumption
    <2>2. [book EXCEPT !.grants[t] = grant] \in Books
      BY <1>0, <2>1 DEF Books
    <2> QED
      BY <1>1, <2>2 DEF SetPolicy
  <1>2. ASSUME NEW n \in Names, NEW v \in Values, SetContext(n, v)
        PROVE  \E b \in Books : Edit(b)
    <2>1. [book EXCEPT !.values[n] = v] \in Books
      BY <1>0 DEF Books
    <2> QED
      BY <1>2, <2>1 DEF SetContext
  <1>3. ASSUME NEW n \in CatalogNames, Detach(n)
        PROVE  \E a \in [CatalogNames -> Databases \cup {None}] : Move(a)
    <2>1. [attached EXCEPT ![n] = None] \in [CatalogNames -> Databases \cup {None}]
      BY <1>0
    <2> QED
      BY <1>3, <2>1 DEF Detach
  <1>4. ASSUME NEW n \in CatalogNames, NEW d \in Databases, Attach(n, d)
        PROVE  \E a \in [CatalogNames -> Databases \cup {None}] : Move(a)
    <2>1. [attached EXCEPT ![n] = d] \in [CatalogNames -> Databases \cup {None}]
      BY <1>0
    <2> QED
      BY <1>4, <2>1 DEF Attach
  <1>5. ASSUME NEW n \in CatalogNames, NEW m \in CatalogNames, Rename(n, m)
        PROVE  \E a \in [CatalogNames -> Databases \cup {None}] : Move(a)
    <2>1. [attached EXCEPT ![n] = None, ![m] = attached[n]] \in [CatalogNames -> Databases \cup {None}]
      BY <1>0
    <2> QED
      BY <1>5, <2>1 DEF Rename
  <1> QED
    BY <1>1, <1>2, <1>3, <1>4, <1>5 DEF OwnerStep

\* Whatever the owner does, every statement in flight stays sound.
LEMMA OwnerKeeps ==
    ASSUME IInv, OwnerStep
    PROVE  IInv'
  BY OwnerEditsOrMoves, EditKeeps, MoveKeeps

\* The owner's steps only add books.
LEMMA OwnerAppends ==
    ASSUME IInv, OwnerStep
    PROVE  stmt' = stmt /\ (history' = history \/ \E b \in Books : history' = Append(history, b))
  BY OwnerEditsOrMoves DEF Edit, Move

--------------------------------------------------------------------------------
(* The theorems *)

\* A bridge that has just been attached runs no statement.
LEMMA InitSound == Init => IInv
  <1> SUFFICES ASSUME Init PROVE IInv
    OBVIOUS
  <1>1. PICK b \in InitialBooks : history = <<b>>
    BY DEF Init
  <1>2. history \in Seq(Books) /\ Len(history) > 0
    BY <1>1, StatementAssumption
  <1>3. State
    BY <1>2 DEF Init, State, NoRefs
  <1> QED
    BY <1>3 DEF Init, IInv

\* Every step keeps every statement sound.
LEMMA StepSound == IInv /\ [Next]_vars => IInv'
  <1> SUFFICES ASSUME IInv, [Next]_vars PROVE IInv'
    OBVIOUS
  <1>1. ASSUME NEW c \in Sessions, TargetStep(c) PROVE IInv'
    <2>1. CASE \E s \in Statements : Begin(c, s)
      BY <2>1, BeginKeeps
    <2>2. CASE \/ FindSchema(c) \/ DescribeColumns(c) \/ Plan(c) \/ CheckFloor(c) \/ MayRead(c)
               \/ AlterColumn(c)
      BY <2>2, QuietSteps
    <2>3. CASE AskServed(c) \/ CreateMissing(c) \/ FindSchemaAgain(c)
      BY <2>3, LookupSteps
    <2>4. CASE \/ ResolverSnapshot(c) \/ FilterFloor(c) \/ ShaperSnapshot(c)
               \/ ShapeUsing(c) \/ ShapeCheck(c) \/ ShapeVisible(c)
      BY <2>4, ShapingSteps
    <2>5. CASE DescribeGrant(c)
      BY <2>5, DescribeKeeps
    <2>6. CASE Use(c)
      BY <2>6, UseKeeps
    <2>7. CASE AlterGrant(c) \/ AlterContext(c)
      BY <2>7, AlterKeeps
    <2>8. CASE Run(c)
      BY <2>8, RunKeeps
    <2>9. CASE Finish(c)
      BY <2>9, EndsKeeps DEF Finish
    <2>10. CASE EndTransaction(c)
      BY <2>10, EndTransactionKeeps
    <2> QED
      BY <1>1, <2>1, <2>2, <2>3, <2>4, <2>5, <2>6, <2>7, <2>8, <2>9, <2>10 DEF TargetStep
  <1>2. CASE UNCHANGED vars
    <2>1. /\ stmt' = stmt /\ refs' = refs /\ history' = history /\ attached' = attached
          /\ schemas' = schemas /\ seen' = seen /\ begun' = begun
      BY <1>2 DEF vars, catalogVars, ownerVars, targetVars
    <2>2. State'
      BY <2>1 DEF IInv, State
    <2> QED
      BY <2>1, <2>2, NoStatementMoves
  <1> QED
    BY <1>1, <1>2, CatalogKeeps, OwnerKeeps DEF Next

\* In every reachable state what a statement has learned was so at some moment since it began.
THEOREM StatementsAreSound == Spec => []IInv
  BY InitSound, StepSound, PTL DEF Spec

\* A statement runs on the database the bridge was registered for, for any number of sessions and
\* databases and any sequence of DETACH, ATTACH and rename on the source (SourcePin::Use).
THEOREM PinnedHolds == Spec => []RunsOnPinned
  <1>1. IInv => RunsOnPinned
    BY DEF IInv, Sound, OnPinned, RunsOnPinned, At
  <1> QED
    BY <1>1, StatementsAreSound, PTL

\* An ALTER runs only if a grant and a context of the statement let it see the whole table.
THEOREM AlterNeedsWholeTable == Spec => []AlterSeesWholeTable
  <1>1. IInv => AlterSeesWholeTable
    BY DEF IInv, Sound, Whole, AlterSeesWholeTable, At
  <1> QED
    BY <1>1, StatementsAreSound, PTL

\* A lookup that no conflict ends finds every schema that was served from its beginning to its end
\* (LookupSchema), whatever DROP SCHEMA was checked, ran or committed meanwhile.
THEOREM ServedIsFound == Spec => []ServedSchemaIsFound
  <1>1. IInv => ServedSchemaIsFound
    BY DEF IInv, Sound, Found, ServedSchemaIsFound, At
  <1> QED
    BY <1>1, StatementsAreSound, PTL

================================================================================
