--------------------------- MODULE BridgeSessionProofs ---------------------------
(***************************************************************************)
(* Proofs about BridgeSession, for every finite set of sessions, every set   *)
(* of table names and every bound: what the grants, the undo lists and       *)
(* uncommitted_ddl are to one another while transactions interleave, commit, *)
(* fail to commit and roll back.                                             *)
(*                                                                         *)
(* UndoGrants and Owed are folds; the first two parts say what they compute, *)
(* by the induction of FoldLemmas.                                           *)
(***************************************************************************)
EXTENDS BridgeSession, FoldLemmas

--------------------------------------------------------------------------------
(* What an undo does to the grants *)

GrantBook == [Names -> Grant \cup {None}]

\* The tables whose grant the undo u may change.
Touches(u) == {u.name} \cup IF u.verb = "rename" THEN {u.to} ELSE {}

\* The fields of an undo.
LEMMA UndoFields ==
    ASSUME NEW u \in Undo
    PROVE  /\ u.name \in Names
           /\ u.verb \in {"create", "drop", "rename"}
           /\ u.verb = "rename" => u.to \in Names
           /\ u.verb # "rename" => u.old \in Grant \cup {None}
  BY DEF Undo

\* One undo leaves grants, and only those of the tables it names change.
LEMMA UndoneType ==
    ASSUME NEW u \in Undo, NEW book \in GrantBook
    PROVE  /\ Undone(u, book) \in GrantBook
           /\ \A n \in Names \ Touches(u) : Undone(u, book)[n] = book[n]
  <1>1. CASE u.verb = "rename"
    <2>1. Undone(u, book) = IF book[u.to] = None THEN book
                            ELSE [book EXCEPT ![u.to] = None, ![u.name] = book[u.to]]
      BY <1>1 DEF Undone
    <2> QED
      BY <1>1, <2>1, UndoFields DEF GrantBook, Touches
  <1>2. CASE u.verb # "rename"
    <2>1. Undone(u, book) = [book EXCEPT ![u.name] = u.old]
      BY <1>2, UndoFields DEF Undone
    <2> QED
      BY <1>2, <2>1, UndoFields DEF GrantBook, Touches
  <1> QED
    BY <1>1, <1>2

\* UndoGrants runs through the undos from the last to the first: done[i] is the book once the undos
\* from i on have been taken back.
Runs(book, undo, done) ==
    /\ done \in [1..(Len(undo) + 1) -> GrantBook]
    /\ done[Len(undo) + 1] = book
    /\ \A i \in 1..Len(undo) : done[i] = Undone(undo[i], done[i + 1])

\* UndoGrants is what its undos leave one after the other, the last first.
LEMMA UndoRuns ==
    ASSUME NEW book \in GrantBook, NEW undo \in Seq(Undo)
    PROVE  \E done : Runs(book, undo, done) /\ UndoGrants(book, undo) = done[1]
  <1> DEFINE D == DOMAIN undo
             pick == [T \in SUBSET D |-> IF T = {} THEN {} ELSE Min(T)]
             step == [p \in D \X GrantBook |-> Undone(undo[p[1]], p[2])]
             Fixed(f) == f = [T \in SUBSET D |-> IF T = {} THEN book
                                                 ELSE Undone(undo[Min(T)], f[T \ {Min(T)}])]
             iter == CHOOSE f : Fixed(f)
  <1>1. D = 1..Len(undo) /\ Len(undo) \in Nat /\ \A i \in D : undo[i] \in Undo
    OBVIOUS
  <1>2. ASSUME NEW T \in SUBSET D, T # {}
        PROVE  Min(T) \in T /\ \A i \in T : Min(T) <= i
    <2>1. \E n \in T : \A m \in T : n <= m
      BY <1>1, <1>2, LeastNatural
    <2> QED
      BY <2>1 DEF Min
  <1>3. IsFiniteSet(D)
    BY <1>1, FS_Interval
  <1>4. pick \in [SUBSET D -> D \cup {{}}] /\ \A T \in SUBSET D : T # {} => pick[T] \in T
    <2>1. ASSUME NEW T \in SUBSET D, T # {} PROVE Min(T) \in D /\ pick[T] = Min(T) /\ pick[T] \in T
      BY <1>2, <2>1
    <2> QED
      BY <2>1
  <1>5. step \in [D \X GrantBook -> GrantBook]
    BY <1>1, UndoneType
  <1>6. PICK f : Folds(D, GrantBook, book, pick, step, f)
    <2> HIDE DEF pick, step, D
    <2>1. Foldable(D, GrantBook, book, pick, step)
      BY <1>3, <1>4, <1>5 DEF Foldable
    <2> QED
      BY <2>1, FoldExists
  <1>7. Fixed(f)
    <2>1. ASSUME NEW T \in SUBSET D, T # {}
          PROVE  f[T] = Undone(undo[Min(T)], f[T \ {Min(T)}])
      <3>1. f[T] = step[<<pick[T], f[T \ {pick[T]}]>>]
        BY <1>6, <2>1 DEF Folds, Unfolded
      <3>2. pick[T] = Min(T) /\ Min(T) \in D /\ f[T \ {Min(T)}] \in GrantBook
        BY <1>2, <1>6, <2>1 DEF Folds
      <3> QED
        BY <3>1, <3>2
    <2>2. f[{}] = book
      BY <1>6 DEF Folds, Unfolded
    <2>3. f = [T \in SUBSET D |-> f[T]]
      BY <1>6 DEF Folds
    <2> QED
      BY <2>1, <2>2, <2>3
  <1>8. Fixed(iter)
    <2> HIDE DEF Fixed
    <2> QED
      BY <1>7
  <1>9. UndoGrants(book, undo) = iter[D]
    BY DEF UndoGrants, FoldRight, MapThenFoldSet
  <1> DEFINE done == [i \in 1..(Len(undo) + 1) |-> iter[i..Len(undo)]]
  <1> HIDE DEF iter
  <1>10. done[Len(undo) + 1] = book
    <2>1. iter[{}] = book
      BY <1>8
    <2>2. (Len(undo) + 1)..Len(undo) = {}
      BY <1>1
    <2> QED
      BY <1>1, <2>1, <2>2
  <1>11. ASSUME NEW i \in 1..Len(undo) PROVE done[i] = Undone(undo[i], done[i + 1])
    <2> DEFINE T == i..Len(undo)
    <2>1. T \in SUBSET D /\ T # {} /\ i \in T
      BY <1>1
    <2>2. Min(T) = i
      <3>1. Min(T) \in T /\ Min(T) <= i
        <4> HIDE DEF T
        <4> QED
          BY <1>2, <2>1
      <3> QED
        BY <1>1, <3>1
    <2>3. T \ {i} = (i + 1)..Len(undo)
      BY <1>1
    <2>4. iter[T] = Undone(undo[i], iter[T \ {i}])
      BY <1>8, <2>1, <2>2
    <2>5. done[i] = iter[T] /\ done[i + 1] = iter[(i + 1)..Len(undo)]
      BY <1>1
    <2> HIDE DEF done, T
    <2> QED
      BY <2>3, <2>4, <2>5
  <1> DEFINE Good == {k \in Nat : k <= Len(undo) => done[Len(undo) + 1 - k] \in GrantBook}
  <1>12. Nat \subseteq Good
    <2> HIDE DEF done
    <2>1. 0 \in Good
      BY <1>1, <1>10
    <2>2. ASSUME NEW k \in Nat, k \in Good PROVE k + 1 \in Good
      <3> SUFFICES ASSUME k + 1 <= Len(undo) PROVE done[Len(undo) + 1 - (k + 1)] \in GrantBook
        OBVIOUS
      <3> DEFINE i == Len(undo) + 1 - (k + 1)
      <3>1. i \in 1..Len(undo) /\ i + 1 = Len(undo) + 1 - k
        BY <1>1
      <3>2. done[i + 1] \in GrantBook
        BY <2>2, <3>1, <1>1
      <3>3. undo[i] \in Undo
        BY <1>1, <3>1
      <3> HIDE DEF i
      <3>4. done[i] \in GrantBook
        BY <1>11, <3>1, <3>2, <3>3, UndoneType
      <3> QED
        BY <3>4 DEF i
    <2> HIDE DEF Good
    <2> QED
      BY <2>1, <2>2, SetInduction
  <1>13. done \in [1..(Len(undo) + 1) -> GrantBook]
    <2>1. ASSUME NEW i \in 1..(Len(undo) + 1) PROVE done[i] \in GrantBook
      <3> DEFINE k == Len(undo) + 1 - i
      <3>1. k \in Nat /\ k <= Len(undo) /\ Len(undo) + 1 - k = i
        BY <1>1
      <3> HIDE DEF k, done
      <3> QED
        BY <1>12, <3>1
    <2> QED
      BY <2>1
  <1>14. UndoGrants(book, undo) = done[1]
    BY <1>1, <1>9
  <1> HIDE DEF done
  <1> QED
    BY <1>10, <1>11, <1>13, <1>14 DEF Runs

TouchedBy(undo) == UNION {Touches(undo[i]) : i \in DOMAIN undo}

\* UndoGrants leaves grants, and only those of the tables the undos name change.
LEMMA UndoGrantsType ==
    ASSUME NEW book \in GrantBook, NEW undo \in Seq(Undo)
    PROVE  /\ UndoGrants(book, undo) \in GrantBook
           /\ \A n \in Names \ TouchedBy(undo) : UndoGrants(book, undo)[n] = book[n]
  <1>1. PICK done : Runs(book, undo, done) /\ UndoGrants(book, undo) = done[1]
    BY UndoRuns
  <1>2. Len(undo) \in Nat /\ DOMAIN undo = 1..Len(undo) /\ \A i \in 1..Len(undo) : undo[i] \in Undo
    OBVIOUS
  <1>3. done[1] \in GrantBook
    BY <1>1, <1>2 DEF Runs
  <1>4. ASSUME NEW n \in Names \ TouchedBy(undo) PROVE done[1][n] = book[n]
    <2> DEFINE Same == {k \in Nat : k <= Len(undo) => done[Len(undo) + 1 - k][n] = book[n]}
    <2>1. 0 \in Same
      BY <1>1, <1>2 DEF Runs
    <2>2. ASSUME NEW k \in Nat, k \in Same PROVE k + 1 \in Same
      <3> SUFFICES ASSUME k + 1 <= Len(undo) PROVE done[Len(undo) + 1 - (k + 1)][n] = book[n]
        OBVIOUS
      <3> DEFINE i == Len(undo) + 1 - (k + 1)
      <3>1. i \in 1..Len(undo) /\ i + 1 = Len(undo) + 1 - k /\ i + 1 \in 1..(Len(undo) + 1)
        BY <1>2
      <3>2. done[i + 1][n] = book[n]
        BY <2>2, <3>1, <1>2
      <3> HIDE DEF i
      <3>3. done[i + 1] \in GrantBook /\ done[i] = Undone(undo[i], done[i + 1])
        BY <1>1, <3>1 DEF Runs
      <3>4. n \notin Touches(undo[i]) /\ undo[i] \in Undo
        BY <1>2, <3>1 DEF TouchedBy
      <3>5. done[i][n] = book[n]
        BY <3>2, <3>3, <3>4, UndoneType
      <3> QED
        BY <3>5 DEF i
    <2>3. Nat \subseteq Same
      <3> HIDE DEF Same
      <3> QED
        BY <2>1, <2>2, SetInduction
    <2>4. Len(undo) \in Same /\ Len(undo) + 1 - Len(undo) = 1
      BY <1>2, <2>3
    <2> QED
      BY <1>2, <2>4
  <1> QED
    BY <1>1, <1>3, <1>4

\* Nothing to undo.
LEMMA UndoNothing ==
    ASSUME NEW book \in GrantBook
    PROVE  UndoGrants(book, <<>>) = book
  <1>1. <<>> \in Seq(Undo)
    OBVIOUS
  <1>2. PICK done : Runs(book, <<>>, done) /\ UndoGrants(book, <<>>) = done[1]
    BY <1>1, UndoRuns
  <1> QED
    BY <1>2 DEF Runs

\* The undo that was added last is the first to be taken back.
LEMMA UndoLast ==
    ASSUME NEW book \in GrantBook, NEW undo \in Seq(Undo), NEW u \in Undo
    PROVE  UndoGrants(book, undo \o <<u>>) = UndoGrants(Undone(u, book), undo)
  <1> DEFINE more == undo \o <<u>>
             last == Undone(u, book)
             N == Len(undo)
  <1>1. /\ more \in Seq(Undo) /\ Len(more) = N + 1 /\ more[N + 1] = u
        /\ N \in Nat /\ \A i \in 1..N : more[i] = undo[i]
    OBVIOUS
  <1>2. last \in GrantBook
    BY UndoneType
  <1> HIDE DEF more, last, N
  <1>3. PICK done : Runs(book, more, done) /\ UndoGrants(book, more) = done[1]
    BY <1>1, UndoRuns
  <1>4. PICK shorter : Runs(last, undo, shorter) /\ UndoGrants(last, undo) = shorter[1]
    BY <1>2, UndoRuns
  <1>5. done[N + 1] = shorter[N + 1]
    <2>1. done[N + 1] = Undone(more[N + 1], done[N + 2]) /\ done[N + 2] = book
      BY <1>1, <1>3 DEF Runs
    <2>2. shorter[N + 1] = last
      BY <1>4 DEF Runs, N
    <2> QED
      BY <1>1, <2>1, <2>2 DEF last
  <1> DEFINE Same == {k \in Nat : k <= N => done[N + 1 - k] = shorter[N + 1 - k]}
  <1>6. Nat \subseteq Same
    <2>1. 0 \in Same
      BY <1>1, <1>5
    <2>2. ASSUME NEW k \in Nat, k \in Same PROVE k + 1 \in Same
      <3> SUFFICES ASSUME k + 1 <= N PROVE done[N + 1 - (k + 1)] = shorter[N + 1 - (k + 1)]
        OBVIOUS
      <3> DEFINE i == N + 1 - (k + 1)
      <3>1. i \in 1..N /\ i + 1 = N + 1 - k /\ i \in 1..(N + 1)
        BY <1>1
      <3>2. done[i + 1] = shorter[i + 1]
        BY <2>2, <3>1, <1>1
      <3> HIDE DEF i
      <3>3. done[i] = Undone(undo[i], done[i + 1])
        BY <1>1, <1>3, <3>1 DEF Runs
      <3>4. shorter[i] = Undone(undo[i], shorter[i + 1])
        BY <1>4, <3>1 DEF Runs, N
      <3>5. done[i] = shorter[i]
        BY <3>2, <3>3, <3>4
      <3> QED
        BY <3>5 DEF i
    <2> HIDE DEF Same
    <2> QED
      BY <2>1, <2>2, SetInduction
  <1>7. N \in Same /\ N + 1 - N = 1
    BY <1>1, <1>6
  <1>8. done[1] = shorter[1]
    BY <1>1, <1>7
  <1> QED
    BY <1>3, <1>4, <1>8 DEF more, last

--------------------------------------------------------------------------------
(* How many undos are owed *)

\* The element the fold takes first.
First(T) == CHOOSE s \in T : TRUE

\* upto[T] is what the sessions in T owe together.
Sums(all, upto) ==
    /\ upto \in [SUBSET Sessions -> Nat] /\ upto[{}] = 0
    /\ \A T \in SUBSET Sessions : T # {} => upto[T] = upto[T \ {First(T)}] + Owes(all, First(T))

\* Owed is the sum of what the sessions owe, one session at a time.
LEMMA OwedSums ==
    ASSUME NEW all, \A s \in Sessions : Owes(all, s) \in Nat
    PROVE  \E upto : Sums(all, upto) /\ Owed(all) = upto[Sessions]
  <1> DEFINE pick == [T \in SUBSET Sessions |-> IF T = {} THEN {} ELSE First(T)]
             step == [p \in Sessions \X Nat |-> p[2] + Owes(all, p[1])]
             Fixed(f) == f = [T \in SUBSET Sessions |-> IF T = {} THEN 0
                                ELSE f[T \ {First(T)}] + Owes(all, First(T))]
             iter == CHOOSE f : Fixed(f)
  <1>1. ASSUME NEW T \in SUBSET Sessions, T # {} PROVE First(T) \in T
    BY <1>1 DEF First
  <1>2. IsFiniteSet(Sessions)
    BY SessionBounds
  <1>3. /\ pick \in [SUBSET Sessions -> Sessions \cup {{}}]
        /\ \A T \in SUBSET Sessions : T # {} => pick[T] \in T
    <2>1. ASSUME NEW T \in SUBSET Sessions, T # {}
          PROVE  First(T) \in Sessions /\ pick[T] = First(T) /\ pick[T] \in T
      BY <1>1, <2>1
    <2> QED
      BY <2>1
  <1>4. step \in [Sessions \X Nat -> Nat]
    <2>1. ASSUME NEW p \in Sessions \X Nat PROVE p[2] + Owes(all, p[1]) \in Nat
      <3>1. p[1] \in Sessions /\ p[2] \in Nat
        OBVIOUS
      <3>2. Owes(all, p[1]) \in Nat
        BY <3>1
      <3> QED
        BY <3>1, <3>2
    <2> QED
      BY <2>1
  <1>5. PICK f : Folds(Sessions, Nat, 0, pick, step, f)
    <2> HIDE DEF pick, step
    <2>1. Foldable(Sessions, Nat, 0, pick, step)
      BY <1>2, <1>3, <1>4 DEF Foldable
    <2> QED
      BY <2>1, FoldExists
  <1>6. ASSUME NEW T \in SUBSET Sessions, T # {}
        PROVE  f[T] = f[T \ {First(T)}] + Owes(all, First(T))
    <2>1. f[T] = step[<<pick[T], f[T \ {pick[T]}]>>]
      BY <1>5, <1>6 DEF Folds, Unfolded
    <2>2. pick[T] = First(T) /\ First(T) \in Sessions /\ f[T \ {First(T)}] \in Nat
      BY <1>1, <1>5, <1>6 DEF Folds
    <2> QED
      BY <2>1, <2>2
  <1>7. f \in [SUBSET Sessions -> Nat] /\ f[{}] = 0
    BY <1>5 DEF Folds, Unfolded
  <1>8. Fixed(f)
    <2>1. f = [T \in SUBSET Sessions |-> f[T]]
      BY <1>7
    <2> QED
      BY <1>6, <1>7, <2>1
  <1>9. Fixed(iter)
    <2> HIDE DEF Fixed
    <2> QED
      BY <1>8
  <1>10. Owed(all) = iter[Sessions]
    BY DEF Owed, FoldSet, MapThenFoldSet, First
  <1> HIDE DEF iter
  <1>11. /\ iter[{}] = 0
         /\ \A T \in SUBSET Sessions : T # {} => iter[T] = iter[T \ {First(T)}] + Owes(all, First(T))
    BY <1>9
  <1> DEFINE Good == {k \in Nat : \A T \in SUBSET Sessions : Cardinality(T) = k => iter[T] \in Nat}
  <1>12. ASSUME NEW T \in SUBSET Sessions
         PROVE  /\ IsFiniteSet(T) /\ Cardinality(T) \in Nat
                /\ Cardinality(T) = 0 => T = {}
                /\ T # {} => Cardinality(T \ {First(T)}) = Cardinality(T) - 1
    <2>1. IsFiniteSet(T)
      BY <1>2, FS_Subset
    <2>2. Cardinality(T) \in Nat
      BY <2>1, FS_CardinalityType
    <2>3. Cardinality(T) = 0 => T = {}
      BY <2>1, FS_EmptySet
    <2>4. ASSUME NEW s \in T PROVE Cardinality(T \ {s}) = Cardinality(T) - 1
      BY <2>1, FS_RemoveElement
    <2> QED
      BY <1>1, <2>1, <2>2, <2>3, <2>4
  <1>13. Nat \subseteq Good
    <2>1. 0 \in Good
      BY <1>11, <1>12
    <2>2. ASSUME NEW k \in Nat, k \in Good PROVE k + 1 \in Good
      <3> SUFFICES ASSUME NEW T \in SUBSET Sessions, Cardinality(T) = k + 1 PROVE iter[T] \in Nat
        OBVIOUS
      <3>1. T # {}
        BY FS_EmptySet
      <3>2. Cardinality(T \ {First(T)}) = k
        BY <1>12, <3>1
      <3>3. iter[T \ {First(T)}] \in Nat
        BY <2>2, <3>2
      <3>4. Owes(all, First(T)) \in Nat
        BY <1>1, <3>1
      <3> QED
        BY <1>11, <3>1, <3>3, <3>4
    <2> HIDE DEF Good
    <2> QED
      BY <2>1, <2>2, SetInduction
  <1>14. \A T \in SUBSET Sessions : iter[T] \in Nat
    BY <1>12, <1>13
  <1>15. iter \in [SUBSET Sessions -> Nat]
    <2>1. iter = [T \in SUBSET Sessions |-> iter[T]]
      BY <1>9
    <2> QED
      BY <1>14, <2>1
  <1> QED
    BY <1>10, <1>11, <1>15 DEF Sums

\* When only what s owes changes, the sum changes by as much; and s owes no more than all do.
LEMMA OwedChanges ==
    ASSUME NEW all, NEW after, NEW s \in Sessions,
           \A t \in Sessions : Owes(all, t) \in Nat /\ Owes(after, t) \in Nat,
           \A t \in Sessions \ {s} : Owes(after, t) = Owes(all, t)
    PROVE  /\ Owed(all) \in Nat /\ Owed(all) >= Owes(all, s)
           /\ Owed(after) = Owed(all) + Owes(after, s) - Owes(all, s)
  <1>1. PICK before : Sums(all, before) /\ Owed(all) = before[Sessions]
    BY OwedSums
  <1>2. PICK then : Sums(after, then) /\ Owed(after) = then[Sessions]
    BY OwedSums
  <1> DEFINE Right(T) == /\ s \notin T => then[T] = before[T]
                         /\ s \in T => /\ before[T] >= Owes(all, s)
                                       /\ then[T] = before[T] + Owes(after, s) - Owes(all, s)
             Good == {k \in Nat : \A T \in SUBSET Sessions : Cardinality(T) = k => Right(T)}
  <1>3. ASSUME NEW T \in SUBSET Sessions
        PROVE  /\ IsFiniteSet(T) /\ Cardinality(T) \in Nat /\ before[T] \in Nat /\ then[T] \in Nat
               /\ Cardinality(T) = 0 => T = {}
               /\ \A t \in T : Cardinality(T \ {t}) = Cardinality(T) - 1
    <2>1. IsFiniteSet(T)
      BY SessionBounds, FS_Subset
    <2>2. Cardinality(T) \in Nat
      BY <2>1, FS_CardinalityType
    <2>3. Cardinality(T) = 0 => T = {}
      BY <2>1, FS_EmptySet
    <2>4. ASSUME NEW t \in T PROVE Cardinality(T \ {t}) = Cardinality(T) - 1
      BY <2>1, FS_RemoveElement
    <2> QED
      BY <1>1, <1>2, <2>1, <2>2, <2>3, <2>4 DEF Sums
  <1>4. Nat \subseteq Good
    <2>1. 0 \in Good
      BY <1>1, <1>2, <1>3 DEF Sums
    <2>2. ASSUME NEW k \in Nat, k \in Good PROVE k + 1 \in Good
      <3> SUFFICES ASSUME NEW T \in SUBSET Sessions, Cardinality(T) = k + 1 PROVE Right(T)
        OBVIOUS
      <3> DEFINE t == First(T)
                 U == T \ {t}
      <3>1. T # {} /\ t \in T /\ t \in Sessions
        BY FS_EmptySet DEF First
      <3>2. Cardinality(U) = k /\ U \in SUBSET Sessions
        BY <1>3, <3>1
      <3>3. Right(U)
        BY <2>2, <3>2
      <3>4. before[T] = before[U] + Owes(all, t) /\ then[T] = then[U] + Owes(after, t)
        BY <1>1, <1>2, <3>1 DEF Sums
      <3>5. before[U] \in Nat /\ then[U] \in Nat /\ Owes(all, t) \in Nat /\ Owes(after, t) \in Nat
        BY <1>3, <3>1, <3>2
      <3>6. Owes(all, s) \in Nat /\ Owes(after, s) \in Nat
        OBVIOUS
      <3>7. CASE t = s
        <4>1. s \in T /\ s \notin U
          BY <3>1, <3>7
        <4>2. then[U] = before[U]
          BY <3>3, <4>1
        <4> QED
          BY <3>4, <3>5, <3>7, <4>1, <4>2
      <3>8. CASE t # s
        <4>1. (s \in T <=> s \in U) /\ Owes(after, t) = Owes(all, t)
          BY <3>1, <3>8
        <4> HIDE DEF t, U
        <4> QED
          BY <3>3, <3>4, <3>5, <3>6, <4>1
      <3> QED
        BY <3>7, <3>8
    <2> HIDE DEF Good
    <2> QED
      BY <2>1, <2>2, SetInduction
  <1>5. Right(Sessions)
    BY <1>3, <1>4
  <1> QED
    BY <1>1, <1>2, <1>3, <1>5

--------------------------------------------------------------------------------
(* The inductive invariant *)

\* The entries a statement that ran on the source changed, and the one it made.
Changes(d) ==
    IF d = None THEN {} ELSE {d.name} \cup IF d.verb = "rename" THEN {d.to} ELSE {}
Makes(d) ==
    IF d = None THEN {} ELSE IF d.verb = "create" THEN {d.name}
    ELSE IF d.verb = "rename" THEN {d.to} ELSE {}

FailuresCounted == failures = 0 => \A s \in Sessions : ~InStep(s, "failed")

\* The source lets one transaction at a time change an entry.
WritersDiffer ==
    \A s, t \in Sessions : s # t /\ sess[s] # None /\ sess[t] # None =>
        sess[s].written \cap sess[t].written = {}

\* A statement that is not recorded yet holds its tables and has changed what the session sees.
Pending(s) ==
    LET d == sess[s].ddl
    IN  /\ d # None => sess[s].step = "open"
        /\ Changes(d) \subseteq sess[s].written
        /\ d # None => /\ d.verb = "drop" => d.name \notin sess[s].view
                       /\ d.verb = "rename" => d.name \notin sess[s].view /\ d.to \in sess[s].view

Owing(s) ==
    /\ sess[s].step = "open" => TouchedBy(sess[s].undo) \subseteq sess[s].written
    /\ sess[s].step = "undone" => sess[s].undo = <<>>

\* What s created is granted, or will be when the statement is recorded: a rename of s then still
\* has a grant to move.
Granting(s) ==
    sess[s].step = "open" =>
        /\ \A n \in Created(s) : grants[n] # None \/ n \in Makes(sess[s].ddl)
        /\ sess[s].undo # <<>> /\ sess[s].ddl # None /\ sess[s].ddl.verb = "rename" =>
              grants[sess[s].ddl.name] # None

Sound(s) == Pending(s) /\ Owing(s) /\ (failures = 0 => Granting(s))

IInv ==
    /\ TypeOK /\ DdlIsCounted /\ FailuresCounted /\ WritersDiffer /\ ShaperHoldsTheTable
    /\ \A s \in Sessions : sess[s] # None => Sound(s)

--------------------------------------------------------------------------------
(* Facts about the state *)

\* The fields of a session and of its statement.
LEMMA SessionFields ==
    ASSUME TypeOK, NEW s \in Sessions, sess[s] # None
    PROVE  /\ sess[s] \in DuckDBSession
           /\ sess[s].step \in {"open", "committed", "failed", "undone", "left"}
           /\ sess[s].view \subseteq Names /\ sess[s].written \subseteq Names
           /\ sess[s].stale \subseteq Names
           /\ sess[s].ddl # None => /\ sess[s].ddl \in Ddl
                                    /\ sess[s].ddl.name \in Names
                                    /\ sess[s].ddl.verb = "rename" => sess[s].ddl.to \in Names
           /\ sess[s].undo \in Seq(Undo) /\ Len(sess[s].undo) \in Nat
  <1>1. sess[s] \in DuckDBSession
    BY DEF TypeOK
  <1>2. sess[s].ddl # None => sess[s].ddl \in Ddl
    BY <1>1 DEF DuckDBSession
  <1> QED
    BY <1>1, <1>2 DEF DuckDBSession, Ddl

\* The two ways in which the undos of a session name their tables.
LEMMA UndoNamesAreTouched ==
    ASSUME NEW s, NEW all, all[s].undo \in Seq(Undo), all = sess
    PROVE  UndoNames(s) = TouchedBy(all[s].undo)
  BY DEF UndoNames, TouchedBy, Touches, Range

\* What a transaction created is among the tables it owes an undo for.
LEMMA CreatedIsTouched ==
    ASSUME NEW s, NEW n \in Created(s)
    PROVE  n \in TouchedBy(sess[s].undo)
  BY DEF Created, TouchedBy, Touches

\* Created, of a session's record.
CreatedIn(r) ==
    {n \in r.view : \E i \in DOMAIN r.undo : r.undo[i].verb = "create" /\ r.undo[i].name = n}

\* The sum of what the sessions owe follows the counter.
LEMMA OwesType ==
    ASSUME TypeOK
    PROVE  \A s \in Sessions : Owes(sess, s) \in Nat
  BY SessionFields DEF Owes

\* uncommitted_ddl keeps up when it changes by what one session owes more or less.
LEMMA StaysCounted ==
    ASSUME TypeOK, TypeOK', DdlIsCounted, NEW s \in Sessions,
           \A t \in Sessions \ {s} : Owes(sess', t) = Owes(sess, t),
           uncommitted_ddl' = uncommitted_ddl + Owes(sess', s) - Owes(sess, s)
    PROVE  DdlIsCounted'
  <1>1. \A t \in Sessions : Owes(sess, t) \in Nat /\ Owes(sess', t) \in Nat
    <2>1. \A t \in Sessions : Owes(sess, t) \in Nat
      BY OwesType
    <2>2. \A t \in Sessions : Owes(sess', t) \in Nat
      <3> SUFFICES ASSUME NEW t \in Sessions PROVE Owes(sess', t) \in Nat
        OBVIOUS
      <3>1. sess'[t] \in DuckDBSession \cup {None}
        BY DEF TypeOK
      <3> QED
        BY <3>1 DEF Owes, DuckDBSession
    <2> QED
      BY <2>1, <2>2
  <1>2. Owed(sess') = Owed(sess) + Owes(sess', s) - Owes(sess, s)
    BY <1>1, OwedChanges
  <1>3. uncommitted_ddl = Owed(sess)
    BY DEF DdlIsCounted
  <1>4. uncommitted_ddl' = Owed(sess')
    BY <1>2, <1>3
  <1> QED
    BY <1>4 DEF DdlIsCounted

\* No session owes more than the counter says.
LEMMA OwesAtMost ==
    ASSUME TypeOK, DdlIsCounted, NEW s \in Sessions, sess[s] # None
    PROVE  /\ Len(sess[s].undo) <= uncommitted_ddl
           /\ sess[s].undo # <<>> => uncommitted_ddl > 0
  <1>1. Owed(sess) \in Nat /\ Owed(sess) >= Owes(sess, s)
    BY OwesType, OwedChanges
  <1>2. uncommitted_ddl = Owed(sess)
    BY DEF DdlIsCounted
  <1>3. sess[s].undo \in Seq(Undo)
    BY SessionFields
  <1> QED
    BY <1>1, <1>2, <1>3 DEF Owes

\* A session whose transaction did not move stays sound when the grants of the tables it holds did
\* not change.
LEMMA OthersStaySound ==
    ASSUME IInv, NEW t \in Sessions, sess[t] # None,
           sess'[t].step = sess[t].step, sess'[t].view = sess[t].view,
           sess'[t].written = sess[t].written, sess'[t].ddl = sess[t].ddl,
           sess'[t].undo = sess[t].undo,
           failures' = 0 => failures = 0,
           failures = 0 => \A n \in sess[t].written : grants'[n] = grants[n]
    PROVE  Sound(t)'
  <1>1. Sound(t)
    BY DEF IInv
  <1>2. Pending(t)' /\ Owing(t)'
    BY <1>1 DEF Sound, Pending, Owing
  <1>3. ASSUME failures' = 0 PROVE Granting(t)'
    <2> SUFFICES ASSUME sess[t].step = "open" PROVE Granting(t)'
      BY DEF Granting
    <2>1. Granting(t) /\ Owing(t) /\ Pending(t)
      BY <1>1, <1>3 DEF Sound
    <2>2. Created(t)' = Created(t)
      BY DEF Created
    <2>3. \A n \in Created(t) : grants'[n] = grants[n]
      BY <1>3, <2>1, CreatedIsTouched DEF Owing
    <2>4. sess[t].ddl # None => grants'[sess[t].ddl.name] = grants[sess[t].ddl.name]
      BY <1>3, <2>1 DEF Pending, Changes
    <2> QED
      BY <2>1, <2>2, <2>3, <2>4 DEF Granting
  <1> QED
    BY <1>2, <1>3 DEF Sound

--------------------------------------------------------------------------------
(* Every step keeps the invariant *)

\* A session's record is not the mark of an absent one.
LEMMA SessionIsSome == ASSUME NEW r \in DuckDBSession PROVE r # None
  BY NoneIsNew

\* Sessions that owe nothing owe nothing together.
LEMMA OwedNothing ==
    ASSUME NEW all, \A s \in Sessions : Owes(all, s) = 0
    PROVE  Owed(all) = 0
  <1>1. PICK upto : Sums(all, upto) /\ Owed(all) = upto[Sessions]
    BY OwedSums
  <1> DEFINE Good == {k \in Nat : \A T \in SUBSET Sessions : Cardinality(T) = k => upto[T] = 0}
  <1>2. ASSUME NEW T \in SUBSET Sessions
        PROVE  /\ Cardinality(T) \in Nat
               /\ Cardinality(T) = 0 => T = {}
               /\ \A t \in T : Cardinality(T \ {t}) = Cardinality(T) - 1
    <2>1. IsFiniteSet(T)
      BY SessionBounds, FS_Subset
    <2> QED
      BY <2>1, FS_CardinalityType, FS_EmptySet, FS_RemoveElement
  <1>3. Nat \subseteq Good
    <2>1. 0 \in Good
      BY <1>1, <1>2 DEF Sums
    <2>2. ASSUME NEW k \in Nat, k \in Good PROVE k + 1 \in Good
      <3> SUFFICES ASSUME NEW T \in SUBSET Sessions, Cardinality(T) = k + 1 PROVE upto[T] = 0
        OBVIOUS
      <3>1. T # {} /\ First(T) \in T
        BY FS_EmptySet DEF First
      <3>2. Cardinality(T \ {First(T)}) = k
        BY <1>2, <3>1
      <3>3. upto[T \ {First(T)}] = 0 /\ Owes(all, First(T)) = 0
        BY <2>2, <3>1, <3>2
      <3> QED
        BY <1>1, <3>1, <3>3 DEF Sums
    <2> HIDE DEF Good
    <2> QED
      BY <2>1, <2>2, SetInduction
  <1> QED
    BY <1>1, <1>2, <1>3

\* A source without sessions.
LEMMA InitSound == Init => IInv
  <1> SUFFICES ASSUME Init PROVE IInv
    OBVIOUS
  <1>1. TypeOK
    BY SessionBounds DEF Init, TypeOK, Grant
  <1>2. DdlIsCounted
    <2>1. Owed(sess) = 0
      BY OwedNothing DEF Init, Owes
    <2> QED
      BY <2>1 DEF Init, DdlIsCounted
  <1> QED
    BY <1>1, <1>2 DEF Init, IInv, FailuresCounted, WritersDiffer, ShaperHoldsTheTable, InStep

\* A new session has changed nothing and owes nothing.
LEMMA SharedSound ==
    ASSUME IInv, NEW s \in Sessions, Shared(s)
    PROVE  IInv'
  <1>1. /\ sess'[s] = [step |-> "open", view |-> catalog, written |-> {}, stale |-> {}, ddl |-> None,
                       undo |-> <<>>]
        /\ sess'[s] \in DuckDBSession /\ sess'[s] # None
        /\ \A t \in Sessions \ {s} : sess'[t] = sess[t]
        /\ sess' \in [Sessions -> DuckDBSession \cup {None}]
    <2> DEFINE r == [step |-> "open", view |-> catalog, written |-> {}, stale |-> {}, ddl |-> None,
                     undo |-> <<>>]
    <2>1. r \in DuckDBSession
      BY DEF IInv, TypeOK, DuckDBSession
    <2>2. r # None
      BY <2>1, SessionIsSome
    <2>3. sess' = [sess EXCEPT ![s] = r] /\ sess \in [Sessions -> DuckDBSession \cup {None}]
      BY DEF Shared, IInv, TypeOK
    <2> HIDE DEF r
    <2>4. sess'[s] = r /\ \A t \in Sessions \ {s} : sess'[t] = sess[t]
      BY <2>3
    <2>5. sess' \in [Sessions -> DuckDBSession \cup {None}]
      BY <2>1, <2>3
    <2> QED
      BY <2>1, <2>2, <2>4, <2>5 DEF r
  <1>2. TypeOK'
    BY <1>1 DEF Shared, IInv, TypeOK, bookVars
  <1>3. DdlIsCounted'
    <2>1. Owes(sess', s) = 0 /\ Owes(sess, s) = 0
      BY <1>1 DEF Shared, Owes
    <2>2. uncommitted_ddl' = uncommitted_ddl + 0 - 0
      BY DEF Shared, bookVars, IInv, TypeOK
    <2> QED
      BY <1>1, <1>2, <2>1, <2>2, StaysCounted DEF IInv, Owes
  <1>4. FailuresCounted' /\ WritersDiffer'
    BY <1>1 DEF Shared, bookVars, IInv, FailuresCounted, WritersDiffer, InStep
  <1>5. ShaperHoldsTheTable'
    BY <1>1 DEF Shared, bookVars, IInv, ShaperHoldsTheTable, TypeOK
  <1>6. Sound(s)'
    BY <1>1 DEF Sound, Pending, Owing, Granting, Changes, TouchedBy, Created
  <1>7. ASSUME NEW t \in Sessions, t # s, sess'[t] # None PROVE Sound(t)'
    BY <1>1, <1>7, OthersStaySound DEF Shared, bookVars
  <1> QED
    BY <1>2, <1>3, <1>4, <1>5, <1>6, <1>7 DEF IInv

\* A statement the source ran: the session holds what it changed until it is recorded.
LEMMA RanSound ==
    ASSUME IInv, NEW s \in Sessions, Ready(s), NEW d \in Ddl, NEW view \in SUBSET Names,
           Ran(s, d, Changes(d), view), view \ Makes(d) \subseteq sess[s].view,
           d.verb = "drop" => d.name \notin view,
           d.verb = "rename" => d.name \notin view /\ d.to \in view /\ grants[d.name] # None
    PROVE  IInv'
  <1>1. sess[s] \in DuckDBSession /\ sess[s] # None /\ sess[s].step = "open"
    BY SessionFields DEF IInv, Ready, InStep
  <1>2. Changes(d) \subseteq Names /\ d # None
    BY NoneIsNew DEF Changes, Ddl
  <1>3. sess' = [sess EXCEPT ![s] =
                   [sess[s] EXCEPT !.view = view, !.written = @ \cup Changes(d), !.ddl = d]]
    BY <1>1 DEF Ran, IInv, TypeOK, DuckDBSession
  <1>4. /\ sess'[s] \in DuckDBSession /\ sess'[s] # None
        /\ sess'[s].step = "open" /\ sess'[s].view = view /\ sess'[s].ddl = d
        /\ sess'[s].written = sess[s].written \cup Changes(d) /\ sess'[s].undo = sess[s].undo
        /\ \A t \in Sessions \ {s} : sess'[t] = sess[t]
        /\ sess' \in [Sessions -> DuckDBSession \cup {None}]
    <2> DEFINE r == [sess[s] EXCEPT !.view = view, !.written = @ \cup Changes(d), !.ddl = d]
    <2>1. r \in DuckDBSession
      BY <1>1, <1>2 DEF DuckDBSession
    <2>2. /\ r.step = "open" /\ r.view = view /\ r.ddl = d
          /\ r.written = sess[s].written \cup Changes(d) /\ r.undo = sess[s].undo
      BY <1>1 DEF DuckDBSession
    <2>3. r # None
      BY <2>1, SessionIsSome
    <2>4. sess' = [sess EXCEPT ![s] = r] /\ sess \in [Sessions -> DuckDBSession \cup {None}]
      BY <1>3 DEF IInv, TypeOK
    <2> HIDE DEF r
    <2> QED
      BY <2>1, <2>2, <2>3, <2>4
  <1>5. TypeOK'
    BY <1>4 DEF Ran, IInv, TypeOK, bookVars
  <1>6. DdlIsCounted'
    <2>1. Owes(sess', s) = Owes(sess, s) /\ Owes(sess, s) \in Nat
      BY <1>1, <1>4, OwesType DEF Owes, IInv
    <2>2. uncommitted_ddl' = uncommitted_ddl + Owes(sess', s) - Owes(sess, s)
      BY <2>1 DEF Ran, bookVars, IInv, TypeOK
    <2> QED
      BY <1>4, <1>5, <2>2, StaysCounted DEF IInv, Owes
  <1>7. FailuresCounted'
    BY <1>1, <1>4 DEF Ran, bookVars, IInv, FailuresCounted, InStep
  <1>8. WritersDiffer'
    <2>1. ASSUME NEW t \in Sessions, t # s, sess[t] # None
          PROVE  (sess[s].written \cup Changes(d)) \cap sess[t].written = {}
      <3>1. sess[s].written \cap sess[t].written = {}
        BY <1>1, <2>1 DEF IInv, WritersDiffer
      <3>2. \A n \in Changes(d) : n \notin sess[t].written
        BY <2>1 DEF Ran, MayChange
      <3> QED
        BY <3>1, <3>2
    <2> QED
      BY <1>4, <2>1 DEF IInv, WritersDiffer
  <1>9. ShaperHoldsTheTable'
    <2>1. \A t \in Sessions : sess[t] # None =>
             /\ sess'[t] # None /\ sess'[t].step = sess[t].step
             /\ sess[t].written \subseteq sess'[t].written
      BY <1>1, <1>4
    <2>2. shaping' = shaping /\ shaping \in [Names -> Sessions \cup {None}]
      BY DEF Ran, bookVars, IInv, TypeOK
    <2> QED
      BY <2>1, <2>2 DEF IInv, ShaperHoldsTheTable
  <1>10. Sound(s)'
    <2>1. Pending(s)'
      BY <1>4 DEF Pending
    <2>2. Owing(s)'
      BY <1>1, <1>4 DEF IInv, Sound, Owing
    <2>3. ASSUME failures' = 0 PROVE Granting(s)'
      <3>1. Granting(s) /\ sess[s].ddl = None /\ failures = 0
        BY <1>1, <2>3 DEF IInv, Sound, Ran, Ready
      <3>2. \A n \in Created(s)' : n \in Created(s) \/ n \in Makes(d)
        BY <1>4 DEF Created
      <3>3. \A n \in Created(s) : grants[n] # None
        BY <1>1, <3>1 DEF Granting, Makes
      <3> QED
        BY <1>2, <1>4, <3>2, <3>3 DEF Granting, Ran, bookVars
    <2> QED
      BY <2>1, <2>2, <2>3 DEF Sound
  <1>11. ASSUME NEW t \in Sessions, t # s, sess'[t] # None PROVE Sound(t)'
    BY <1>4, <1>11, OthersStaySound DEF Ran, bookVars
  <1> QED
    BY <1>5, <1>6, <1>7, <1>8, <1>9, <1>10, <1>11 DEF IInv

\* A statement on the source is noted with the tables it changes, which its session then holds.
LEMMA StatementSound ==
    ASSUME IInv, NEW s \in Sessions, Statement(s)
    PROVE  IInv'
  <1>1. Ready(s) => sess[s].view \subseteq Names
    BY SessionFields DEF IInv, Ready, InStep
  <1>2. ASSUME NEW n \in Names, NEW replace \in BOOLEAN, CreateTable(s, n, replace) PROVE IInv'
    <2> DEFINE d == [verb |-> "create", name |-> n]
    <2>1. d \in Ddl /\ Changes(d) = {n} /\ Makes(d) = {n} /\ d.verb = "create"
      BY NoneIsNew DEF Ddl, Changes, Makes
    <2>2. Ready(s) /\ Ran(s, d, Changes(d), sess[s].view \cup {n})
      BY <1>2, <2>1 DEF CreateTable
    <2> HIDE DEF d
    <2> QED
      BY <1>1, <2>1, <2>2, RanSound
  <1>3. ASSUME NEW n \in Names, DropTable(s, n) PROVE IInv'
    <2> DEFINE d == [verb |-> "drop", name |-> n]
    <2>1. d \in Ddl /\ Changes(d) = {n} /\ Makes(d) = {} /\ d.verb = "drop" /\ d.name = n
      BY NoneIsNew DEF Ddl, Changes, Makes
    <2>2. Ready(s) /\ Ran(s, d, Changes(d), sess[s].view \ {n})
      BY <1>3, <2>1 DEF DropTable
    <2> HIDE DEF d
    <2> QED
      BY <1>1, <2>1, <2>2, RanSound
  <1>4. ASSUME NEW n \in Names, AlterTable(s, n) PROVE IInv'
    <2> DEFINE d == [verb |-> "alter", name |-> n]
    <2>1. d \in Ddl /\ Changes(d) = {n} /\ Makes(d) = {} /\ d.verb = "alter"
      BY NoneIsNew DEF Ddl, Changes, Makes
    <2>2. Ready(s) /\ Ran(s, d, Changes(d), sess[s].view)
      BY <1>4, <2>1 DEF AlterTable
    <2> HIDE DEF d
    <2> QED
      BY <1>1, <2>1, <2>2, RanSound
  <1>5. ASSUME NEW n \in Names, NEW m \in Names, RenameTable(s, n, m) PROVE IInv'
    <2> DEFINE d == [verb |-> "rename", name |-> n, to |-> m]
               view == (sess[s].view \ {n}) \cup {m}
    <2>1. /\ d \in Ddl /\ Changes(d) = {n, m} /\ Makes(d) = {m}
          /\ d.verb = "rename" /\ d.name = n /\ d.to = m
      BY NoneIsNew DEF Ddl, Changes, Makes
    <2>2. Ready(s) /\ Ran(s, d, Changes(d), view) /\ grants[n] # None
      BY <1>5, <2>1 DEF RenameTable
    <2>3. n \notin view /\ m \in view /\ view \ Makes(d) \subseteq sess[s].view /\ view \in SUBSET Names
      BY <1>1, <1>5, <2>1 DEF RenameTable
    <2> HIDE DEF d, view
    <2> QED
      BY <2>1, <2>2, <2>3, RanSound
  <1> QED
    BY <1>2, <1>3, <1>4, <1>5 DEF Statement

\* The undos of two sequences, one after the other, name the tables of both.
LEMMA TouchedConcat ==
    ASSUME NEW u \in Seq(Undo), NEW undo \in Seq(Undo)
    PROVE  TouchedBy(u \o undo) = TouchedBy(u) \cup TouchedBy(undo)
  <1> DEFINE v == u \o undo
  <1>1. /\ u \in Seq(Undo) /\ v \in Seq(Undo) /\ Len(v) = Len(u) + Len(undo)
        /\ \A i \in 1..Len(u) : v[i] = u[i]
        /\ \A i \in 1..Len(undo) : v[Len(u) + i] = undo[i]
        /\ \A i \in 1..Len(v) : i <= Len(u) \/ (i - Len(u) \in 1..Len(undo) /\ v[i] = undo[i - Len(u)])
        /\ DOMAIN v = 1..Len(v) /\ DOMAIN u = 1..Len(u) /\ DOMAIN undo = 1..Len(undo)
        /\ Len(u) \in Nat /\ Len(undo) \in Nat
    OBVIOUS
  <1> HIDE DEF v
  <1>2. TouchedBy(v) \subseteq TouchedBy(u) \cup TouchedBy(undo)
    <2> SUFFICES ASSUME NEW i \in 1..Len(v)
                 PROVE  Touches(v[i]) \subseteq TouchedBy(u) \cup TouchedBy(undo)
      BY <1>1 DEF TouchedBy
    <2>1. CASE i <= Len(u)
      <3>1. i \in 1..Len(u)
        BY <1>1, <2>1
      <3> QED
        BY <1>1, <3>1 DEF TouchedBy
    <2>2. CASE ~(i <= Len(u))
      BY <1>1, <2>2 DEF TouchedBy
    <2> QED
      BY <2>1, <2>2
  <1>3. TouchedBy(u) \subseteq TouchedBy(v)
    <2> SUFFICES ASSUME NEW i \in 1..Len(u) PROVE Touches(u[i]) \subseteq TouchedBy(v)
      BY <1>1 DEF TouchedBy
    <2>1. i \in 1..Len(v) /\ v[i] = u[i]
      BY <1>1
    <2> QED
      BY <1>1, <2>1 DEF TouchedBy
  <1>4. TouchedBy(undo) \subseteq TouchedBy(v)
    <2> SUFFICES ASSUME NEW i \in 1..Len(undo) PROVE Touches(undo[i]) \subseteq TouchedBy(v)
      BY <1>1 DEF TouchedBy
    <2>1. Len(u) + i \in 1..Len(v) /\ v[Len(u) + i] = undo[i]
      BY <1>1
    <2> QED
      BY <1>1, <2>1 DEF TouchedBy
  <1> QED
    BY <1>2, <1>3, <1>4 DEF v

\* A statement that is recorded: its undos name tables it changed, and so do the grants it changes.
LEMMA RecordedSound ==
    ASSUME IInv, NEW s \in Sessions, InStep(s, "open"), sess[s].ddl # None,
           NEW undo \in Seq(Undo), Recorded(s, undo), TouchedBy(undo) \subseteq Changes(sess[s].ddl),
           grants' \in GrantBook,
           \A n \in Names \ Changes(sess[s].ddl) : grants'[n] = grants[n],
           shaping' \in [Names -> Sessions \cup {None}],
           \A n \in Names : shaping'[n] = shaping[n] \/ (shaping'[n] = s /\ n \in Changes(sess[s].ddl)),
           failures = 0 => \A n \in CreatedIn(sess'[s]) : grants'[n] # None
    PROVE  IInv'
  <1>1. sess[s] \in DuckDBSession /\ sess[s] # None /\ sess[s].step = "open" /\ sess[s].undo \in Seq(Undo)
    BY SessionFields DEF IInv, InStep
  <1> DEFINE r == [sess[s] EXCEPT !.ddl = None, !.undo = @ \o undo]
  <1>2. sess' = [sess EXCEPT ![s] = r] /\ sess \in [Sessions -> DuckDBSession \cup {None}]
    BY <1>1 DEF Recorded, IInv, TypeOK, DuckDBSession
  <1>3. r \in DuckDBSession
    <2>1. sess[s].undo \o undo \in Seq(Undo)
      BY <1>1
    <2> QED
      BY <1>1, <2>1 DEF DuckDBSession
  <1>4. /\ r.step = "open" /\ r.view = sess[s].view /\ r.written = sess[s].written /\ r.ddl = None
        /\ r.undo = sess[s].undo \o undo
    BY <1>1 DEF DuckDBSession
  <1>5. r # None
    BY <1>3, SessionIsSome
  <1> HIDE DEF r
  <1>6. sess'[s] = r /\ \A t \in Sessions \ {s} : sess'[t] = sess[t]
    BY <1>2
  <1>7. TypeOK'
    <2>1. sess' \in [Sessions -> DuckDBSession \cup {None}]
      BY <1>2, <1>3
    <2>2. uncommitted_ddl' \in Nat /\ catalog' = catalog /\ failures' = failures
      BY DEF Recorded, IInv, TypeOK
    <2> QED
      BY <2>1, <2>2 DEF IInv, TypeOK, GrantBook
  <1>8. DdlIsCounted'
    <2>1. /\ Len(sess[s].undo \o undo) = Len(sess[s].undo) + Len(undo)
          /\ Len(sess[s].undo) \in Nat /\ Len(undo) \in Nat
      BY <1>1
    <2>2. Owes(sess', s) = Len(sess[s].undo) + Len(undo) /\ Owes(sess, s) = Len(sess[s].undo)
      BY <1>1, <1>4, <1>5, <1>6, <2>1 DEF Owes
    <2>3. uncommitted_ddl' = uncommitted_ddl + Owes(sess', s) - Owes(sess, s)
      BY <2>1, <2>2 DEF Recorded, IInv, TypeOK
    <2> QED
      BY <1>6, <1>7, <2>3, StaysCounted DEF IInv, Owes
  <1>9. FailuresCounted' /\ WritersDiffer'
    <2>1. \A t \in Sessions : /\ sess'[t] # None <=> sess[t] # None
                              /\ sess[t] # None => /\ sess'[t].written = sess[t].written
                                                   /\ sess'[t].step = sess[t].step
      BY <1>1, <1>4, <1>5, <1>6
    <2>2. failures' = failures
      BY DEF Recorded
    <2> QED
      BY <2>1, <2>2 DEF IInv, FailuresCounted, WritersDiffer, InStep
  <1>10. ShaperHoldsTheTable'
    <2> SUFFICES ASSUME NEW n \in Names, shaping'[n] # None
                 PROVE  /\ sess'[shaping'[n]] # None
                        /\ \/ sess'[shaping'[n]].step \in {"committed", "failed"}
                           \/ /\ sess'[shaping'[n]].step \in {"open", "left"}
                              /\ n \in sess'[shaping'[n]].written
      BY DEF ShaperHoldsTheTable
    <2>1. CASE shaping'[n] = s /\ n \in Changes(sess[s].ddl)
      <3>1. n \in sess[s].written
        BY <1>1, <2>1 DEF IInv, Sound, Pending
      <3> QED
        BY <1>4, <1>5, <1>6, <2>1, <3>1
    <2>2. CASE shaping'[n] = shaping[n]
      <3>1. shaping[n] \in Sessions /\ shaping[n] # None
        BY <2>2 DEF IInv, TypeOK
      <3>2. /\ sess[shaping[n]] # None
            /\ \/ sess[shaping[n]].step \in {"committed", "failed"}
               \/ sess[shaping[n]].step \in {"open", "left"} /\ n \in sess[shaping[n]].written
        BY <3>1 DEF IInv, ShaperHoldsTheTable
      <3>3. CASE shaping[n] = s
        BY <1>1, <1>4, <1>5, <1>6, <2>2, <3>2, <3>3
      <3>4. CASE shaping[n] # s
        BY <1>6, <2>2, <3>1, <3>2, <3>4
      <3> QED
        BY <3>3, <3>4
    <2> QED
      BY <2>1, <2>2
  <1>11. Sound(s) /\ Owing(s) /\ Pending(s)
    BY <1>1 DEF IInv, Sound
  <1>12. Sound(s)'
    <2>1. Pending(s)'
      BY <1>4, <1>6 DEF Pending, Changes
    <2>2. TouchedBy(sess[s].undo \o undo) = TouchedBy(sess[s].undo) \cup TouchedBy(undo)
      BY <1>1, TouchedConcat
    <2>3. Owing(s)'
      BY <1>1, <1>4, <1>6, <1>11, <2>2 DEF Owing, Pending
    <2>4. ASSUME failures' = 0 PROVE Granting(s)'
      <3>1. \A n \in Created(s)' : grants'[n] # None
        BY <2>4 DEF Recorded, Created, CreatedIn
      <3> QED
        BY <1>4, <1>6, <3>1 DEF Granting
    <2> QED
      BY <2>1, <2>3, <2>4 DEF Sound
  <1>13. ASSUME NEW t \in Sessions, t # s, sess'[t] # None PROVE Sound(t)'
    <2>1. sess'[t] = sess[t] /\ failures' = failures /\ sess[t].written \subseteq Names
      BY <1>6, <1>13, SessionFields DEF Recorded, IInv
    <2>2. sess[s].written \cap sess[t].written = {}
      BY <1>1, <1>13, <2>1 DEF IInv, WritersDiffer
    <2>3. \A n \in sess[t].written : grants'[n] = grants[n]
      BY <1>11, <2>1, <2>2 DEF Pending
    <2> QED
      BY <1>13, <2>1, <2>3, OthersStaySound
  <1> QED
    BY <1>7, <1>8, <1>9, <1>10, <1>12, <1>13 DEF IInv

\* One of the undos takes the creation of n back.
Uncreates(undo, n) == \E i \in 1..Len(undo) : undo[i].verb = "create" /\ undo[i].name = n

\* What is created after a statement is recorded was created before, or its undo says so.
LEMMA CreatedOnRecord ==
    ASSUME IInv, NEW s \in Sessions, InStep(s, "open"), NEW undo \in Seq(Undo), Recorded(s, undo)
    PROVE  /\ sess'[s].undo = sess[s].undo \o undo
           /\ \A n \in CreatedIn(sess'[s]) :
                 /\ n \in sess[s].view /\ n \in Names
                 /\ n \in Created(s) \/ Uncreates(undo, n)
  <1>1. sess[s] \in DuckDBSession /\ sess[s].undo \in Seq(Undo) /\ sess[s].view \subseteq Names
    BY SessionFields DEF IInv, InStep
  <1>2. sess' = [sess EXCEPT ![s] = [sess[s] EXCEPT !.ddl = None, !.undo = @ \o undo]]
    BY <1>1 DEF Recorded, IInv, TypeOK, DuckDBSession
  <1>3. sess'[s].undo = sess[s].undo \o undo /\ sess'[s].view = sess[s].view
    BY <1>1, <1>2 DEF IInv, TypeOK, DuckDBSession
  <1>4. ASSUME NEW n \in CreatedIn(sess'[s])
        PROVE  /\ n \in sess[s].view
               /\ n \in Created(s) \/ Uncreates(undo, n)
    <2> DEFINE u == sess[s].undo
               v == u \o undo
    <2>1. /\ v \in Seq(Undo) /\ DOMAIN v = 1..Len(v) /\ DOMAIN u = 1..Len(u) /\ Len(u) \in Nat
          /\ \A i \in 1..Len(v) :
                \/ i \in 1..Len(u) /\ v[i] = u[i]
                \/ i - Len(u) \in 1..Len(undo) /\ v[i] = undo[i - Len(u)]
      BY <1>1
    <2>2. n \in sess[s].view /\ \E i \in DOMAIN v : v[i].verb = "create" /\ v[i].name = n
      BY <1>3, <1>4 DEF CreatedIn
    <2>3. PICK i \in 1..Len(v) : v[i].verb = "create" /\ v[i].name = n
      BY <2>1, <2>2
    <2>4. CASE i \in 1..Len(u) /\ v[i] = u[i]
      <3> HIDE DEF v
      <3>1. n \in Created(s)
        BY <2>1, <2>2, <2>3, <2>4 DEF Created
      <3> QED
        BY <2>2, <3>1
    <2>5. CASE i - Len(u) \in 1..Len(undo) /\ v[i] = undo[i - Len(u)]
      <3> HIDE DEF v, u
      <3> QED
        BY <2>2, <2>3, <2>5 DEF Uncreates
    <2> HIDE DEF v, u
    <2> QED
      BY <2>1, <2>4, <2>5
  <1> QED
    BY <1>1, <1>3, <1>4

\* The one undo of a statement, alone.
LEMMA OneUndo ==
    ASSUME NEW u \in Undo
    PROVE  <<u>> \in Seq(Undo) /\ TouchedBy(<<u>>) = Touches(u) /\ Len(<<u>>) = 1 /\ <<u>>[1] = u
  BY DEF TouchedBy

\* Nothing to undo touches no table.
LEMMA NoUndo == <<>> \in Seq(Undo) /\ TouchedBy(<<>>) = {} /\ Len(<<>>) = 0
  BY DEF TouchedBy

\* Nothing to undo undoes no CREATE.
LEMMA NothingUncreated == \A n : ~Uncreates(<<>>, n)
  BY DEF Uncreates

\* What an open session holds while a statement waits to be recorded.
LEMMA RecordingFacts ==
    ASSUME IInv, NEW s \in Sessions, NEW verb, Recording(s, verb)
    PROVE  LET d == sess[s].ddl
           IN  /\ InStep(s, "open") /\ d # None /\ d.verb = verb /\ d.name \in Names
               /\ verb = "rename" => d.to \in Names
               /\ verb = "drop" => d.name \notin sess[s].view
               /\ verb = "rename" => d.name \notin sess[s].view /\ d.to \in sess[s].view
               /\ d.name \in Changes(d)
               /\ verb = "rename" => d.to \in Changes(d)
               /\ failures = 0 => /\ \A n \in Created(s) : grants[n] # None \/ n \in Makes(d)
                                  /\ sess[s].undo # <<>> /\ verb = "rename" => grants[d.name] # None
  <1>1. sess[s] # None /\ sess[s].step = "open" /\ sess[s].ddl # None /\ sess[s].ddl.verb = verb
    BY DEF Recording, InStep
  <1>2. Sound(s)
    BY <1>1 DEF IInv
  <1>3. sess[s].ddl.name \in Names /\ (verb = "rename" => sess[s].ddl.to \in Names)
    BY <1>1, SessionFields DEF IInv
  <1> QED
    BY <1>1, <1>2, <1>3 DEF Sound, Pending, Granting, Changes, InStep

\* RecordCreate grants the new table and owes the grant the name had.
LEMMA RecordCreateSound ==
    ASSUME IInv, NEW s \in Sessions, RecordCreate(s)
    PROVE  IInv'
  <1> DEFINE d == sess[s].ddl
             n == d.name
             u == [verb |-> "create", name |-> n, old |-> grants[n]]
  <1>1. Recording(s, "create") /\ Recorded(s, <<u>>)
    BY DEF RecordCreate
  <1>2. grants' = [grants EXCEPT ![n] = "full"] /\ shaping' = [shaping EXCEPT ![n] = s]
    BY DEF RecordCreate
  <1>3. /\ InStep(s, "open") /\ d # None /\ d.verb = "create" /\ n \in Names /\ n \in Changes(d)
        /\ failures = 0 => \A m \in Created(s) : grants[m] # None \/ m \in Makes(d)
    BY <1>1, RecordingFacts
  <1>4. u \in Undo /\ Touches(u) = {n} /\ u.name = n
    BY <1>3 DEF Undo, Touches, IInv, TypeOK
  <1>5. grants' \in GrantBook /\ shaping' \in [Names -> Sessions \cup {None}]
    BY <1>2 DEF IInv, TypeOK, GrantBook, Grant
  <1>6. ASSUME failures = 0, NEW m \in CreatedIn(sess'[s]) PROVE grants'[m] # None
    <2>4. \A k : Uncreates(<<u>>, k) => k = n
      BY <1>4, OneUndo DEF Uncreates
    <2>1. m \in Names /\ (m \in Created(s) \/ Uncreates(<<u>>, m))
      <3> HIDE DEF u
      <3> QED
        BY <1>1, <1>3, <1>4, <1>6, OneUndo, CreatedOnRecord
    <2>2. Makes(d) = {n}
      BY <1>3 DEF Makes
    <2>3. "full" # None
      BY NoneIsNew DEF Grant
    <2> QED
      BY <1>2, <1>3, <1>6, <2>1, <2>2, <2>3, <2>4 DEF IInv, TypeOK
  <1>7. \A m \in Names \ Changes(d) : grants'[m] = grants[m]
    BY <1>2, <1>3 DEF IInv, TypeOK
  <1>8. \A m \in Names : shaping'[m] = shaping[m] \/ (shaping'[m] = s /\ m \in Changes(d))
    <2>1. shaping \in [Names -> Sessions \cup {None}]
      BY DEF IInv, TypeOK
    <2> HIDE DEF d, n
    <2> QED
      BY <1>2, <1>3, <2>1
  <1>9. <<u>> \in Seq(Undo) /\ TouchedBy(<<u>>) \subseteq Changes(d)
    BY <1>3, <1>4, OneUndo
  <1> HIDE DEF u
  <1> QED
    BY <1>1, <1>3, <1>5, <1>6, <1>7, <1>8, <1>9, RecordedSound

\* RecordDrop takes the grant away and owes it.
LEMMA RecordDropSound ==
    ASSUME IInv, NEW s \in Sessions, RecordDrop(s)
    PROVE  IInv'
  <1> DEFINE d == sess[s].ddl
             n == d.name
             u == [verb |-> "drop", name |-> n, old |-> grants[n]]
             undo == IF grants[n] = None THEN <<>> ELSE <<u>>
  <1>1. Recording(s, "drop") /\ Recorded(s, undo)
    BY DEF RecordDrop
  <1>2. grants' = [grants EXCEPT ![n] = None] /\ shaping' = shaping
    BY DEF RecordDrop
  <1>3. /\ InStep(s, "open") /\ d # None /\ d.verb = "drop" /\ n \in Names /\ n \in Changes(d)
        /\ n \notin sess[s].view
        /\ failures = 0 => \A m \in Created(s) : grants[m] # None \/ m \in Makes(d)
    BY <1>1, RecordingFacts
  <1>4. u \in Undo /\ Touches(u) = {n} /\ u.verb = "drop"
    BY <1>3 DEF Undo, Touches, IInv, TypeOK
  <1>5. grants' \in GrantBook /\ shaping' \in [Names -> Sessions \cup {None}]
    BY <1>2 DEF IInv, TypeOK, GrantBook, Grant
  <1>6. /\ undo \in Seq(Undo) /\ TouchedBy(undo) \subseteq Changes(d)
        /\ \A i \in 1..Len(undo) : undo[i].verb = "drop"
    <2> HIDE DEF u
    <2> QED
      BY <1>3, <1>4, OneUndo, NoUndo
  <1> HIDE DEF undo
  <1>7. ASSUME failures = 0, NEW m \in CreatedIn(sess'[s]) PROVE grants'[m] # None
    <2>1. m \in Names /\ m \in Created(s) /\ m # n
      <3>1. ~Uncreates(undo, m)
        BY <1>6 DEF Uncreates
      <3> QED
        BY <1>1, <1>3, <1>6, <3>1, CreatedOnRecord
    <2>2. Makes(d) = {}
      BY <1>3 DEF Makes
    <2> QED
      BY <1>2, <1>3, <1>7, <2>1, <2>2 DEF IInv, TypeOK
  <1>8. \A m \in Names \ Changes(d) : grants'[m] = grants[m]
    BY <1>2, <1>3 DEF IInv, TypeOK
  <1> QED
    BY <1>1, <1>2, <1>3, <1>5, <1>6, <1>7, <1>8, RecordedSound

\* RecordAlter owes nothing; the session becomes the one that shapes the table.
LEMMA RecordAlterSound ==
    ASSUME IInv, NEW s \in Sessions, RecordAlter(s)
    PROVE  IInv'
  <1> DEFINE d == sess[s].ddl
  <1>1. Recording(s, "alter") /\ Recorded(s, <<>>) /\ grants' = grants
    BY DEF RecordAlter
  <1>2. shaping' = [shaping EXCEPT ![d.name] = s]
    BY DEF RecordAlter
  <1>3. /\ InStep(s, "open") /\ d # None /\ d.verb = "alter" /\ d.name \in Names
        /\ d.name \in Changes(d)
        /\ failures = 0 => \A m \in Created(s) : grants[m] # None \/ m \in Makes(d)
    BY <1>1, RecordingFacts
  <1>4. ASSUME failures = 0, NEW m \in CreatedIn(sess'[s]) PROVE grants'[m] # None
    <2>1. m \in Created(s)
      BY <1>1, <1>3, NoUndo, NothingUncreated, CreatedOnRecord
    <2> QED
      BY <1>1, <1>3, <1>4, <2>1 DEF Makes
  <1>5. /\ shaping' \in [Names -> Sessions \cup {None}]
        /\ \A m \in Names : shaping'[m] = shaping[m] \/ (shaping'[m] = s /\ m \in Changes(d))
    <2>1. shaping \in [Names -> Sessions \cup {None}]
      BY DEF IInv, TypeOK
    <2> HIDE DEF d
    <2> QED
      BY <1>2, <1>3, <2>1
  <1>6. grants' \in GrantBook
    BY <1>1 DEF IInv, TypeOK, GrantBook
  <1> QED
    BY <1>1, <1>3, <1>4, <1>5, <1>6, NoUndo, RecordedSound

\* RecordRename moves the grant and owes the move.
LEMMA RecordRenameSound ==
    ASSUME IInv, NEW s \in Sessions, RecordRename(s)
    PROVE  IInv'
  <1> DEFINE d == sess[s].ddl
             n == d.name
             m == d.to
             u == [verb |-> "rename", name |-> n, to |-> m]
  <1>1. Recording(s, "rename")
    BY DEF RecordRename
  <1>2. /\ InStep(s, "open") /\ d # None /\ d.verb = "rename" /\ n \in Names /\ m \in Names
        /\ n \in Changes(d) /\ m \in Changes(d) /\ n \notin sess[s].view /\ m \in sess[s].view
        /\ failures = 0 => /\ \A k \in Created(s) : grants[k] # None \/ k \in Makes(d)
                           /\ sess[s].undo # <<>> => grants[n] # None
    BY <1>1, RecordingFacts
  <1>3. Makes(d) = {m}
    BY <1>2 DEF Makes
  <1>4. CASE grants[n] = None
    <2>1. Recorded(s, <<>>) /\ grants' = grants /\ shaping' = [shaping EXCEPT ![n] = s]
      BY <1>4 DEF RecordRename
    <2>2. ASSUME failures = 0, NEW k \in CreatedIn(sess'[s]) PROVE FALSE
      <3>1. k \in Created(s)
        BY <1>2, <2>1, NoUndo, NothingUncreated, CreatedOnRecord
      <3>2. sess[s].undo = <<>>
        BY <1>2, <1>4, <2>2
      <3> QED
        BY <3>1, <3>2 DEF Created
    <2>3. /\ shaping' \in [Names -> Sessions \cup {None}]
          /\ \A k \in Names : shaping'[k] = shaping[k] \/ (shaping'[k] = s /\ k \in Changes(d))
      <3>1. shaping \in [Names -> Sessions \cup {None}]
        BY DEF IInv, TypeOK
      <3> HIDE DEF d, n, m
      <3> QED
        BY <1>2, <2>1, <3>1
    <2>4. grants' \in GrantBook
      BY <2>1, SMTT(30) DEF IInv, TypeOK, GrantBook
    <2> QED
      BY <1>2, <2>1, <2>2, <2>3, <2>4, NoUndo, RecordedSound
  <1>5. CASE grants[n] # None
    <2>1. /\ Recorded(s, <<u>>) /\ shaping' = [shaping EXCEPT ![n] = s, ![m] = s]
          /\ grants' = [grants EXCEPT ![n] = None, ![m] = grants[n]]
      BY <1>5 DEF RecordRename
    <2>2. u \in Undo /\ Touches(u) = {n, m} /\ u.verb = "rename"
      BY <1>2 DEF Undo, Touches
    <2> HIDE DEF u
    <2>3. <<u>> \in Seq(Undo) /\ TouchedBy(<<u>>) \subseteq Changes(d) /\ Len(<<u>>) = 1 /\ <<u>>[1] = u
      BY <1>2, <2>2, OneUndo
    <2>4. ASSUME failures = 0, NEW k \in CreatedIn(sess'[s]) PROVE grants'[k] # None
      <3>1. k \in Names /\ k \in Created(s) /\ k # n
        <4>1. ~Uncreates(<<u>>, k)
          BY <2>2, <2>3 DEF Uncreates
        <4> QED
          BY <1>2, <2>1, <2>3, <4>1, CreatedOnRecord
      <3> QED
        BY <1>2, <1>3, <1>5, <2>1, <2>4, <3>1 DEF IInv, TypeOK
    <2>5. /\ shaping' \in [Names -> Sessions \cup {None}]
          /\ \A k \in Names : shaping'[k] = shaping[k] \/ (shaping'[k] = s /\ k \in Changes(d))
      <3>1. shaping \in [Names -> Sessions \cup {None}]
        BY DEF IInv, TypeOK
      <3> HIDE DEF d, n, m
      <3> QED
        BY <1>2, <2>1, <3>1
    <2>6. grants' \in GrantBook /\ \A k \in Names \ Changes(d) : grants'[k] = grants[k]
      BY <1>2, <2>1 DEF IInv, TypeOK, GrantBook
    <2> QED
      BY <1>2, <2>1, <2>3, <2>4, <2>5, <2>6, RecordedSound
  <1> QED
    BY <1>4, <1>5

\* OthersStale changes only what a session knows to be stale.
LEMMA StaleFields ==
    ASSUME NEW all \in [Sessions -> DuckDBSession \cup {None}], NEW W \in SUBSET Names,
           NEW t \in Sessions
    PROVE  LET r == OthersStale(all, W)[t]
           IN  /\ r \in DuckDBSession \cup {None}
               /\ r = None <=> all[t] = None
               /\ all[t] # None =>
                     /\ r.step = all[t].step /\ r.view = all[t].view /\ r.written = all[t].written
                     /\ r.ddl = all[t].ddl /\ r.undo = all[t].undo
  <1> DEFINE r == OthersStale(all, W)[t]
  <1>1. r = IF all[t] # None /\ all[t].step = "open"
              THEN [all[t] EXCEPT !.stale = @ \cup W] ELSE all[t]
    BY DEF OthersStale
  <1> HIDE DEF r
  <1>2. CASE all[t] # None /\ all[t].step = "open"
    <2>1. all[t] \in DuckDBSession
      BY <1>2
    <2>2. r \in DuckDBSession
      BY <1>1, <1>2, <2>1 DEF DuckDBSession
    <2>3. r # None
      BY <2>2, SessionIsSome
    <2>4. /\ r.step = all[t].step /\ r.view = all[t].view /\ r.written = all[t].written
          /\ r.ddl = all[t].ddl /\ r.undo = all[t].undo
      BY <1>1, <1>2, <2>1 DEF DuckDBSession
    <2> QED
      BY <1>2, <2>2, <2>3, <2>4 DEF r
  <1>3. CASE ~(all[t] # None /\ all[t].step = "open")
    <2>1. r = all[t]
      BY <1>1, <1>3
    <2> QED
      BY <2>1 DEF r
  <1> QED
    BY <1>2, <1>3

\* A source commit frees the tables the session held; what it owes is still counted.
LEMMA CommitSourceSound ==
    ASSUME IInv, NEW s \in Sessions, CommitSource(s)
    PROVE  IInv'
  <1>1. sess[s] \in DuckDBSession /\ sess[s] # None /\ sess[s].step = "open" /\ sess[s].ddl = None
    BY SessionFields DEF IInv, CommitSource, Ready, InStep
  <1> DEFINE r == [sess[s] EXCEPT !.step = "committed", !.view = {}, !.written = {}, !.stale = {}]
             all == [sess EXCEPT ![s] = r]
             W == sess[s].written
  <1>2. Ended(s, "committed") = all /\ sess \in [Sessions -> DuckDBSession \cup {None}]
    BY <1>1 DEF Ended, IInv, TypeOK, DuckDBSession
  <1>3. /\ r \in DuckDBSession /\ r.step = "committed" /\ r.written = {} /\ r.ddl = None
        /\ r.undo = sess[s].undo
    BY <1>1 DEF DuckDBSession
  <1>4. r # None /\ W \subseteq Names /\ sess[s].view \subseteq Names
    BY <1>1, <1>3, SessionIsSome, SessionFields DEF IInv
  <1> HIDE DEF r
  <1>5. sess' = OthersStale(all, W) /\ all[s] = r /\ \A t \in Sessions \ {s} : all[t] = sess[t]
    BY <1>2 DEF CommitSource
  <1> HIDE DEF all, W
  <1>6. sess'[s] = r /\ sess' = [t \in Sessions |-> sess'[t]]
    BY <1>3, <1>5 DEF OthersStale
  <1>7. ASSUME NEW t \in Sessions, t # s
        PROVE  /\ sess'[t] \in DuckDBSession \cup {None}
               /\ sess'[t] = None <=> sess[t] = None
               /\ sess[t] # None =>
                     /\ sess'[t].step = sess[t].step /\ sess'[t].view = sess[t].view
                     /\ sess'[t].written = sess[t].written /\ sess'[t].ddl = sess[t].ddl
                     /\ sess'[t].undo = sess[t].undo
    <2>1. all \in [Sessions -> DuckDBSession \cup {None}]
      BY <1>2, <1>3 DEF all
    <2>2. W \in SUBSET Names
      BY <1>4
    <2> QED
      BY <1>5, <1>7, <2>1, <2>2, StaleFields
  <1>8. TypeOK'
    <2>1. sess' \in [Sessions -> DuckDBSession \cup {None}]
      BY <1>3, <1>6, <1>7
    <2>2. catalog' \subseteq Names
      BY <1>4 DEF CommitSource, IInv, TypeOK, W
    <2> QED
      BY <2>1, <2>2 DEF CommitSource, bookVars, IInv, TypeOK
  <1>9. DdlIsCounted'
    <2>1. Owes(sess', s) = Owes(sess, s) /\ Owes(sess, s) \in Nat
      BY <1>1, <1>3, <1>4, <1>6, OwesType DEF Owes, IInv
    <2>2. uncommitted_ddl' = uncommitted_ddl + Owes(sess', s) - Owes(sess, s)
      BY <2>1 DEF CommitSource, bookVars, IInv, TypeOK
    <2>3. \A t \in Sessions \ {s} : Owes(sess', t) = Owes(sess, t)
      BY <1>7 DEF Owes
    <2> QED
      BY <1>8, <2>2, <2>3, StaysCounted DEF IInv
  <1>10. FailuresCounted' /\ WritersDiffer'
    <2>1. \A t \in Sessions : InStep(t, "failed")' => InStep(t, "failed")
      BY <1>3, <1>6, <1>7 DEF InStep
    <2>2. FailuresCounted'
      BY <2>1 DEF CommitSource, bookVars, IInv, FailuresCounted
    <2>3. \A t \in Sessions : sess'[t] # None => sess[t] # None /\ sess'[t].written \subseteq sess[t].written
      BY <1>1, <1>3, <1>6, <1>7
    <2>4. WritersDiffer'
      BY <2>3 DEF IInv, WritersDiffer
    <2> QED
      BY <2>2, <2>4
  <1>11. ShaperHoldsTheTable'
    <2>1. \A t \in Sessions : sess[t] # None =>
             /\ sess'[t] # None
             /\ \/ sess'[t].step = "committed"
                \/ sess'[t].step = sess[t].step /\ sess'[t].written = sess[t].written
      BY <1>3, <1>4, <1>6, <1>7
    <2>2. shaping' = shaping /\ shaping \in [Names -> Sessions \cup {None}]
      BY DEF CommitSource, bookVars, IInv, TypeOK
    <2> QED
      BY <2>1, <2>2 DEF IInv, ShaperHoldsTheTable
  <1>12. Sound(s)'
    BY <1>3, <1>6 DEF Sound, Pending, Owing, Granting, Changes
  <1>13. ASSUME NEW t \in Sessions, t # s, sess'[t] # None PROVE Sound(t)'
    BY <1>7, <1>13, OthersStaySound DEF CommitSource, bookVars
  <1> QED
    BY <1>8, <1>9, <1>10, <1>11, <1>12, <1>13 DEF IInv

\* A failed source commit frees the tables too, and from then on grants may be undone late.
LEMMA CommitSourceFailsSound ==
    ASSUME IInv, NEW s \in Sessions, CommitSourceFails(s)
    PROVE  IInv'
  <1>1. sess[s] \in DuckDBSession /\ sess[s] # None /\ sess[s].step = "open" /\ sess[s].ddl = None
    BY SessionFields DEF IInv, CommitSourceFails, Ready, InStep
  <1> DEFINE r == [sess[s] EXCEPT !.step = "failed", !.view = {}, !.written = {}, !.stale = {}]
  <1>2. sess' = [sess EXCEPT ![s] = r] /\ sess \in [Sessions -> DuckDBSession \cup {None}]
    BY <1>1 DEF CommitSourceFails, Ended, IInv, TypeOK, DuckDBSession
  <1>3. /\ r \in DuckDBSession /\ r.step = "failed" /\ r.written = {} /\ r.ddl = None
        /\ r.undo = sess[s].undo
    BY <1>1 DEF DuckDBSession
  <1>4. r # None
    BY <1>3, SessionIsSome
  <1> HIDE DEF r
  <1>5. sess'[s] = r /\ \A t \in Sessions \ {s} : sess'[t] = sess[t]
    BY <1>2
  <1>6. failures' \in 0..MaxFailures /\ failures' # 0
    BY SessionBounds DEF CommitSourceFails, IInv, TypeOK
  <1>7. TypeOK'
    <2>1. sess' \in [Sessions -> DuckDBSession \cup {None}]
      BY <1>2, <1>3
    <2> QED
      BY <1>6, <2>1 DEF CommitSourceFails, bookVars, IInv, TypeOK
  <1>8. DdlIsCounted'
    <2>1. Owes(sess', s) = Owes(sess, s) /\ Owes(sess, s) \in Nat
      BY <1>1, <1>3, <1>4, <1>5, OwesType DEF Owes, IInv
    <2>2. uncommitted_ddl' = uncommitted_ddl + Owes(sess', s) - Owes(sess, s)
      BY <2>1 DEF CommitSourceFails, bookVars, IInv, TypeOK
    <2> QED
      BY <1>5, <1>7, <2>2, StaysCounted DEF IInv, Owes
  <1>9. FailuresCounted' /\ WritersDiffer'
    <2>1. \A t \in Sessions : sess'[t] # None => sess[t] # None /\ sess'[t].written \subseteq sess[t].written
      BY <1>1, <1>3, <1>5
    <2> QED
      BY <1>6, <2>1 DEF IInv, FailuresCounted, WritersDiffer
  <1>10. ShaperHoldsTheTable'
    <2>1. \A t \in Sessions : sess[t] # None =>
             sess'[t] # None /\ (sess'[t] = sess[t] \/ sess'[t].step = "failed")
      BY <1>3, <1>4, <1>5
    <2>2. shaping' = shaping /\ shaping \in [Names -> Sessions \cup {None}]
      BY DEF CommitSourceFails, bookVars, IInv, TypeOK
    <2> QED
      BY <2>1, <2>2 DEF IInv, ShaperHoldsTheTable
  <1>11. Sound(s)'
    BY <1>3, <1>5 DEF Sound, Pending, Owing, Granting, Changes
  <1>12. ASSUME NEW t \in Sessions, t # s, sess'[t] # None PROVE Sound(t)'
    BY <1>5, <1>6, <1>12, OthersStaySound DEF CommitSourceFails, bookVars
  <1> QED
    BY <1>7, <1>8, <1>9, <1>10, <1>11, <1>12 DEF IInv

\* A session leaves: nothing is described through it, and its undos are not owed any more.
LEMMA LeavesSound ==
    ASSUME IInv, NEW s \in Sessions, sess[s] # None, sess' = [sess EXCEPT ![s] = None],
           uncommitted_ddl' = uncommitted_ddl - Len(sess[s].undo),
           grants' \in GrantBook,
           failures = 0 => \A t \in Sessions \ {s} : sess[t] # None =>
               \A n \in sess[t].written : grants'[n] = grants[n],
           shaping' \in [Names -> Sessions \cup {None}],
           \A n \in Names : shaping'[n] # None => shaping'[n] = shaping[n] /\ shaping[n] # s,
           catalog' = catalog, failures' = failures
    PROVE  IInv'
  <1>1. sess'[s] = None /\ \A t \in Sessions \ {s} : sess'[t] = sess[t]
    BY DEF IInv, TypeOK
  <1>2. TypeOK'
    <2>1. uncommitted_ddl' \in Nat
      BY OwesAtMost, SessionFields DEF IInv, TypeOK
    <2> QED
      BY <2>1 DEF IInv, TypeOK, GrantBook
  <1>3. DdlIsCounted'
    <2>1. Owes(sess', s) = 0 /\ Owes(sess, s) = Len(sess[s].undo) /\ Owes(sess, s) \in Nat
      BY <1>1, OwesType DEF Owes, IInv
    <2>2. uncommitted_ddl' = uncommitted_ddl + Owes(sess', s) - Owes(sess, s)
      BY <2>1 DEF IInv, TypeOK
    <2> QED
      <3>1. \A t \in Sessions \ {s} : Owes(sess', t) = Owes(sess, t)
        BY <1>1 DEF Owes
      <3> QED
        BY <1>2, <2>2, <3>1, StaysCounted DEF IInv
  <1>4. FailuresCounted' /\ WritersDiffer' /\ ShaperHoldsTheTable'
    BY <1>1 DEF IInv, FailuresCounted, WritersDiffer, ShaperHoldsTheTable, InStep, TypeOK
  <1>5. ASSUME NEW t \in Sessions, sess'[t] # None PROVE Sound(t)'
    BY <1>1, <1>5, OthersStaySound
  <1> QED
    BY <1>2, <1>3, <1>4, <1>5 DEF IInv

\* What ForgetShaping leaves.
LEMMA ShapingWithoutType ==
    ASSUME TypeOK, NEW s \in Sessions
    PROVE  /\ ShapingWithout(s) \in [Names -> Sessions \cup {None}]
           /\ \A n \in Names : ShapingWithout(s)[n] # None =>
                 ShapingWithout(s)[n] = shaping[n] /\ shaping[n] # s
  BY DEF TypeOK, ShapingWithout

\* After either outcome the session forgets or undoes what it owes, and leaves.
LEMMA FinishSound ==
    ASSUME IInv, NEW s \in Sessions, Finish(s)
    PROVE  IInv'
  <1>1. TypeOK /\ grants \in GrantBook
    BY DEF IInv, TypeOK, GrantBook
  <1>2. CASE FinishCommit(s)
    BY <1>1, <1>2, LeavesSound, ShapingWithoutType, ZenonT(30) DEF FinishCommit, ForgetGrantUndo, InStep
  <1>3. CASE FinishFailedCommit(s)
    <2>1. sess[s] # None /\ sess[s].step = "failed" /\ sess[s].undo \in Seq(Undo)
      BY <1>1, <1>3, SessionFields DEF FinishFailedCommit, InStep
    <2>2. failures # 0
      BY <1>3 DEF FinishFailedCommit, IInv, FailuresCounted
    <2>3. grants' \in GrantBook
      BY <1>1, <1>3, <2>1, UndoGrantsType DEF FinishFailedCommit
    <2> QED
      BY <1>1, <1>3, <2>1, <2>2, <2>3, LeavesSound, ShapingWithoutType, ZenonT(30)
      DEF FinishFailedCommit, ForgetGrantUndo
  <1>4. CASE FinishRollback(s)
    <2>1. sess[s] # None /\ sess[s].step = "undone" /\ Len(sess[s].undo) = 0
      BY <1>4 DEF FinishRollback, InStep, IInv, Sound, Owing
    <2>2. uncommitted_ddl' = uncommitted_ddl - Len(sess[s].undo)
      BY <1>4, <2>1 DEF FinishRollback, bookVars, IInv, TypeOK
    <2>3. \A n \in Names : shaping'[n] # None => shaping'[n] = shaping[n] /\ shaping[n] # s
      BY <1>4, <2>1 DEF FinishRollback, bookVars, IInv, ShaperHoldsTheTable
    <2>4. /\ grants' = grants /\ catalog' = catalog /\ failures' = failures
          /\ shaping' \in [Names -> Sessions \cup {None}]
      BY <1>4 DEF FinishRollback, bookVars, IInv, TypeOK
    <2> QED
      BY <1>1, <1>4, <2>1, <2>2, <2>3, <2>4, LeavesSound DEF FinishRollback
  <1> QED
    BY <1>2, <1>3, <1>4 DEF Finish

\* Rollback: the grants it takes back are of tables nobody else holds.
LEMMA RollbackSound ==
    ASSUME IInv, NEW s \in Sessions, Rollback(s)
    PROVE  IInv'
  <1>1. /\ sess[s] \in DuckDBSession /\ sess[s] # None /\ sess[s].step = "open" /\ sess[s].ddl = None
        /\ sess[s].undo \in Seq(Undo) /\ grants \in GrantBook /\ TypeOK
    BY SessionFields DEF IInv, Rollback, Ready, InStep, TypeOK, GrantBook
  <1> DEFINE r == [sess[s] EXCEPT !.step = "undone", !.view = {}, !.stale = {}, !.undo = <<>>]
  <1>2. sess' = [sess EXCEPT ![s] = r] /\ sess \in [Sessions -> DuckDBSession \cup {None}]
    BY <1>1 DEF Rollback, IInv, TypeOK, DuckDBSession
  <1>3. /\ r \in DuckDBSession /\ r.step = "undone" /\ r.written = sess[s].written /\ r.ddl = None
        /\ r.undo = <<>>
    <2>1. <<>> \in Seq(Undo)
      OBVIOUS
    <2> QED
      BY <1>1, <2>1 DEF DuckDBSession
  <1>4. r # None
    BY <1>3, SessionIsSome
  <1> HIDE DEF r
  <1>5. sess'[s] = r /\ \A t \in Sessions \ {s} : sess'[t] = sess[t]
    BY <1>2
  <1>6. /\ grants' \in GrantBook
        /\ \A n \in Names \ sess[s].written : grants'[n] = grants[n]
    <2>1. TouchedBy(sess[s].undo) \subseteq sess[s].written
      BY <1>1 DEF IInv, Sound, Owing
    <2> QED
      BY <1>1, <2>1, UndoGrantsType DEF Rollback
  <1>7. TypeOK'
    <2>1. sess' \in [Sessions -> DuckDBSession \cup {None}]
      BY <1>2, <1>3
    <2>2. uncommitted_ddl' \in Nat
      BY <1>1, OwesAtMost, SessionFields DEF Rollback, ForgetGrantUndo, IInv, TypeOK
    <2> QED
      BY <1>1, <1>6, <2>1, <2>2, ShapingWithoutType DEF Rollback, TypeOK, GrantBook
  <1>8. DdlIsCounted'
    <2>1. Owes(sess', s) = 0 /\ Owes(sess, s) = Len(sess[s].undo) /\ Owes(sess, s) \in Nat
      BY <1>1, <1>3, <1>4, <1>5, OwesType DEF Owes
    <2>2. uncommitted_ddl' = uncommitted_ddl + Owes(sess', s) - Owes(sess, s)
      BY <2>1 DEF Rollback, ForgetGrantUndo, IInv, TypeOK
    <2> QED
      BY <1>5, <1>7, <2>2, StaysCounted DEF IInv, Owes
  <1>9. FailuresCounted' /\ WritersDiffer'
    <2>1. \A t \in Sessions : InStep(t, "failed")' => InStep(t, "failed")
      BY <1>3, <1>5 DEF InStep
    <2>2. \A t \in Sessions : sess'[t] # None => sess[t] # None /\ sess'[t].written = sess[t].written
      BY <1>1, <1>3, <1>5
    <2>3. failures' = failures
      BY DEF Rollback
    <2> QED
      BY <2>1, <2>2, <2>3 DEF IInv, FailuresCounted, WritersDiffer
  <1>10. ShaperHoldsTheTable'
    BY <1>1, <1>5, ShapingWithoutType DEF Rollback, IInv, ShaperHoldsTheTable, TypeOK
  <1>11. Sound(s)'
    BY <1>3, <1>5 DEF Sound, Pending, Owing, Granting, Changes
  <1>12. ASSUME NEW t \in Sessions, t # s, sess'[t] # None PROVE Sound(t)'
    <2>1. sess'[t] = sess[t] /\ failures' = failures /\ sess[t].written \subseteq Names
      BY <1>1, <1>5, <1>12, SessionFields DEF Rollback
    <2>2. sess[s].written \cap sess[t].written = {}
      BY <1>1, <1>12, <2>1 DEF IInv, WritersDiffer
    <2>3. \A n \in sess[t].written : grants'[n] = grants[n]
      BY <1>6, <2>1, <2>2
    <2> QED
      BY <1>12, <2>1, <2>3, OthersStaySound
  <1> QED
    BY <1>7, <1>8, <1>9, <1>10, <1>11, <1>12 DEF IInv

\* ~DuckDBSession: what the session owed is not counted any more, and what it holds stays held as
\* long as a table is described through its connection.
LEMMA DestroySound ==
    ASSUME IInv, NEW s \in Sessions, DestroySession(s)
    PROVE  IInv'
  <1>1. /\ sess[s] \in DuckDBSession /\ sess[s] # None /\ sess[s].step = "open" /\ sess[s].ddl = None
        /\ sess[s].undo \in Seq(Undo) /\ grants \in GrantBook /\ TypeOK
    BY SessionFields DEF IInv, DestroySession, Ready, InStep, TypeOK, GrantBook
  <1>2. /\ uncommitted_ddl' = uncommitted_ddl - Len(sess[s].undo)
        /\ grants' = grants /\ shaping' = shaping /\ catalog' = catalog /\ failures' = failures
        /\ shaping \in [Names -> Sessions \cup {None}]
    BY DEF DestroySession, ForgetGrantUndo, IInv, TypeOK
  <1>3. CASE ~\E n \in Names : shaping[n] = s
    <2>1. sess' = [sess EXCEPT ![s] = None]
      BY <1>3 DEF DestroySession
    <2> QED
      BY <1>1, <1>2, <1>3, <2>1, LeavesSound
  <1>4. CASE \E n \in Names : shaping[n] = s
    <2> DEFINE r == [sess[s] EXCEPT !.step = "left", !.undo = <<>>]
    <2>1. sess' = [sess EXCEPT ![s] = r] /\ sess \in [Sessions -> DuckDBSession \cup {None}]
      BY <1>1, <1>4 DEF DestroySession, IInv, TypeOK, DuckDBSession
    <2>2. /\ r \in DuckDBSession /\ r.step = "left" /\ r.written = sess[s].written /\ r.ddl = None
          /\ r.undo = <<>>
      <3>1. <<>> \in Seq(Undo)
        OBVIOUS
      <3> QED
        BY <1>1, <3>1 DEF DuckDBSession
    <2>3. r # None
      BY <2>2, SessionIsSome
    <2> HIDE DEF r
    <2>4. sess'[s] = r /\ \A t \in Sessions \ {s} : sess'[t] = sess[t]
      BY <2>1
    <2>5. TypeOK'
      <3>1. sess' \in [Sessions -> DuckDBSession \cup {None}]
        BY <2>1, <2>2
      <3>2. uncommitted_ddl' \in Nat
        BY <1>1, <1>2, OwesAtMost, SessionFields DEF IInv, TypeOK
      <3> QED
        BY <1>1, <1>2, <3>1, <3>2 DEF TypeOK
    <2>6. DdlIsCounted'
      <3>1. Owes(sess', s) = 0 /\ Owes(sess, s) = Len(sess[s].undo) /\ Owes(sess, s) \in Nat
        BY <1>1, <2>2, <2>3, <2>4, OwesType DEF Owes
      <3>2. uncommitted_ddl' = uncommitted_ddl + Owes(sess', s) - Owes(sess, s)
        BY <1>2, <3>1 DEF IInv, TypeOK
      <3> QED
        BY <2>4, <2>5, <3>2, StaysCounted DEF IInv, Owes
    <2>7. FailuresCounted' /\ WritersDiffer' /\ ShaperHoldsTheTable'
      <3>1. \A t \in Sessions : InStep(t, "failed")' => InStep(t, "failed")
        BY <2>2, <2>4 DEF InStep
      <3>2. \A t \in Sessions : /\ sess'[t] # None <=> sess[t] # None
                                /\ sess[t] # None => sess'[t].written = sess[t].written
                                /\ sess[t] # None => \/ sess'[t] = sess[t]
                                                     \/ sess[t].step = "open" /\ sess'[t].step = "left"
        <4>1. ASSUME NEW t \in Sessions, t # s PROVE sess'[t] = sess[t]
          BY <2>4, <4>1
        <4> QED
          BY <1>1, <2>2, <2>3, <2>4, <4>1
      <3> QED
        BY <1>2, <3>1, <3>2 DEF IInv, FailuresCounted, WritersDiffer, ShaperHoldsTheTable
    <2>8. Sound(s)'
      BY <2>2, <2>4 DEF Sound, Pending, Owing, Granting, Changes
    <2>9. ASSUME NEW t \in Sessions, t # s, sess'[t] # None PROVE Sound(t)'
      BY <1>2, <2>4, <2>9, OthersStaySound
    <2> QED
      BY <2>5, <2>6, <2>7, <2>8, <2>9 DEF IInv
  <1> QED
    BY <1>3, <1>4

\* The owner changes a grant only when no undo is owed, so when nothing was created.
LEMMA SetPolicySound ==
    ASSUME IInv, NEW n \in Names, NEW grant \in {"policied", None}, SetPolicy(n, grant)
    PROVE  IInv'
  <1>1. TypeOK'
    BY DEF SetPolicy, IInv, TypeOK, Grant
  <1>2. DdlIsCounted'
    BY DEF SetPolicy, IInv, DdlIsCounted
  <1>3. FailuresCounted' /\ WritersDiffer' /\ ShaperHoldsTheTable'
    BY DEF SetPolicy, IInv, FailuresCounted, WritersDiffer, ShaperHoldsTheTable, InStep
  <1>4. ASSUME NEW t \in Sessions, sess'[t] # None PROVE Sound(t)'
    <2>1. sess' = sess /\ failures' = failures /\ uncommitted_ddl = 0
      BY DEF SetPolicy
    <2>2. Sound(t) /\ sess[t] # None
      BY <1>4, <2>1 DEF IInv
    <2>3. sess[t].undo = <<>>
      BY <2>1, <2>2, OwesAtMost DEF IInv
    <2>4. Created(t)' = {}
      BY <2>1, <2>3 DEF Created
    <2> QED
      BY <2>1, <2>2, <2>3, <2>4 DEF Sound, Pending, Owing, Granting
  <1> QED
    BY <1>1, <1>2, <1>3, <1>4 DEF IInv

\* DDL of the owner makes other sessions' views stale and changes no grant.
LEMMA OwnerDdlSound ==
    ASSUME IInv, NEW n \in Names, OwnerDdl(n)
    PROVE  IInv'
  <1>1. sess \in [Sessions -> DuckDBSession \cup {None}] /\ {n} \in SUBSET Names
    BY DEF IInv, TypeOK
  <1>2. sess' = OthersStale(sess, {n}) /\ sess' = [t \in Sessions |-> sess'[t]]
    BY DEF OwnerDdl, OthersStale
  <1>3. ASSUME NEW t \in Sessions
        PROVE  /\ sess'[t] \in DuckDBSession \cup {None}
               /\ sess'[t] = None <=> sess[t] = None
               /\ sess[t] # None =>
                     /\ sess'[t].step = sess[t].step /\ sess'[t].view = sess[t].view
                     /\ sess'[t].written = sess[t].written /\ sess'[t].ddl = sess[t].ddl
                     /\ sess'[t].undo = sess[t].undo
    BY <1>1, <1>2, StaleFields
  <1>4. TypeOK'
    <2>1. sess' \in [Sessions -> DuckDBSession \cup {None}]
      BY <1>2, <1>3
    <2> QED
      BY <2>1 DEF OwnerDdl, bookVars, IInv, TypeOK
  <1>5. DdlIsCounted'
    <2>1. CASE Sessions = {}
      <3>1. sess' = sess
        BY <1>1, <1>2, <2>1
      <3> QED
        BY <3>1 DEF OwnerDdl, bookVars, IInv, DdlIsCounted
    <2>2. CASE Sessions # {}
      <3>1. PICK s \in Sessions : TRUE
        BY <2>2
      <3>2. \A t \in Sessions : Owes(sess', t) = Owes(sess, t) /\ Owes(sess, t) \in Nat
        BY <1>3, OwesType DEF Owes, IInv
      <3>3. uncommitted_ddl' = uncommitted_ddl + Owes(sess', s) - Owes(sess, s)
        <4>1. Owes(sess', s) = Owes(sess, s) /\ Owes(sess, s) \in Nat
          BY <3>2
        <4> QED
          BY <4>1 DEF OwnerDdl, bookVars, IInv, TypeOK
      <3> QED
        BY <1>4, <3>2, <3>3, StaysCounted DEF IInv
    <2> QED
      BY <2>1, <2>2
  <1>6. FailuresCounted' /\ WritersDiffer' /\ ShaperHoldsTheTable'
    <2>1. /\ failures' = failures /\ shaping' = shaping
          /\ shaping \in [Names -> Sessions \cup {None}]
      BY DEF OwnerDdl, bookVars, IInv, TypeOK
    <2>2. FailuresCounted'
      BY <1>3, <2>1 DEF IInv, FailuresCounted, InStep
    <2>3. WritersDiffer'
      BY <1>3 DEF IInv, WritersDiffer
    <2>4. ShaperHoldsTheTable'
      BY <1>3, <2>1 DEF IInv, ShaperHoldsTheTable
    <2> QED
      BY <2>2, <2>3, <2>4
  <1>7. ASSUME NEW t \in Sessions, sess'[t] # None PROVE Sound(t)'
    BY <1>3, <1>7, OthersStaySound DEF OwnerDdl, bookVars
  <1> QED
    BY <1>4, <1>5, <1>6, <1>7 DEF IInv

\* Every step preserves the inductive invariant.
LEMMA NextSound == IInv /\ [Next]_vars => IInv'
  <1> SUFFICES ASSUME IInv, [Next]_vars PROVE IInv'
    OBVIOUS
  <1>1. ASSUME NEW s \in Sessions, Record(s) PROVE IInv'
    BY <1>1, RecordCreateSound, RecordDropSound, RecordAlterSound, RecordRenameSound DEF Record
  <1>2. ASSUME NEW s \in Sessions,
               \/ Shared(s) \/ Statement(s) \/ Record(s)
               \/ CommitSource(s) \/ CommitSourceFails(s) \/ Rollback(s) \/ Finish(s)
               \/ DestroySession(s)
        PROVE  IInv'
    BY <1>1, <1>2, SharedSound, StatementSound, CommitSourceSound, CommitSourceFailsSound,
       RollbackSound, FinishSound, DestroySound
  <1>3. ASSUME NEW n \in Names, (\E grant \in {"policied", None} : SetPolicy(n, grant)) \/ OwnerDdl(n)
        PROVE  IInv'
    BY <1>3, SetPolicySound, OwnerDdlSound
  <1>4. CASE UNCHANGED vars
    BY <1>4 DEF vars, IInv, TypeOK, DdlIsCounted, FailuresCounted, WritersDiffer, ShaperHoldsTheTable,
       InStep, Sound, Pending, Owing, Granting, Created
  <1>5. CASE Next
    BY <1>2, <1>3, <1>5 DEF Next
  <1> QED
    BY <1>4, <1>5

--------------------------------------------------------------------------------
(* Theorems *)

\* The grants, the undos and the source's transactions fit together in every reachable state.
THEOREM SessionsAreSound == Spec => []IInv
  <1>1. Init => IInv
    BY InitSound
  <1>2. IInv /\ [Next]_vars => IInv'
    BY NextSound
  <1> QED
    BY <1>1, <1>2, PTL DEF Spec

\* The state of the sessions and the GrantBook has its type.
THEOREM SessionsTypeCorrect == Spec => []TypeOK
  <1>1. IInv => TypeOK
    BY DEF IInv
  <1> QED
    BY <1>1, SessionsAreSound, PTL

\* uncommitted_ddl is the number of undos outstanding.
THEOREM EveryUndoIsCounted == Spec => []DdlIsCounted
  <1>1. IInv => DdlIsCounted
    BY DEF IInv
  <1> QED
    BY <1>1, SessionsAreSound, PTL

\* An open transaction holds on the source every table it owes an undo for.
THEOREM UndosAreHeld == Spec => []UndoHoldsItsTables
  <1>1. IInv => UndoHoldsItsTables
    <2> SUFFICES ASSUME IInv, NEW s \in Sessions, InStep(s, "open")
                 PROVE  UndoNames(s) \subseteq sess[s].written
      BY DEF UndoHoldsItsTables
    <2>1. sess[s] # None /\ sess[s].step = "open" /\ sess[s].undo \in Seq(Undo)
      BY SessionFields DEF IInv, InStep
    <2>2. TouchedBy(sess[s].undo) \subseteq sess[s].written
      BY <2>1 DEF IInv, Sound, Owing
    <2> QED
      BY <2>1, <2>2, UndoNamesAreTouched
  <1> QED
    BY <1>1, SessionsAreSound, PTL

\* A table is described through the connection that holds it on the source, destroyed session or
\* not, except between a commit on the source and its end in the GrantBook.
THEOREM ShapersHold == Spec => []ShaperHoldsTheTable
  <1>1. IInv => ShaperHoldsTheTable
    BY DEF IInv
  <1> QED
    BY <1>1, SessionsAreSound, PTL

\* As long as no source commit failed, a transaction has the grant of every table it created.
THEOREM CreatorsAreGranted == Spec => []CreatedIsGrantedUnlessCommitFailed
  <1>1. IInv => CreatedIsGrantedUnlessCommitFailed
    BY DEF IInv, CreatedIsGrantedUnlessCommitFailed, CreatedIsGranted, Ready, InStep, Sound,
       Granting, Makes
  <1> QED
    BY <1>1, SessionsAreSound, PTL

\* A step changes grants only as the recorder of a statement, as a rollback, as a failed commit, or
\* as the owner when no undo is owed.
LEMMA GrantChanges ==
    ASSUME IInv, [Next]_vars, NEW n \in Names, grants'[n] # grants[n], uncommitted_ddl > 0
    PROVE  \E s \in Sessions : /\ sess[s] # None
                               /\ n \in sess[s].written \cup UndoNames(s)
  <1>1. uncommitted_ddl # 0 /\ TypeOK /\ grants \in GrantBook
    BY DEF IInv, TypeOK, GrantBook
  <1>2. ASSUME NEW s \in Sessions, NEW verb, Recording(s, verb),
               \A k \in Names \ Changes(sess[s].ddl) : grants'[k] = grants[k]
        PROVE  sess[s] # None /\ n \in sess[s].written
    <2>1. n \in Changes(sess[s].ddl) /\ sess[s] # None
      BY <1>2 DEF Recording, InStep
    <2>2. Pending(s)
      BY <2>1 DEF IInv, Sound
    <2> QED
      BY <2>1, <2>2 DEF Pending
  <1>3. ASSUME NEW s \in Sessions, Record(s) PROVE sess[s] # None /\ n \in sess[s].written
    <2>1. CASE RecordCreate(s)
      <3>1. Recording(s, "create")
        BY <2>1 DEF RecordCreate
      <3>2. sess[s].ddl.name \in Changes(sess[s].ddl)
        BY <3>1, RecordingFacts
      <3> QED
        BY <1>1, <1>2, <2>1, <3>1, <3>2 DEF RecordCreate, GrantBook
    <2>2. CASE RecordDrop(s)
      <3>1. Recording(s, "drop")
        BY <2>2 DEF RecordDrop
      <3>2. sess[s].ddl.name \in Changes(sess[s].ddl)
        BY <3>1, RecordingFacts
      <3> QED
        BY <1>1, <1>2, <2>2, <3>1, <3>2 DEF RecordDrop, GrantBook
    <2>3. CASE RecordAlter(s)
      BY <2>3 DEF RecordAlter
    <2>4. CASE RecordRename(s)
      <3>1. Recording(s, "rename")
        BY <2>4 DEF RecordRename
      <3>2. sess[s].ddl.name \in Changes(sess[s].ddl) /\ sess[s].ddl.to \in Changes(sess[s].ddl)
        BY <3>1, RecordingFacts
      <3>3. \A k \in Names \ Changes(sess[s].ddl) : grants'[k] = grants[k]
        BY <1>1, <2>4, <3>2 DEF RecordRename, GrantBook
      <3> QED
        BY <1>2, <3>1, <3>3
    <2> QED
      BY <1>3, <2>1, <2>2, <2>3, <2>4 DEF Record
  <1>4. ASSUME NEW s \in Sessions, sess[s] # None, grants' = UndoGrants(grants, sess[s].undo)
        PROVE  n \in UndoNames(s)
    <2>1. sess[s].undo \in Seq(Undo)
      BY <1>1, <1>4, SessionFields
    <2>2. n \in TouchedBy(sess[s].undo)
      BY <1>1, <1>4, <2>1, UndoGrantsType
    <2> QED
      BY <2>1, <2>2, UndoNamesAreTouched
  <1>5. ASSUME NEW s \in Sessions, Rollback(s) \/ Finish(s) PROVE sess[s] # None /\ n \in UndoNames(s)
    <2>1. CASE Rollback(s)
      BY <1>4, <2>1 DEF Rollback, Ready, InStep
    <2>2. CASE FinishFailedCommit(s)
      BY <1>4, <2>2, SMTT(30) DEF FinishFailedCommit, InStep
    <2> QED
      BY <1>5, <2>1, <2>2 DEF Finish, FinishCommit, FinishRollback, bookVars
  <1>6. ASSUME NEW s \in Sessions,
               \/ Statement(s) \/ Shared(s) \/ CommitSource(s) \/ CommitSourceFails(s)
               \/ DestroySession(s)
        PROVE  FALSE
    BY <1>6 DEF Statement, CreateTable, DropTable, AlterTable, RenameTable, Ran, Shared, CommitSource,
       CommitSourceFails, DestroySession, bookVars
  <1>7. ASSUME NEW m \in Names, (\E grant \in {"policied", None} : SetPolicy(m, grant)) \/ OwnerDdl(m)
        PROVE  FALSE
    BY <1>1, <1>7 DEF SetPolicy, OwnerDdl, bookVars
  <1>8. CASE UNCHANGED vars
    BY <1>8 DEF vars
  <1>9. CASE Next
    BY <1>3, <1>5, <1>6, <1>7, <1>9 DEF Next
  <1> QED
    BY <1>8, <1>9

\* While an undo is outstanding, only the grants of tables a transaction holds, or held until its
\* commit failed, change: the owner's policy is not edited under an undo.
THEOREM UndoneGrantsWereHeld == Spec => OnlyHeldGrantsChange
  <1> DEFINE Held == uncommitted_ddl > 0 =>
                        \A n \in Names : grants'[n] # grants[n] =>
                            \E s \in Sessions : /\ sess[s] # None
                                                /\ n \in sess[s].written \cup UndoNames(s)
  <1>1. IInv /\ [Next]_vars => [Held]_vars
    BY GrantChanges
  <1> QED
    BY <1>1, SessionsAreSound, PTL DEF Spec, OnlyHeldGrantsChange

\* The undo that Record adds takes back what it did to the grants.
LEMMA RecordIsUndone ==
    ASSUME IInv, NEW s \in Sessions, Record(s),
           sess[s].ddl.verb = "rename" => grants[sess[s].ddl.to] = None
    PROVE  UndoGrants(grants', sess'[s].undo) = UndoGrants(grants, sess[s].undo)
  <1> DEFINE d == sess[s].ddl
             n == d.name
             m == d.to
  <1>1. TypeOK /\ grants \in GrantBook
    BY DEF IInv, TypeOK, GrantBook
  <1>2. sess[s].undo \in Seq(Undo) /\ InStep(s, "open")
    BY <1>1, SessionFields
    DEF Record, RecordCreate, RecordDrop, RecordAlter, RecordRename, Recording, InStep
  <1>3. sess[s].undo \o <<>> = sess[s].undo
    BY <1>2
  <1>4. ASSUME NEW u \in Undo, Recorded(s, <<u>>), grants' \in GrantBook, Undone(u, grants') = grants
        PROVE  UndoGrants(grants', sess'[s].undo) = UndoGrants(grants, sess[s].undo)
    <2>1. sess'[s].undo = sess[s].undo \o <<u>>
      BY <1>2, <1>4, OneUndo, CreatedOnRecord
    <2> QED
      BY <1>2, <1>4, <2>1, UndoLast
  <1>5. ASSUME Recorded(s, <<>>), grants' = grants
        PROVE  UndoGrants(grants', sess'[s].undo) = UndoGrants(grants, sess[s].undo)
    <2>1. sess'[s].undo = sess[s].undo \o <<>>
      BY <1>2, <1>5, NoUndo, CreatedOnRecord
    <2> QED
      BY <1>3, <1>5, <2>1
  <1>6. CASE RecordCreate(s)
    <2> DEFINE u == [verb |-> "create", name |-> n, old |-> grants[n]]
    <2>1. n \in Names
      BY <1>6, RecordingFacts DEF RecordCreate
    <2>2. u \in Undo /\ u.verb = "create" /\ u.name = n /\ u.old = grants[n]
      BY <1>1, <2>1 DEF Undo, GrantBook
    <2>3. Recorded(s, <<u>>) /\ grants' = [grants EXCEPT ![n] = "full"]
      BY <1>6 DEF RecordCreate
    <2> HIDE DEF u
    <2>4. Undone(u, grants') = [grants' EXCEPT ![n] = grants[n]]
      BY <2>2 DEF Undone
    <2>5. Undone(u, grants') = grants /\ grants' \in GrantBook
      BY <1>1, <2>1, <2>3, <2>4 DEF GrantBook, Grant
    <2> QED
      BY <1>4, <2>2, <2>3, <2>5
  <1>7. CASE RecordDrop(s)
    <2> DEFINE u == [verb |-> "drop", name |-> n, old |-> grants[n]]
    <2>1. n \in Names
      BY <1>7, RecordingFacts DEF RecordDrop
    <2>2. u \in Undo /\ u.verb = "drop" /\ u.name = n /\ u.old = grants[n]
      BY <1>1, <2>1 DEF Undo, GrantBook
    <2>3. Recorded(s, IF grants[n] = None THEN <<>> ELSE <<u>>) /\ grants' = [grants EXCEPT ![n] = None]
      BY <1>7 DEF RecordDrop
    <2> HIDE DEF u
    <2>4. Undone(u, grants') = [grants' EXCEPT ![n] = grants[n]]
      BY <2>2 DEF Undone
    <2>5. Undone(u, grants') = grants /\ grants' \in GrantBook
      BY <1>1, <2>1, <2>3, <2>4 DEF GrantBook, Grant
    <2>6. grants[n] = None => grants' = grants
      BY <1>1, <2>1, <2>3 DEF GrantBook
    <2> QED
      BY <1>4, <1>5, <2>2, <2>3, <2>5, <2>6
  <1>8. CASE RecordAlter(s)
    BY <1>5, <1>8 DEF RecordAlter
  <1>9. CASE RecordRename(s)
    <2> DEFINE u == [verb |-> "rename", name |-> n, to |-> m]
    <2>1. n \in Names /\ m \in Names /\ n # m /\ d.verb = "rename"
      BY <1>9, RecordingFacts DEF RecordRename
    <2>2. CASE grants[n] = None
      BY <1>5, <1>9, <2>2 DEF RecordRename
    <2>3. CASE grants[n] # None
      <3>1. Recorded(s, <<u>>) /\ grants' = [grants EXCEPT ![n] = None, ![m] = grants[n]]
        BY <1>9, <2>3 DEF RecordRename
      <3>2. u \in Undo /\ u.verb = "rename" /\ u.name = n /\ u.to = m
        BY <2>1 DEF Undo
      <3> HIDE DEF u
      <3>3. grants'[m] = grants[n] /\ grants' \in GrantBook
        BY <1>1, <2>1, <3>1 DEF GrantBook
      <3>4. Undone(u, grants') = [grants' EXCEPT ![m] = None, ![n] = grants[n]]
        BY <2>3, <3>2, <3>3 DEF Undone
      <3>5. Undone(u, grants') = grants
        BY <1>1, <2>1, <3>1, <3>4, ZenonT(30) DEF GrantBook
      <3> QED
        BY <1>4, <3>1, <3>2, <3>3, <3>5
    <2> QED
      BY <2>2, <2>3
  <1> QED
    BY <1>6, <1>7, <1>8, <1>9 DEF Record

\* Recording a statement never changes what a rollback would restore, except for a rename over a
\* grant that outlived its table.
THEOREM RollbackTargetIsKept == Spec => UndoInvertsUnlessRenamedOver
  <1> DEFINE Kept == \A s \in Sessions :
                        /\ Record(s)
                        /\ sess[s].ddl.verb = "rename" => grants[sess[s].ddl.to] = None
                        => UndoGrants(grants', sess'[s].undo) = UndoGrants(grants, sess[s].undo)
  <1>1. IInv /\ [Next]_vars => [Kept]_vars
    BY RecordIsUndone
  <1> QED
    BY <1>1, SessionsAreSound, PTL DEF Spec, UndoInvertsUnlessRenamedOver

================================================================================
