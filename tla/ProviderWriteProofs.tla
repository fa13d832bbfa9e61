--------------------------- MODULE ProviderWriteProofs ---------------------------
(***************************************************************************)
(* Proofs about ProviderWrite and the streams it reads (ProviderStream), for *)
(* every finite set of scans and every finite table, for any hosts, threads, *)
(* generators, answers of the scan function and vector size: which rows a    *)
(* stream delivers, whom a row id names, and what a write sends.             *)
(*                                                                         *)
(* FlattenSeq, FoldLeft and Chunks are recursive functions over sequences;   *)
(* the first three parts say what they compute, by induction on a length.    *)
(* Then come the inductive invariant of the streams with one lemma per step  *)
(* of a call, the inductive invariant of the statement with one lemma per    *)
(* action, and the theorems.                                                 *)
(***************************************************************************)
EXTENDS ProviderWrite, FoldLemmas, SequenceTheorems

--------------------------------------------------------------------------------
(* Sequences put one after another *)

\* One sequence after another.
Glue(a, b) == a \o b

\* The properties of \o that follow.
LEMMA GlueFacts ==
    ASSUME NEW R, NEW a \in Seq(R), NEW b \in Seq(R)
    PROVE  Glue(a, b) \in Seq(R) /\ Glue(<<>>, a) = a /\ Glue(a, <<>>) = a
  BY DEF Glue

\* It does not matter which two of three come together first.
LEMMA GlueAssociative ==
    ASSUME NEW R, NEW a \in Seq(R), NEW b \in Seq(R), NEW c \in Seq(R)
    PROVE  Glue(Glue(a, b), c) = Glue(a, Glue(b, c))
  BY ConcatAssociative DEF Glue

\* f[i] is what the first i sequences of s are one after the other, for i up to n.
Joins(R, s, n, f) ==
    /\ f \in [0..n -> Seq(R)] /\ f[0] = <<>>
    /\ \A i \in 1..n : f[i] = Glue(f[i - 1], s[i])

\* FlattenSeq is what all of them are one after the other.
LEMMA FlattenIs ==
    ASSUME NEW R, NEW s \in Seq(Seq(R))
    PROVE  \E f : Joins(R, s, Len(s), f) /\ FlattenSeq(s) = f[Len(s)]
  <1> DEFINE L == Len(s)
             Rest(f, i) == IF i = 1 THEN s[i] ELSE Glue(f[i - 1], s[i])
             Fixed(f) == f = [i \in 1..L |-> Rest(f, i)]
             flatten == CHOOSE f : Fixed(f)
             Good == {n \in Nat : n <= L => \E f : Joins(R, s, n, f)}
  <1>1. L \in Nat /\ \A i \in 1..L : s[i] \in Seq(R)
    OBVIOUS
  <1>0. <<>> \in Seq(R)
    OBVIOUS
  <1>2. 0 \in Good
    <2>1. Joins(R, s, 0, [i \in 0..0 |-> <<>>])
      BY <1>0 DEF Joins
    <2> QED
      BY <2>1
  <1>3. ASSUME NEW n \in Nat, n \in Good PROVE n + 1 \in Good
    <2> SUFFICES ASSUME n + 1 <= L PROVE \E f : Joins(R, s, n + 1, f)
      OBVIOUS
    <2>0. n <= L /\ n + 1 \in 1..L /\ n \in 0..n
      BY <1>1
    <2>1. PICK f : Joins(R, s, n, f)
      BY <1>3, <2>0
    <2> DEFINE last == Glue(f[n], s[n + 1])
               g == [i \in 0..(n + 1) |-> IF i <= n THEN f[i] ELSE last]
    <2>2. f[n] \in Seq(R) /\ s[n + 1] \in Seq(R)
      BY <1>1, <2>0, <2>1 DEF Joins
    <2>3. last \in Seq(R)
      BY <2>2, GlueFacts
    <2> HIDE DEF last
    <2>4. g \in [0..(n + 1) -> Seq(R)] /\ g[0] = <<>>
      BY <2>1, <2>3 DEF Joins
    <2>5. ASSUME NEW i \in 1..(n + 1) PROVE g[i] = Glue(g[i - 1], s[i])
      <3>1. CASE i <= n
        <4>1. i \in 1..n /\ i - 1 \in 0..n /\ i - 1 <= n /\ i - 1 \in 0..(n + 1) /\ i \in 0..(n + 1)
          BY <3>1
        <4>2. g[i] = f[i] /\ g[i - 1] = f[i - 1]
          BY <3>1, <4>1
        <4> QED
          BY <2>1, <4>1, <4>2 DEF Joins
      <3>2. CASE i = n + 1
        <4>1. g[n + 1] = last /\ g[n] = f[n] /\ i - 1 = n
          BY <3>2
        <4> QED
          BY <3>2, <4>1 DEF last
      <3> QED
        BY <3>1, <3>2
    <2> HIDE DEF g
    <2>6. Joins(R, s, n + 1, g)
      BY <2>4, <2>5 DEF Joins
    <2> QED
      BY <2>6
  <1>4. Nat \subseteq Good
    <2> HIDE DEF Good
    <2> QED
      BY <1>2, <1>3, SetInduction
  <1>5. PICK f : Joins(R, s, L, f)
    BY <1>1, <1>4
  <1>6. /\ f \in [0..L -> Seq(R)] /\ f[0] = <<>>
        /\ \A i \in 1..L : f[i] = Glue(f[i - 1], s[i])
    BY <1>5 DEF Joins
  <1>7. CASE L = 0
    <2>1. s = <<>> /\ FlattenSeq(s) = s
      BY <1>7 DEF FlattenSeq
    <2> QED
      BY <1>5, <1>6, <1>7, <2>1
  <1>8. CASE L # 0
    <2>0. 1 \in 1..L /\ f[1] = s[1]
      <3>1. 1 \in 1..L /\ 1 - 1 = 0
        BY <1>1, <1>8
      <3>2. f[1] = Glue(f[0], s[1]) /\ s[1] \in Seq(R)
        BY <1>1, <1>6, <3>1
      <3> QED
        BY <1>6, <3>1, <3>2, GlueFacts
    <2> DEFINE h == [i \in 1..L |-> f[i]]
    <2>1. ASSUME NEW i \in 1..L PROVE h[i] = Rest(h, i)
      <3>1. CASE i = 1
        BY <2>0, <3>1
      <3>2. CASE i # 1
        <4>1. i - 1 \in 1..L /\ f[i] = Glue(f[i - 1], s[i])
          BY <1>1, <1>6, <3>2
        <4> QED
          BY <3>2, <4>1
      <3> QED
        BY <3>1, <3>2
    <2>2. Fixed(h)
      <3>1. h = [i \in 1..L |-> h[i]]
        OBVIOUS
      <3> HIDE DEF Rest, h
      <3> QED
        BY <2>1, <3>1
    <2>3. Fixed(flatten)
      <3> HIDE DEF Fixed, h
      <3> QED
        BY <2>2
    <2>4. FlattenSeq(s) = flatten[L]
      BY <1>8 DEF FlattenSeq, Glue
    <2> HIDE DEF flatten
    <2>9. \A i \in 1..L : flatten[i] = Rest(flatten, i)
      <3> HIDE DEF Rest
      <3> QED
        BY <2>3
    <2> DEFINE Same == {n \in Nat : n + 1 <= L => flatten[n + 1] = f[n + 1]}
    <2>5. 0 \in Same
      BY <2>0, <2>9
    <2>6. ASSUME NEW n \in Nat, n \in Same PROVE n + 1 \in Same
      <3> SUFFICES ASSUME (n + 1) + 1 <= L PROVE flatten[(n + 1) + 1] = f[(n + 1) + 1]
        OBVIOUS
      <3> DEFINE i == (n + 1) + 1
      <3>1. i \in 1..L /\ i # 1 /\ i - 1 = n + 1 /\ n + 1 <= L
        BY <1>1
      <3>3. flatten[n + 1] = f[n + 1]
        BY <2>6, <3>1
      <3> HIDE DEF i
      <3>4. flatten[i] = f[i]
        BY <1>6, <2>9, <3>1, <3>3
      <3> QED
        BY <3>4 DEF i
    <2>7. Nat \subseteq Same
      <3> HIDE DEF Same
      <3> QED
        BY <2>5, <2>6, SetInduction
    <2>8. L - 1 \in Nat /\ (L - 1) + 1 = L
      BY <1>1, <1>8
    <2>10. L - 1 \in Same
      <3> HIDE DEF Same
      <3> QED
        BY <2>7, <2>8
    <2>11. flatten[L] = f[L]
      BY <1>1, <2>8, <2>10
    <2> QED
      BY <1>5, <2>4, <2>11
  <1> QED
    BY <1>7, <1>8

\* s and t begin with the same n elements.
Agree(s, t, n) == \A i \in 1..n : s[i] = t[i]

\* What the first n sequences are does not depend on the others.
LEMMA JoinsAgree ==
    ASSUME NEW R, NEW s, NEW t, NEW f, NEW g, NEW n \in Nat, NEW k \in Nat, NEW l \in Nat,
           Joins(R, s, k, f), Joins(R, t, l, g),
           n <= k, n <= l, Agree(s, t, n)
    PROVE  f[n] = g[n]
  <1> DEFINE Same == {m \in Nat : m <= n => f[m] = g[m]}
  <1>1. 0 \in Same
    BY DEF Joins
  <1>2. ASSUME NEW m \in Nat, m \in Same PROVE m + 1 \in Same
    <2> SUFFICES ASSUME m + 1 <= n PROVE f[m + 1] = g[m + 1]
      OBVIOUS
    <2>1. m + 1 \in 1..k /\ m + 1 \in 1..l /\ m + 1 \in 1..n /\ (m + 1) - 1 = m /\ m <= n
      OBVIOUS
    <2>2. f[m + 1] = Glue(f[m], s[m + 1]) /\ g[m + 1] = Glue(g[m], t[m + 1])
      <3> DEFINE i == m + 1
      <3>1. i \in 1..k /\ i \in 1..l /\ i - 1 = m
        BY <2>1
      <3> HIDE DEF i
      <3>2. f[i] = Glue(f[m], s[i]) /\ g[i] = Glue(g[m], t[i])
        BY <3>1 DEF Joins
      <3> QED
        BY <3>2 DEF i
    <2>3. f[m] = g[m] /\ s[m + 1] = t[m + 1]
      BY <1>2, <2>1 DEF Agree
    <2> QED
      BY <2>2, <2>3
  <1>3. Nat \subseteq Same
    <2> HIDE DEF Same
    <2> QED
      BY <1>1, <1>2, SetInduction
  <1> QED
    BY <1>3

\* Nothing, one after the other, is nothing; and sequences of rows are rows.
LEMMA FlattenType ==
    ASSUME NEW R, NEW s \in Seq(Seq(R))
    PROVE  FlattenSeq(s) \in Seq(R) /\ (s = <<>> => FlattenSeq(s) = <<>>)
  <1>1. PICK f : Joins(R, s, Len(s), f) /\ FlattenSeq(s) = f[Len(s)]
    BY FlattenIs
  <1>2. Len(s) \in Nat /\ (s = <<>> => Len(s) = 0)
    OBVIOUS
  <1>3. Len(s) \in 0..Len(s)
    BY <1>2
  <1> QED
    BY <1>1, <1>2, <1>3 DEF Joins

\* A sequence that comes last.
LEMMA FlattenAppend ==
    ASSUME NEW R, NEW s \in Seq(Seq(R)), NEW t \in Seq(Seq(R)),
           Len(t) = Len(s) + 1, \A i \in 1..Len(s) : t[i] = s[i]
    PROVE  FlattenSeq(t) = Glue(FlattenSeq(s), t[Len(t)])
  <1> DEFINE n == Len(s)
             m == Len(t)
  <1>3. n \in Nat /\ m \in Nat /\ m = n + 1
    OBVIOUS
  <1>6. Agree(s, t, n)
    BY DEF Agree
  <1>1. PICK f : Joins(R, s, n, f) /\ FlattenSeq(s) = f[n]
    BY FlattenIs
  <1>2. PICK g : Joins(R, t, m, g) /\ FlattenSeq(t) = g[m]
    BY FlattenIs
  <1> HIDE DEF n, m
  <1>4. f[n] = g[n]
    <2>1. n <= n /\ n <= m
      BY <1>3
    <2> QED
      BY <1>1, <1>2, <1>3, <1>6, <2>1, JoinsAgree
  <1>5. g[m] = Glue(g[n], t[m])
    <2>1. m \in 1..m /\ m - 1 = n
      BY <1>3
    <2> QED
      BY <1>2, <2>1 DEF Joins
  <1> QED
    BY <1>1, <1>2, <1>4, <1>5 DEF n, m

\* The sequence that comes first.
LEMMA FlattenHead ==
    ASSUME NEW R, NEW s \in Seq(Seq(R)), s # <<>>
    PROVE  FlattenSeq(s) = Glue(Head(s), FlattenSeq(Tail(s)))
  <1> DEFINE t == Tail(s)
             L == Len(s)
             x == Head(s)
  <1>1. /\ t \in Seq(Seq(R)) /\ L \in Nat \ {0} /\ Len(t) = L - 1 /\ x = s[1]
        /\ x \in Seq(R) /\ \A i \in 1..(L - 1) : t[i] = s[i + 1] /\ t[i] \in Seq(R)
    OBVIOUS
  <1>2. PICK f : Joins(R, s, L, f) /\ FlattenSeq(s) = f[L]
    BY FlattenIs
  <1> HIDE DEF t, L, x
  <1>3. PICK g : Joins(R, t, L - 1, g) /\ FlattenSeq(t) = g[L - 1]
    BY <1>1, FlattenIs
  <1> DEFINE Same == {k \in Nat : k <= L - 1 => f[k + 1] = Glue(x, g[k])}
  <1>4. 0 \in Same
    <2>1. 1 \in 1..L /\ 1 - 1 = 0
      BY <1>1
    <2>2. f[1] = Glue(f[0], x) /\ f[0] = <<>> /\ g[0] = <<>>
      BY <1>1, <1>2, <1>3, <2>1 DEF Joins
    <2>3. f[1] = x /\ Glue(x, g[0]) = x
      BY <1>1, <2>2, GlueFacts
    <2> QED
      BY <2>3
  <1>5. ASSUME NEW k \in Nat, k \in Same PROVE k + 1 \in Same
    <2> SUFFICES ASSUME k + 1 <= L - 1 PROVE f[(k + 1) + 1] = Glue(x, g[k + 1])
      OBVIOUS
    <2> DEFINE i == k + 1
               j == i + 1
    <2>1. j \in 1..L /\ i \in 1..(L - 1) /\ j - 1 = i /\ i - 1 = k /\ k \in 0..(L - 1) /\ k <= L - 1
      BY <1>1
    <2>3. f[i] = Glue(x, g[k]) /\ t[i] = s[j] /\ t[i] \in Seq(R)
      BY <1>1, <1>5, <2>1
    <2> HIDE DEF i, j
    <2>2. f[j] = Glue(f[i], s[j]) /\ g[i] = Glue(g[k], t[i]) /\ g[k] \in Seq(R)
      BY <1>2, <1>3, <2>1 DEF Joins
    <2>4. f[j] = Glue(x, g[i])
      BY <1>1, <2>2, <2>3, GlueAssociative
    <2> QED
      BY <2>4 DEF i, j
  <1>6. Nat \subseteq Same
    <2> HIDE DEF Same
    <2> QED
      BY <1>4, <1>5, SetInduction
  <1>7. L - 1 \in Same /\ (L - 1) + 1 = L
    BY <1>1, <1>6
  <1>8. L - 1 <= L - 1
    BY <1>1
  <1> QED
    BY <1>2, <1>3, <1>7, <1>8 DEF t, x

--------------------------------------------------------------------------------
(* The decoder *)

\* The fields of a message and of a decoder.
LEMMA DecoderFields ==
    ASSUME NEW R
    PROVE  /\ NewDecoder \in Decoders(R)
           /\ \A m \in Messages(R) : m.rows \in Seq(R) /\ (m.type # "batch" => m.rows = <<>>)
           /\ \A d \in Decoders(R) : /\ d.batches \in Seq(Seq(R)) /\ d.failed \in BOOLEAN
                                     /\ d.done \in BOOLEAN /\ d.schema \in Layouts \cup {"none"}
  <1>1. NewDecoder \in Decoders(R)
    <2>1. <<>> \in Seq(Seq(R))
      OBVIOUS
    <2> QED
      BY <2>1 DEF NewDecoder, Decoders
  <1>2. ASSUME NEW m \in Messages(R) PROVE m.rows \in Seq(R) /\ (m.type # "batch" => m.rows = <<>>)
    <2>1. <<>> \in Seq(R)
      OBVIOUS
    <2> QED
      BY <2>1 DEF Messages
  <1>3. ASSUME NEW d \in Decoders(R)
        PROVE  /\ d.batches \in Seq(Seq(R)) /\ d.failed \in BOOLEAN
               /\ d.done \in BOOLEAN /\ d.schema \in Layouts \cup {"none"}
    BY DEF Decoders
  <1> QED
    BY <1>1, <1>2, <1>3

\* A decoder that read a message has its rows, after those it had.
LEMMA DecodeKeeps ==
    ASSUME NEW R, NEW d \in Decoders(R), NEW m \in Messages(R)
    PROVE  /\ Decode(d, m) \in Decoders(R)
           /\ Decode(d, m).done = d.done
           /\ d.failed => Decode(d, m).failed
           /\ ~Decode(d, m).failed =>
                 FlattenSeq(Decode(d, m).batches) = Glue(FlattenSeq(d.batches), m.rows)
  <1>0. /\ m.rows \in Seq(R) /\ (m.type # "batch" => m.rows = <<>>)
        /\ d.batches \in Seq(Seq(R)) /\ d.failed \in BOOLEAN /\ d.done \in BOOLEAN
        /\ d.schema \in Layouts \cup {"none"}
    BY DecoderFields
  <1>1. CASE d.failed
    BY <1>0, <1>1 DEF Decode
  <1>2. CASE ~d.failed /\ (m.type = "unreadable" \/ SchemaIsRefused(d, m) \/ ComesTooEarly(d, m))
    <2>1. Decode(d, m) = [d EXCEPT !.failed = TRUE, !.schema = IF SchemaIsRefused(d, m) THEN "none" ELSE @]
      BY <1>2 DEF Decode
    <2>2. (IF SchemaIsRefused(d, m) THEN "none" ELSE d.schema) \in Layouts \cup {"none"}
      BY <1>0
    <2> QED
      BY <1>2, <2>1, <2>2 DEF Decoders
  <1>3. CASE ~d.failed /\ ~(m.type = "unreadable" \/ SchemaIsRefused(d, m) \/ ComesTooEarly(d, m))
    <2> DEFINE more == IF m.type = "batch" THEN Append(d.batches, m.rows) ELSE d.batches
    <2>1. Decode(d, m) = [d EXCEPT !.schema = IF m.type \in Layouts THEN m.type ELSE @,
                                   !.batches = more]
      BY <1>3 DEF Decode
    <2>2. (IF m.type \in Layouts THEN m.type ELSE d.schema) \in Layouts \cup {"none"}
      BY <1>0
    <2>3. more \in Seq(Seq(R)) /\ FlattenSeq(more) = Glue(FlattenSeq(d.batches), m.rows)
      <3>1. CASE m.type = "batch"
        <4> DEFINE n == Len(d.batches)
        <4>1. more = Append(d.batches, m.rows)
          BY <3>1
        <4> HIDE DEF more
        <4>2. /\ more \in Seq(Seq(R)) /\ Len(more) = n + 1 /\ more[n + 1] = m.rows
              /\ \A i \in 1..n : more[i] = d.batches[i]
          BY <1>0, <4>1, AppendProperties
        <4>3. FlattenSeq(more) = Glue(FlattenSeq(d.batches), more[Len(more)])
          BY <1>0, <4>2, FlattenAppend
        <4> QED
          BY <4>2, <4>3
      <3>2. CASE m.type # "batch"
        <4>1. more = d.batches /\ m.rows = <<>>
          BY <1>0, <3>2
        <4>2. FlattenSeq(d.batches) \in Seq(R)
          BY <1>0, FlattenType
        <4> HIDE DEF more
        <4> QED
          BY <1>0, <4>1, <4>2, GlueFacts
      <3> QED
        BY <3>1, <3>2
    <2> HIDE DEF more
    <2>4. Decode(d, m) \in Decoders(R) /\ Decode(d, m).done = d.done /\ Decode(d, m).batches = more
      BY <2>1, <2>2, <2>3 DEF Decoders
    <2> QED
      BY <1>3, <2>3, <2>4
  <1> QED
    BY <1>0, <1>1, <1>2, <1>3

\* run[i] is the decoder after the first i messages.
Decodes(R, d, frame, run) ==
    /\ run \in [0..Len(frame) -> Decoders(R)] /\ run[0] = d
    /\ \A i \in 1..Len(frame) : run[i] = Decode(run[i - 1], frame[i])

\* A frame is decoded message by message.
LEMMA DecodeRuns ==
    ASSUME NEW R, NEW d \in Decoders(R), NEW frame \in Seq(Messages(R))
    PROVE  \E run : Decodes(R, d, frame, run) /\ FoldLeft(Decode, d, frame) = run[Len(frame)]
  <1> DEFINE D == DOMAIN frame
             V == Decoders(R)
             pick == [T \in SUBSET D |-> IF T = {} THEN {} ELSE Max(T)]
             step == [p \in D \X V |-> Decode(p[2], frame[p[1]])]
             Fixed(f) == f = [T \in SUBSET D |-> IF T = {} THEN d
                                                 ELSE Decode(f[T \ {Max(T)}], frame[Max(T)])]
             iter == CHOOSE f : Fixed(f)
  <1>1. D = 1..Len(frame) /\ Len(frame) \in Nat /\ \A i \in D : frame[i] \in Messages(R)
    OBVIOUS
  <1>3. IsFiniteSet(D)
    BY <1>1, FS_Interval
  <1>2. ASSUME NEW T \in SUBSET D, T # {}
        PROVE  Max(T) \in T /\ \A i \in T : i <= Max(T)
    <2> DEFINE Up == {n \in Nat : \A i \in T : i <= n}
    <2>1. Len(frame) \in Up
      BY <1>1
    <2>2. PICK n \in Up : \A m \in Up : n <= m
      <3>1. Up \subseteq Nat /\ Up # {}
        BY <2>1
      <3> HIDE DEF Up
      <3> QED
        BY <3>1, LeastNatural
    <2>3. n \in T
      <3> SUFFICES ASSUME n \notin T PROVE FALSE
        OBVIOUS
      <3>1. PICK t \in T : t \in Nat /\ t <= n /\ t # n
        BY <1>1, <1>2, <2>2
      <3>2. n - 1 \in Nat /\ \A i \in T : i <= n - 1
        BY <1>1, <2>2, <3>1
      <3>3. n - 1 \in Up
        BY <3>2
      <3> QED
        BY <2>2, <3>2, <3>3
    <2>4. \E x \in T : \A y \in T : x >= y
      BY <1>1, <2>2, <2>3
    <2> QED
      BY <1>1, <2>4 DEF Max
  <1>4. pick \in [SUBSET D -> D \cup {{}}] /\ \A T \in SUBSET D : T # {} => pick[T] \in T
    <2>1. ASSUME NEW T \in SUBSET D, T # {} PROVE Max(T) \in D /\ pick[T] = Max(T) /\ pick[T] \in T
      BY <1>2, <2>1
    <2> QED
      BY <2>1
  <1>5. step \in [D \X V -> V]
    BY <1>1, DecodeKeeps
  <1>6. PICK f : Folds(D, V, d, pick, step, f)
    <2> HIDE DEF pick, step, D
    <2>1. Foldable(D, V, d, pick, step)
      BY <1>3, <1>4, <1>5 DEF Foldable
    <2> QED
      BY <2>1, FoldExists
  <1>7. Fixed(f)
    <2>1. ASSUME NEW T \in SUBSET D, T # {}
          PROVE  f[T] = Decode(f[T \ {Max(T)}], frame[Max(T)])
      <3>1. f[T] = step[<<pick[T], f[T \ {pick[T]}]>>]
        BY <1>6, <2>1 DEF Folds, Unfolded
      <3>2. pick[T] = Max(T) /\ Max(T) \in D /\ f[T \ {Max(T)}] \in V
        BY <1>2, <1>6, <2>1 DEF Folds
      <3> QED
        BY <3>1, <3>2
    <2>2. f[{}] = d
      BY <1>6 DEF Folds, Unfolded
    <2>3. f = [T \in SUBSET D |-> f[T]]
      BY <1>6 DEF Folds
    <2> QED
      BY <2>1, <2>2, <2>3
  <1>8. Fixed(iter)
    <2> HIDE DEF Fixed
    <2> QED
      BY <1>7
  <1>9. FoldLeft(Decode, d, frame) = iter[D]
    BY DEF FoldLeft, MapThenFoldSet
  <1> DEFINE run == [i \in 0..Len(frame) |-> iter[1..i]]
  <1> HIDE DEF iter
  <1>10. run[0] = d
    <2>1. iter[{}] = d
      BY <1>8
    <2>2. 1..0 = {}
      OBVIOUS
    <2> QED
      BY <1>1, <2>1, <2>2
  <1>11. ASSUME NEW i \in 1..Len(frame) PROVE run[i] = Decode(run[i - 1], frame[i])
    <2> DEFINE T == 1..i
    <2>1. T \in SUBSET D /\ T # {} /\ i \in T
      BY <1>1
    <2>2. Max(T) = i
      <3>1. Max(T) \in T /\ i <= Max(T)
        BY <1>2, <2>1
      <3> QED
        BY <3>1
    <2>3. T \ {i} = 1..(i - 1)
      OBVIOUS
    <2>4. iter[T] = Decode(iter[T \ {Max(T)}], frame[Max(T)])
      <3> HIDE DEF T
      <3> QED
        BY <1>8, <2>1
    <2>5. i \in 0..Len(frame) /\ i - 1 \in 0..Len(frame)
      BY <1>1
    <2> QED
      BY <2>2, <2>3, <2>4, <2>5
  <1>12. Len(frame) \in 0..Len(frame) /\ run[Len(frame)] = iter[D]
    BY <1>1
  <1> HIDE DEF run
  <1>13. \A i \in 0..Len(frame) : run[i] \in V
    <2> DEFINE Good == {n \in Nat : n <= Len(frame) => run[n] \in V}
    <2>1. 0 \in Good
      BY <1>10
    <2>2. ASSUME NEW n \in Nat, n \in Good PROVE n + 1 \in Good
      <3> SUFFICES ASSUME n + 1 <= Len(frame) PROVE run[n + 1] \in V
        OBVIOUS
      <3>1. n + 1 \in 1..Len(frame) /\ (n + 1) - 1 = n /\ n <= Len(frame)
        BY <1>1
      <3>2. run[n + 1] = Decode(run[n], frame[n + 1])
        BY <1>11, <3>1
      <3>3. run[n] \in V /\ frame[n + 1] \in Messages(R)
        BY <1>1, <2>2, <3>1
      <3> QED
        BY <3>2, <3>3, DecodeKeeps
    <2>3. Nat \subseteq Good
      <3> HIDE DEF Good
      <3> QED
        BY <2>1, <2>2, SetInduction
    <2> QED
      BY <1>1, <2>3
  <1>14. run = [i \in 0..Len(frame) |-> run[i]]
    BY DEF run
  <1>15. Decodes(R, d, frame, run)
    BY <1>10, <1>11, <1>13, <1>14 DEF Decodes
  <1> QED
    BY <1>9, <1>12, <1>15

\* The rows of the messages of a frame.
RowsIn(frame) == [i \in 1..Len(frame) |-> frame[i].rows]

\* A decoder that read a frame has its rows, after those it had.
LEMMA FrameKeeps ==
    ASSUME NEW R, NEW d \in Decoders(R), NEW frame \in Seq(Messages(R)), NEW e,
           e = FoldLeft(Decode, d, frame)
    PROVE  /\ e \in Decoders(R) /\ e.done = d.done
           /\ ~e.failed => /\ ~d.failed
                           /\ FlattenSeq(e.batches)
                                = Glue(FlattenSeq(d.batches), FlattenSeq(RowsIn(frame)))
  <1> DEFINE L == Len(frame)
             rows == RowsIn(frame)
             had == FlattenSeq(d.batches)
  <1>1. PICK run : Decodes(R, d, frame, run) /\ e = run[L]
    BY DecodeRuns
  <1>2. L \in Nat /\ \A i \in 1..L : frame[i] \in Messages(R)
    OBVIOUS
  <1>3. /\ rows \in Seq(Seq(R)) /\ Len(rows) = L
        /\ \A i \in 1..L : rows[i] = frame[i].rows /\ rows[i] \in Seq(R)
    <2>1. \A i \in 1..L : frame[i].rows \in Seq(R)
      BY <1>2, DecoderFields
    <2> QED
      BY <1>2, <2>1, IsASeq DEF RowsIn
  <1>4. had \in Seq(R) /\ d.batches \in Seq(Seq(R)) /\ d.failed \in BOOLEAN
    BY FlattenType, DecoderFields
  <1> HIDE DEF rows, had, L
  <1>5. PICK f : Joins(R, rows, L, f) /\ FlattenSeq(rows) = f[L]
    BY <1>3, FlattenIs
  <1> DEFINE Has(n) == ~run[n].failed => ~d.failed /\ FlattenSeq(run[n].batches) = Glue(had, f[n])
             Good == {n \in Nat : n <= L => run[n].done = d.done /\ Has(n)}
  <1>6. 0 \in Good
    <2>1. run[0] = d /\ f[0] = <<>>
      BY <1>1, <1>5 DEF Decodes, Joins
    <2>2. FlattenSeq(run[0].batches) = Glue(had, f[0])
      BY <1>4, <2>1, GlueFacts DEF had
    <2> QED
      BY <2>1, <2>2
  <1>7. ASSUME NEW n \in Nat, n \in Good PROVE n + 1 \in Good
    <2> SUFFICES ASSUME n + 1 <= L PROVE run[n + 1].done = d.done /\ Has(n + 1)
      OBVIOUS
    <2> DEFINE i == n + 1
    <2>1. i \in 1..L /\ i - 1 = n /\ n \in 0..L /\ n <= L /\ i \in 0..L
      BY <1>2
    <2>2. run[n].done = d.done /\ Has(n)
      BY <1>7, <2>1
    <2> HIDE DEF i
    <2>3. run[i] = Decode(run[n], frame[i]) /\ run[n] \in Decoders(R) /\ run[i] \in Decoders(R)
      BY <1>1, <2>1 DEF Decodes, L
    <2>4. f[i] = Glue(f[n], rows[i]) /\ f[n] \in Seq(R)
      BY <1>5, <2>1 DEF Joins
    <2>5. /\ run[i].done = run[n].done
          /\ run[n].failed => run[i].failed
          /\ ~run[i].failed => FlattenSeq(run[i].batches) = Glue(FlattenSeq(run[n].batches), rows[i])
      <3>1. frame[i] \in Messages(R) /\ rows[i] = frame[i].rows
        BY <1>2, <1>3, <2>1
      <3> DEFINE e1 == Decode(run[n], frame[i])
      <3>2. /\ e1.done = run[n].done
            /\ run[n].failed => e1.failed
            /\ ~e1.failed =>
                  FlattenSeq(e1.batches) = Glue(FlattenSeq(run[n].batches), frame[i].rows)
        BY <2>3, <3>1, DecodeKeeps
      <3>3. e1 = run[i]
        BY <2>3
      <3> HIDE DEF e1
      <3> QED
        BY <3>1, <3>2, <3>3
    <2>6. Glue(Glue(had, f[n]), rows[i]) = Glue(had, f[i])
      BY <1>3, <1>4, <2>1, <2>4, GlueAssociative
    <2>7. Has(i)
      BY <2>2, <2>5, <2>6
    <2> QED
      BY <2>2, <2>5, <2>7 DEF i
  <1>8. Nat \subseteq Good
    <2> HIDE DEF Good
    <2> QED
      BY <1>6, <1>7, SetInduction
  <1>9. L \in Good /\ L <= L
    <2> HIDE DEF Good
    <2> QED
      BY <1>2, <1>8
  <1>10. e.done = d.done /\ Has(L)
    BY <1>1, <1>9
  <1>11. e \in Decoders(R)
    BY <1>1, <1>2 DEF Decodes, L
  <1> QED
    BY <1>1, <1>5, <1>10, <1>11 DEF rows, had

\* The part of a frame that is read.
Readable(frame) ==
    LET eos == SelectInSeq(frame, IsEndOfStream)
    IN  IF eos = 0 THEN frame ELSE SubSeq(frame, 1, eos - 1)

\* It is a frame.
LEMMA ReadableType ==
    ASSUME NEW R, NEW frame \in Seq(Messages(R))
    PROVE  Readable(frame) \in Seq(Messages(R))
  <1> DEFINE I == {i \in 1..Len(frame) : IsEndOfStream(frame[i])}
             eos == SelectInSeq(frame, IsEndOfStream)
  <1>1. eos = IF I # {} THEN Min(I) ELSE 0
    BY DEF SelectInSeq
  <1>2. eos = 0 \/ eos \in 1..Len(frame)
    <2>1. CASE I = {}
      BY <1>1, <2>1
    <2>2. CASE I # {}
      <3>1. PICK n \in I : \A m \in I : n <= m
        <4>1. I \subseteq Nat
          OBVIOUS
        <4> HIDE DEF I
        <4> QED
          BY <2>2, <4>1, LeastNatural
      <3>2. Min(I) \in I
        BY <3>1 DEF Min
      <3> QED
        BY <1>1, <2>2, <3>2
    <2> QED
      BY <2>1, <2>2
  <1>3. Readable(frame) = IF eos = 0 THEN frame ELSE SubSeq(frame, 1, eos - 1)
    BY DEF Readable
  <1> HIDE DEF eos, I
  <1>4. CASE eos # 0
    <2>1. eos - 1 \in Int /\ \A i \in 1..(eos - 1) : frame[i] \in Messages(R)
      BY <1>2, <1>4
    <2>2. SubSeq(frame, 1, eos - 1) \in Seq(Messages(R))
      BY <2>1, SubSeqProperties
    <2> QED
      BY <1>3, <1>4, <2>2
  <1> QED
    BY <1>3, <1>4

\* ArrowFrameDecoder::PushFrame: unless it fails, the decoder has the rows of the frame after those
\* it had.
LEMMA PushKeeps ==
    ASSUME NEW R, NEW d \in Decoders(R), NEW frame \in Seq(Messages(R))
    PROVE  /\ PushFrame(d, frame) \in Decoders(R)
           /\ RowsOf(frame) \in Seq(R)
           /\ ~PushFrame(d, frame).failed =>
                 /\ ~d.failed
                 /\ FlattenSeq(PushFrame(d, frame).batches)
                      = Glue(FlattenSeq(d.batches), RowsOf(frame))
  <1> DEFINE eos == SelectInSeq(frame, IsEndOfStream)
             read == Readable(frame)
             e == FoldLeft(Decode, d, read)
             ended == eos # 0 /\ ~e.failed
  <1>1. PushFrame(d, frame) = IF d.failed THEN d ELSE [e EXCEPT !.done = @ \/ ended]
    BY DEF PushFrame, Readable
  <1>2. RowsOf(frame) = FlattenSeq(RowsIn(read))
    BY DEF RowsOf, Readable, RowsIn
  <1>3. read \in Seq(Messages(R))
    BY ReadableType
  <1> HIDE DEF eos, read
  <1>4. /\ e \in Decoders(R) /\ e.done = d.done
        /\ ~e.failed => /\ ~d.failed
                        /\ FlattenSeq(e.batches) = Glue(FlattenSeq(d.batches), RowsOf(frame))
    <2> HIDE DEF e
    <2> QED
      BY <1>2, <1>3, FrameKeeps DEF e
  <1>5. RowsOf(frame) \in Seq(R)
    <2>1. \A i \in 1..Len(read) : read[i].rows \in Seq(R)
      BY <1>3, DecoderFields
    <2>2. RowsIn(read) \in Seq(Seq(R))
      <3>1. Len(read) \in Nat
        BY <1>3
      <3> QED
        BY <2>1, <3>1, IsASeq DEF RowsIn
    <2> QED
      BY <1>2, <2>2, FlattenType
  <1> HIDE DEF e, ended
  <1>6. e.done \/ ended \in BOOLEAN
    BY <1>4 DEF Decoders, ended
  <1>7. CASE d.failed
    BY <1>1, <1>5, <1>7
  <1>8. CASE ~d.failed
    <2>1. PushFrame(d, frame) = [e EXCEPT !.done = @ \/ ended]
      BY <1>1, <1>8
    <2>2. /\ PushFrame(d, frame) \in Decoders(R) /\ PushFrame(d, frame).failed = e.failed
          /\ PushFrame(d, frame).batches = e.batches
      BY <1>4, <1>6, <2>1 DEF Decoders
    <2> QED
      BY <1>4, <1>5, <2>2
  <1>9. d.failed \in BOOLEAN
    BY DecoderFields
  <1> QED
    BY <1>7, <1>8, <1>9

--------------------------------------------------------------------------------
(* What is encoded is what is decoded *)

\* A quotient is the number of whole parts.
LEMMA DivFacts ==
    ASSUME NEW a \in Nat, NEW b \in Nat \ {0}
    PROVE  a \div b \in Nat /\ (a \div b) * b <= a /\ a < (a \div b) * b + b
  OBVIOUS

\* The chunks of rows are the rows: none is lost between two of them.
LEMMA ChunksAreRows ==
    ASSUME NEW R, NEW rows \in Seq(R)
    PROVE  Chunks(rows) \in Seq(Seq(R)) /\ FlattenSeq(Chunks(rows)) = rows
  <1> DEFINE L == Len(rows)
             V == VectorSize
             k == (L + V - 1) \div V
             end(i) == IF i * V < L THEN i * V ELSE L
             chunk(i) == SubSeq(rows, (i - 1) * V + 1, end(i))
  <1>1. L \in Nat /\ V \in Nat \ {0} /\ \A i \in 1..L : rows[i] \in R
    BY WriteAssumption
  <1>2. Chunks(rows) = [i \in 1..k |-> chunk(i)]
    BY DEF Chunks
  <1> HIDE DEF L, V
  <1>3. k \in Nat /\ k * V <= L + V - 1 /\ L + V - 1 < k * V + V
    <2>1. L + V - 1 \in Nat
      BY <1>1
    <2> QED
      BY <1>1, <2>1, DivFacts
  <1> HIDE DEF k
  <1>4. ASSUME NEW i \in 1..k
        PROVE  /\ i \in Nat /\ i - 1 \in Nat /\ (i - 1) * V \in Nat /\ (i - 1) * V < L
               /\ end(i) \in (i - 1) * V..L /\ end(i - 1) = (i - 1) * V
    <2>1. i \in Nat /\ i >= 1 /\ i <= k /\ i - 1 \in Nat
      BY <1>3
    <2>2. (i - 1) * V \in Nat /\ i * V \in Nat /\ i * V = (i - 1) * V + V
      BY <1>1, <2>1
    <2>3. i * V <= k * V
      BY <1>1, <1>3, <2>1
    <2>4. k * V \in Nat
      BY <1>1, <1>3
    <2> QED
      BY <1>1, <1>3, <2>1, <2>2, <2>3, <2>4
  <1>5. ASSUME NEW i \in 1..k PROVE chunk(i) \in Seq(R)
    <2>1. (i - 1) * V + 1 \in Int /\ end(i) \in Int
      BY <1>1, <1>4
    <2>2. \A j \in ((i - 1) * V + 1)..end(i) : rows[j] \in R
      BY <1>1, <1>4
    <2> HIDE DEF end
    <2> QED
      BY <2>1, <2>2, SubSeqProperties
  <1> DEFINE chunks == [i \in 1..k |-> chunk(i)]
  <1>6. chunks \in Seq(Seq(R)) /\ Len(chunks) = k
    <2> HIDE DEF chunk
    <2> QED
      BY <1>3, <1>5, IsASeq
  <1>7. PICK f : Joins(R, chunks, k, f) /\ FlattenSeq(chunks) = f[k]
    <2> HIDE DEF chunks
    <2> QED
      BY <1>6, FlattenIs
  <1> DEFINE Good == {n \in Nat : n <= k => f[n] = SubSeq(rows, 1, end(n))}
  <1>8. 0 \in Good
    <2>1. f[0] = <<>>
      BY <1>7 DEF Joins
    <2>2. end(0) = 0
      BY <1>1
    <2>3. SubSeq(rows, 1, 0) = <<>>
      BY SubSeqEmpty
    <2> QED
      BY <2>1, <2>2, <2>3
  <1>9. ASSUME NEW n \in Nat, n \in Good PROVE n + 1 \in Good
    <2> SUFFICES ASSUME n + 1 <= k PROVE f[n + 1] = SubSeq(rows, 1, end(n + 1))
      OBVIOUS
    <2> DEFINE i == n + 1
    <2>1. i \in 1..k /\ i - 1 = n /\ n <= k
      BY <1>3
    <2>2. f[n] = SubSeq(rows, 1, end(n))
      BY <1>9, <2>1
    <2> HIDE DEF i
    <2>3. f[i] = Glue(f[n], chunks[i])
      <3> HIDE DEF chunks
      <3> QED
        BY <1>7, <2>1 DEF Joins
    <2>4. chunks[i] = SubSeq(rows, n * V + 1, end(i))
      BY <2>1
    <2>5. /\ n * V \in 0..L /\ end(i) \in n * V..L /\ end(n) = n * V
      BY <1>1, <1>4, <2>1
    <2> DEFINE p == n * V
               q == end(i)
    <2> HIDE DEF p, q
    <2>6. SubSeq(rows, 1, p) \o SubSeq(rows, p + 1, q) = SubSeq(rows, 1, q)
      <3>1. 1 \in 1..(Len(rows) + 1) /\ p \in (1 - 1)..Len(rows) /\ q \in p..Len(rows)
        BY <1>1, <2>5 DEF L, p, q
      <3> QED
        BY <3>1, ConcatAdjacentSubSeq
    <2>7. f[i] = Glue(SubSeq(rows, 1, p), SubSeq(rows, p + 1, q))
      BY <2>2, <2>3, <2>4, <2>5 DEF p, q
    <2>8. f[i] = SubSeq(rows, 1, end(i))
      BY <2>6, <2>7 DEF Glue, q
    <2> QED
      BY <2>8 DEF i
  <1>10. Nat \subseteq Good
    <2> HIDE DEF Good
    <2> QED
      BY <1>8, <1>9, SetInduction
  <1>11. k \in Good
    <2> HIDE DEF Good
    <2> QED
      BY <1>3, <1>10
  <1>12. f[k] = SubSeq(rows, 1, end(k))
    BY <1>3, <1>11
  <1>13. end(k) = L
    <2>1. k * V \in Nat
      BY <1>1, <1>3
    <2> QED
      BY <1>1, <1>3, <2>1
  <1>14. SubSeq(rows, 1, L) = rows
    BY SubSeqFull DEF L
  <1> QED
    BY <1>2, <1>6, <1>7, <1>12, <1>13, <1>14

\* The messages of an encoded stream.
LEMMA EncodeIs ==
    ASSUME NEW R, NEW chunks \in Seq(Seq(R))
    PROVE  /\ Encode(chunks) \in Seq(Messages(R)) /\ Len(Encode(chunks)) = Len(chunks) + 2
           /\ Encode(chunks)[1] = [type |-> "schema", rows |-> <<>>]
           /\ \A i \in 1..Len(chunks) : Encode(chunks)[i + 1] = [type |-> "batch", rows |-> chunks[i]]
           /\ Encode(chunks)[Len(chunks) + 2] = [type |-> "eos", rows |-> <<>>]
  <1> DEFINE n == Len(chunks)
             M == Messages(R)
             first == [type |-> "schema", rows |-> <<>>]
             last == [type |-> "eos", rows |-> <<>>]
             b == [i \in 1..n |-> [type |-> "batch", rows |-> chunks[i]]]
  <1>1. n \in Nat /\ \A i \in 1..n : chunks[i] \in Seq(R)
    OBVIOUS
  <1>2. first \in M /\ last \in M /\ \A i \in 1..n : [type |-> "batch", rows |-> chunks[i]] \in M
    BY <1>1 DEF Messages
  <1>3. b \in Seq(M) /\ Len(b) = n
    <2> HIDE DEF M
    <2> QED
      BY <1>1, <1>2, IsASeq
  <1>5. \A i \in 1..n : b[i] = [type |-> "batch", rows |-> chunks[i]]
    OBVIOUS
  <1>4. Encode(chunks) = <<first>> \o b \o <<last>>
    BY DEF Encode
  <1> HIDE DEF n, M, first, last, b
  <1>6. <<first>> \in Seq(M) /\ <<last>> \in Seq(M) /\ Len(<<first>>) = 1 /\ Len(<<last>>) = 1
        /\ <<first>>[1] = first /\ <<last>>[1] = last
    BY <1>2
  <1> DEFINE s == <<first>> \o b
  <1>7. /\ s \in Seq(M) /\ Len(s) = n + 1 /\ s[1] = first /\ \A i \in 1..n : s[i + 1] = b[i]
    <2>1. /\ s \in Seq(M) /\ Len(s) = 1 + n
          /\ \A i \in 1..(1 + n) : s[i] = IF i <= 1 THEN <<first>>[i] ELSE b[i - 1]
      BY <1>3, <1>6, ConcatProperties
    <2> HIDE DEF s
    <2>2. ASSUME NEW i \in 1..n PROVE s[i + 1] = b[i]
      <3>1. i + 1 \in 1..(1 + n) /\ ~(i + 1 <= 1) /\ (i + 1) - 1 = i
        BY <1>1
      <3> QED
        BY <2>1, <3>1
    <2>3. 1 \in 1..(1 + n) /\ s[1] = first
      BY <1>1, <1>6, <2>1
    <2> QED
      BY <1>1, <2>1, <2>2, <2>3
  <1> HIDE DEF s
  <1> DEFINE e == s \o <<last>>
  <1>8. /\ e \in Seq(M) /\ Len(e) = n + 2
        /\ \A i \in 1..(n + 2) : e[i] = IF i <= n + 1 THEN s[i] ELSE <<last>>[i - (n + 1)]
    <2>1. /\ e \in Seq(M) /\ Len(e) = (n + 1) + 1
          /\ \A i \in 1..((n + 1) + 1) : e[i] = IF i <= n + 1 THEN s[i] ELSE <<last>>[i - (n + 1)]
      BY <1>6, <1>7, ConcatProperties
    <2>2. (n + 1) + 1 = n + 2
      BY <1>1
    <2> HIDE DEF e
    <2> QED
      BY <2>1, <2>2
  <1>9. Encode(chunks) = e
    BY <1>4 DEF s
  <1> HIDE DEF e
  <1>10. e[1] = first
    BY <1>1, <1>7, <1>8
  <1>11. ASSUME NEW i \in 1..n PROVE e[i + 1] = b[i]
    <2>1. i + 1 \in 1..(n + 2) /\ i + 1 <= n + 1
      BY <1>1
    <2> QED
      BY <1>7, <1>8, <2>1
  <1>12. e[n + 2] = last
    <2> DEFINE i == n + 2
    <2>1. i \in 1..(n + 2) /\ ~(i <= n + 1) /\ i - (n + 1) = 1
      BY <1>1
    <2> HIDE DEF i
    <2>2. e[i] = last
      BY <1>6, <1>8, <2>1
    <2> QED
      BY <2>2 DEF i
  <1> QED
    BY <1>5, <1>8, <1>9, <1>10, <1>11, <1>12 DEF n, M, first, last

\* An encoded stream is read up to its last message.
LEMMA EncodeReadable ==
    ASSUME NEW R, NEW chunks \in Seq(Seq(R))
    PROVE  Readable(Encode(chunks)) = SubSeq(Encode(chunks), 1, Len(chunks) + 1)
  <1> DEFINE n == Len(chunks)
             F == Encode(chunks)
             eos == SelectInSeq(F, IsEndOfStream)
             I == {i \in 1..Len(F) : IsEndOfStream(F[i])}
  <1>1. n \in Nat
    OBVIOUS
  <1>2. /\ Len(F) = n + 2 /\ F[1].type = "schema" /\ \A i \in 1..n : F[i + 1].type = "batch"
        /\ F[n + 2].type = "eos"
    <2>1. /\ Len(F) = n + 2 /\ F[1] = [type |-> "schema", rows |-> <<>>]
          /\ \A i \in 1..n : F[i + 1] = [type |-> "batch", rows |-> chunks[i]]
          /\ F[n + 2] = [type |-> "eos", rows |-> <<>>]
      BY EncodeIs
    <2> HIDE DEF F, n
    <2>2. ASSUME NEW i \in 1..n PROVE F[i + 1].type = "batch"
      <3>1. F[i + 1] = [type |-> "batch", rows |-> chunks[i]]
        BY <2>1
      <3> QED
        BY <3>1
    <2> QED
      BY <2>1, <2>2
  <1>3. eos = IF I # {} THEN Min(I) ELSE 0
    BY DEF SelectInSeq
  <1>4. Readable(F) = IF eos = 0 THEN F ELSE SubSeq(F, 1, eos - 1)
    BY DEF Readable
  <1> HIDE DEF n, F, eos
  <1>5. I = {n + 2}
    <2>1. ASSUME NEW i \in I PROVE i = n + 2
      <3>1. i \in 1..(n + 2) /\ F[i].type = "eos"
        BY <1>2 DEF IsEndOfStream
      <3>2. i # 1
        BY <1>2, <3>1
      <3>3. i - 1 \in 1..n => F[(i - 1) + 1].type = "batch"
        BY <1>2
      <3> QED
        BY <1>1, <3>1, <3>2, <3>3
    <2>2. n + 2 \in I
      BY <1>1, <1>2 DEF IsEndOfStream
    <2> HIDE DEF I
    <2> QED
      BY <2>1, <2>2
  <1>6. Min(I) = n + 2
    <2> HIDE DEF I
    <2>1. \E x \in I : \A y \in I : x <= y
      BY <1>1, <1>5
    <2> QED
      BY <1>5, <2>1 DEF Min
  <1> HIDE DEF I
  <1>8. eos = n + 2
    BY <1>3, <1>5, <1>6
  <1>7. eos # 0 /\ eos - 1 = n + 1
    BY <1>1, <1>8
  <1>9. Readable(F) = SubSeq(F, 1, n + 1)
    BY <1>4, <1>7
  <1> QED
    BY <1>9 DEF n, F

\* provider_arrow.cpp, EncodeChunksAsIpc: who decodes the stream gets the rows of the chunks.
LEMMA EncodedIsDecoded ==
    ASSUME NEW R, NEW chunks \in Seq(Seq(R))
    PROVE  FlattenSeq(PushFrame(NewDecoder, Encode(chunks)).batches) = FlattenSeq(chunks)
  <1> DEFINE n == Len(chunks)
             F == Encode(chunks)
             read == SubSeq(F, 1, n + 1)
             d == PushFrame(NewDecoder, F)
             e == FoldLeft(Decode, NewDecoder, read)
             rows == RowsIn(read)
  <1>1. n \in Nat /\ \A i \in 1..n : chunks[i] \in Seq(R)
    OBVIOUS
  <1>2. /\ F \in Seq(Messages(R)) /\ Len(F) = n + 2
        /\ F[1] = [type |-> "schema", rows |-> <<>>]
        /\ \A i \in 1..n : F[i + 1] = [type |-> "batch", rows |-> chunks[i]]
    BY EncodeIs
  <1>3. Readable(F) = read
    BY EncodeReadable
  <1>4. NewDecoder \in Decoders(R) /\ NewDecoder.batches = <<>> /\ ~NewDecoder.failed
    BY DecoderFields DEF NewDecoder
  <1> HIDE DEF n, F
  <1>5. /\ read \in Seq(Messages(R)) /\ Len(read) = n + 1
        /\ \A i \in 1..(n + 1) : read[i] = F[i]
    <2> DEFINE m == n + 1
    <2>1. m \in Int /\ m >= 1 /\ \A i \in 1..m : F[i] \in Messages(R)
      BY <1>1, <1>2
    <2>2. read = SubSeq(F, 1, m)
      OBVIOUS
    <2> HIDE DEF m, read
    <2>3. /\ read \in Seq(Messages(R)) /\ Len(read) = IF 1 <= m THEN m - 1 + 1 ELSE 0
          /\ \A i \in 1..(m - 1 + 1) : read[i] = F[1 + i - 1]
      BY <2>1, <2>2, SubSeqProperties
    <2>4. m - 1 + 1 = m /\ \A i \in 1..m : 1 + i - 1 = i
      BY <2>1
    <2>5. \A i \in 1..m : read[i] = F[i]
      BY <2>3, <2>4
    <2> QED
      BY <2>1, <2>3, <2>4, <2>5 DEF m
  <1>6. d.failed = e.failed
    <2>1. e \in Decoders(R)
      <3> HIDE DEF e, read
      <3> QED
        BY <1>4, <1>5, FrameKeeps DEF e
    <2>2. d = [e EXCEPT !.done = @ \/ (SelectInSeq(F, IsEndOfStream) # 0 /\ ~e.failed)]
      BY <1>3, <1>4 DEF PushFrame, Readable
    <2> HIDE DEF e, d
    <2> QED
      BY <2>1, <2>2 DEF Decoders
  <1> HIDE DEF read
  <1>7. PICK run : Decodes(R, NewDecoder, read, run) /\ e = run[n + 1]
    BY <1>4, <1>5, DecodeRuns
  <1> HIDE DEF e, d
  <1> DEFINE Good == {i \in Nat : i <= n => HasSchema(run[i + 1]) /\ ~run[i + 1].failed}
  <1>8. 0 \in Good
    <2>1. 1 \in 1..Len(read) /\ 1 - 1 = 0 /\ read[1] = [type |-> "schema", rows |-> <<>>]
      BY <1>1, <1>2, <1>5
    <2>2. run[1] = Decode(NewDecoder, read[1])
      BY <1>7, <2>1 DEF Decodes
    <2>3. HasSchema(run[1]) /\ ~run[1].failed
      <3>1. read[1].type = "schema"
        BY <2>1
      <3>2. /\ ~NewDecoder.failed /\ ~SchemaIsRefused(NewDecoder, read[1])
            /\ ~ComesTooEarly(NewDecoder, read[1])
        BY <3>1 DEF NewDecoder, SchemaIsRefused, ComesTooEarly, HasSchema
      <3>3. run[1] = [NewDecoder EXCEPT !.schema = IF read[1].type \in Layouts THEN read[1].type ELSE @,
                                        !.batches = @]
        BY <2>2, <3>1, <3>2 DEF Decode
      <3> QED
        BY <1>4, <3>1, <3>3 DEF Decoders, Layouts, HasSchema
    <2> QED
      BY <2>3
  <1>9. ASSUME NEW i \in Nat, i \in Good PROVE i + 1 \in Good
    <2> SUFFICES ASSUME i + 1 <= n PROVE HasSchema(run[(i + 1) + 1]) /\ ~run[(i + 1) + 1].failed
      OBVIOUS
    <2> DEFINE j == i + 1
               k == j + 1
    <2>1. j \in 1..n /\ k \in 1..(n + 1) /\ k - 1 = j /\ i <= n /\ j \in 0..(n + 1)
      BY <1>1
    <2>2. HasSchema(run[j]) /\ ~run[j].failed
      BY <1>9, <2>1
    <2>3. read[k].type = "batch"
      <3>1. F[j + 1] = [type |-> "batch", rows |-> chunks[j]]
        BY <1>2, <2>1
      <3> QED
        BY <1>5, <2>1, <3>1
    <2> HIDE DEF j, k
    <2>4. run[k] = Decode(run[j], read[k]) /\ run[j] \in Decoders(R)
      BY <1>5, <1>7, <2>1 DEF Decodes
    <2>5. HasSchema(run[k]) /\ ~run[k].failed
      <3>1. Decode(run[j], read[k])
               = [run[j] EXCEPT !.schema = IF read[k].type \in Layouts THEN read[k].type ELSE @,
                                !.batches = Append(@, read[k].rows)]
        BY <2>2, <2>3 DEF Decode, SchemaIsRefused, ComesTooEarly, Layouts
      <3> QED
        BY <2>2, <2>3, <2>4, <3>1 DEF Decoders, Layouts, HasSchema
    <2> QED
      BY <2>5 DEF j, k
  <1>10. Nat \subseteq Good
    <2> HIDE DEF Good
    <2> QED
      BY <1>8, <1>9, SetInduction
  <1>11. n \in Good /\ n <= n
    <2> HIDE DEF Good
    <2> QED
      BY <1>1, <1>10
  <1>12. ~d.failed
    BY <1>6, <1>7, <1>11
  <1>13. FlattenSeq(d.batches) = Glue(FlattenSeq(<<>>), RowsOf(F)) /\ RowsOf(F) \in Seq(R)
    BY <1>2, <1>4, <1>12, PushKeeps DEF d
  <1>14. FlattenSeq(<<>>) = <<>>
    <2>1. <<>> \in Seq(Seq(R))
      OBVIOUS
    <2> QED
      BY <2>1, FlattenType
  <1>15. FlattenSeq(d.batches) = RowsOf(F)
    BY <1>13, <1>14, GlueFacts
  <1>16. RowsOf(F) = FlattenSeq(rows)
    BY <1>3 DEF RowsOf, Readable, RowsIn
  <1>17. /\ rows \in Seq(Seq(R)) /\ Len(rows) = n + 1 /\ rows[1] = <<>>
         /\ \A i \in 1..n : rows[i + 1] = chunks[i]
    <2>1. \A i \in 1..Len(read) : read[i].rows \in Seq(R)
      BY <1>5, DecoderFields
    <2>2. rows \in Seq(Seq(R)) /\ Len(rows) = n + 1
      <3>1. n + 1 \in Nat
        BY <1>1
      <3>2. Len(read) = n + 1
        BY <1>5
      <3>3. rows = [i \in 1..(n + 1) |-> read[i].rows]
        BY <3>2 DEF RowsIn
      <3>4. \A i \in 1..(n + 1) : read[i].rows \in Seq(R)
        BY <2>1, <3>2
      <3>5. [i \in 1..(n + 1) |-> read[i].rows] \in Seq(Seq(R))
        BY ONLY <3>1, <3>4, IsASeq, SMTT(30)
      <3> HIDE DEF n, rows
      <3> QED
        BY <3>1, <3>3, <3>5
    <2>3. \A i \in 1..(n + 1) : rows[i] = F[i].rows
      BY <1>5 DEF RowsIn
    <2> HIDE DEF rows
    <2>4. rows[1] = <<>>
      BY <1>1, <1>2, <2>3
    <2>5. ASSUME NEW i \in 1..n PROVE rows[i + 1] = chunks[i]
      <3>1. i + 1 \in 1..(n + 1)
        BY <1>1
      <3>2. F[i + 1] = [type |-> "batch", rows |-> chunks[i]]
        BY <1>2
      <3> QED
        BY <2>3, <3>1, <3>2
    <2> QED
      BY <2>2, <2>4, <2>5
  <1> HIDE DEF rows
  <1>18. Tail(rows) = chunks /\ Head(rows) = <<>> /\ rows # <<>>
    <2>1. rows # <<>>
      BY <1>1, <1>17
    <2>2. Tail(rows) \in Seq(Seq(R)) /\ Len(Tail(rows)) = n /\ \A i \in 1..n : Tail(rows)[i] = chunks[i]
      <3>1. /\ Tail(rows) \in Seq(Seq(R)) /\ Len(Tail(rows)) = Len(rows) - 1
            /\ \A i \in 1..Len(Tail(rows)) : Tail(rows)[i] = rows[i + 1]
        BY <1>17, <2>1, HeadTailProperties
      <3>2. Len(Tail(rows)) = n
        BY <1>1, <1>17, <3>1
      <3> QED
        BY <1>17, <3>1, <3>2
    <2>3. Tail(rows) = chunks
      BY <2>2, SeqEqual DEF n
    <2>4. Head(rows) = rows[1]
      BY <1>17, <2>1
    <2> QED
      BY <1>17, <2>1, <2>3, <2>4
  <1>19. FlattenSeq(rows) = FlattenSeq(chunks)
    <2>1. FlattenSeq(chunks) \in Seq(R)
      BY FlattenType
    <2>2. FlattenSeq(rows) = Glue(<<>>, FlattenSeq(chunks))
      BY <1>17, <1>18, FlattenHead
    <2> QED
      BY <2>1, <2>2, GlueFacts
  <1> QED
    BY <1>15, <1>16, <1>19 DEF d, F

--------------------------------------------------------------------------------
(* The inductive invariant of the streams *)

\* The generator g of a call c that opened it: it is closed as often as the call says, and what the
\* call has delivered and still holds is what the generator has sent.
Serves(c, g) ==
    /\ g \in OpenGenerators /\ g.does.schema # None /\ g.pos <= Len(g.does.answers)
    /\ g.closes = IF c.closed THEN 1 ELSE 0
    /\ ~c.decoder.failed => Glue(c.got, FlattenSeq(c.decoder.batches)) = RowsSent(g, g.pos)
    /\ c.exhausted => /\ c.decoder.batches = <<>> /\ ~c.decoder.failed
                      /\ g.pos = Len(g.does.answers) \/ c.decoder.done

\* The steps of a call whose stream is open and sound.
InUse == {"opened", "bound", "reading", "pulling", "ended"}

\* A call, of the n that have begun, with its generator among gs.
Sound(c, gs, n) ==
    /\ c.step = "none" => c = NoCall
    /\ c.step # "none" => c.host \in Hosts /\ c.handle \in 1..n
    /\ c.step = "opening" => ~c.opened /\ c.decoder = NewDecoder /\ c.got = <<>>
    /\ c.step \in InUse => c.opened /\ ~c.decoder.failed
    /\ c.step = "pulling" => c.decoder.batches = <<>>
    /\ c.exhausted => c.opened /\ c.step \in {"ended", "gone"}
    /\ c.closed => c.opened
    /\ c.opened => Serves(c, gs[c.handle])

Begun == {s \in Scans : call[s].step # "none"}

\* No two calls have a handle in common.
HandlesDiffer == \A s, t \in Begun : s # t => call[s].handle # call[t].handle

\* The generator under handle n is a call's.
Owned(n) == \E s \in Scans : call[s].opened /\ call[s].handle = n

StreamInv ==
    /\ StreamTypeOK
    /\ counter = Cardinality(Begun) /\ HandlesDiffer
    /\ \A s \in Scans : Sound(call[s], gens, counter)
    /\ \A h \in Hosts : \A n \in live[h] : Owned(n)
    /\ \A n \in Handles : gens[n] # None => Owned(n)

--------------------------------------------------------------------------------
(* What a generator has sent *)

\* What the generators of the model are made of.
LEMMA GeneratorFields ==
    ASSUME NEW g \in OpenGenerators
    PROVE  /\ g.does.answers \in Seq(Answers(Rows)) /\ Len(g.does.answers) \in Nat
           /\ g.does.schema # None => g.does.schema \in Seq(Messages(Rows))
           /\ g.pos \in Nat /\ g.closes \in Nat
  <1>1. g.does \in Generator
    BY StreamAssumption DEF OpenGenerators
  <1> QED
    BY <1>1 DEF OpenGenerators, Generator

\* A frame, or what stands for one where the function raised.
LEMMA AnswerFields ==
    ASSUME NEW R, NEW a \in Answers(R)
    PROVE  a.frame \in Seq(Messages(R)) /\ (a.is # "frame" => a.frame = <<>>)
  <1>1. <<>> \in Seq(Messages(R))
    OBVIOUS
  <1> QED
    BY <1>1 DEF Answers

\* A function over no index is the empty sequence.
LEMMA NoIndex ==
    ASSUME NEW f, f = [i \in 1..0 |-> f[i]]
    PROVE  f = <<>>
  <1>1. f \in Seq({}) /\ Len(f) = 0
    OBVIOUS
  <1> QED
    BY <1>1, EmptySeq

\* An empty frame has no rows.
LEMMA NoRows == RowsOf(<<>>) = <<>>
  <1>1. Len(<<>>) = 0 /\ 1..Len(<<>>) = {}
    OBVIOUS
  <1>2. SelectInSeq(<<>>, IsEndOfStream) = 0
    BY <1>1 DEF SelectInSeq
  <1>3. RowsOf(<<>>) = FlattenSeq([i \in 1..Len(<<>>) |-> <<>>[i].rows])
    BY <1>2 DEF RowsOf
  <1> DEFINE f == [i \in 1..Len(<<>>) |-> <<>>[i].rows]
  <1>4. f = <<>>
    <2>1. f = [i \in 1..0 |-> f[i]]
      BY <1>1
    <2> HIDE DEF f
    <2> QED
      BY <2>1, NoIndex
  <1>5. FlattenSeq(<<>>) = <<>>
    <2>1. <<>> \in Seq(Seq({}))
      OBVIOUS
    <2> QED
      BY <2>1, FlattenType
  <1> HIDE DEF f
  <1> QED
    BY <1>3, <1>4, <1>5 DEF f

\* RowsSent grows by the rows of one answer at a time.
LEMMA SentGrows ==
    ASSUME NEW g \in OpenGenerators, g.does.schema # None,
           NEW n \in Nat, n <= Len(g.does.answers)
    PROVE  /\ RowsSent(g, n) \in Seq(Rows)
           /\ n = 0 => RowsSent(g, n) = RowsOf(g.does.schema)
           /\ n + 1 <= Len(g.does.answers) =>
                 RowsSent(g, n + 1) = Glue(RowsSent(g, n), RowsOf(g.does.answers[n + 1].frame))
  <1> DEFINE a == g.does.answers
             schema == g.does.schema
             some(k) == [i \in 1..k |-> RowsOf(a[i].frame)]
  <1>1. a \in Seq(Answers(Rows)) /\ Len(a) \in Nat /\ schema \in Seq(Messages(Rows))
    BY GeneratorFields
  <1>2. \A k : RowsSent(g, k) = Glue(RowsOf(schema), FlattenSeq(some(k)))
    BY DEF RowsSent, Glue
  <1> HIDE DEF a, schema
  <1>3. RowsOf(schema) \in Seq(Rows)
    BY <1>1, DecoderFields, PushKeeps
  <1>4. ASSUME NEW i \in 1..Len(a) PROVE RowsOf(a[i].frame) \in Seq(Rows)
    <2>1. a[i] \in Answers(Rows)
      BY <1>1
    <2>2. a[i].frame \in Seq(Messages(Rows))
      BY <2>1, AnswerFields
    <2> QED
      BY <2>2, DecoderFields, PushKeeps
  <1>5. ASSUME NEW k \in Nat, k <= Len(a)
        PROVE  /\ some(k) \in Seq(Seq(Rows)) /\ Len(some(k)) = k
               /\ \A i \in 1..k : some(k)[i] = RowsOf(a[i].frame)
    <2>1. \A i \in 1..k : RowsOf(a[i].frame) \in Seq(Rows)
      BY <1>1, <1>4, <1>5
    <2> QED
      BY <2>1, IsASeq
  <1>6. n <= Len(a)
    BY DEF a
  <1>7. FlattenSeq(some(n)) \in Seq(Rows)
    <2> HIDE DEF some
    <2> QED
      BY <1>5, <1>6, FlattenType
  <1>8. RowsSent(g, n) \in Seq(Rows)
    <2> HIDE DEF some
    <2> QED
      BY <1>2, <1>3, <1>7, GlueFacts
  <1>9. ASSUME n = 0 PROVE RowsSent(g, n) = RowsOf(schema)
    <2>1. some(n) = <<>>
      <3>1. some(n) = [i \in 1..0 |-> some(n)[i]]
        BY <1>9
      <3> HIDE DEF some
      <3> QED
        BY <3>1, NoIndex
    <2> HIDE DEF some
    <2>2. FlattenSeq(some(n)) = <<>>
      BY <1>5, <1>6, <2>1, FlattenType
    <2> QED
      BY <1>2, <1>3, <2>2, GlueFacts
  <1>10. ASSUME n + 1 <= Len(a)
         PROVE  RowsSent(g, n + 1) = Glue(RowsSent(g, n), RowsOf(a[n + 1].frame))
    <2> DEFINE m == n + 1
    <2>1. m \in Nat /\ m <= Len(a) /\ m \in 1..m /\ m \in 1..Len(a)
      BY <1>10, <1>1
    <2>2. /\ some(m) \in Seq(Seq(Rows)) /\ Len(some(m)) = m
          /\ \A i \in 1..m : some(m)[i] = RowsOf(a[i].frame)
      <3> HIDE DEF m, some
      <3> QED
        BY <1>5, <2>1
    <2>3. /\ some(n) \in Seq(Seq(Rows)) /\ Len(some(n)) = n
          /\ \A i \in 1..n : some(n)[i] = RowsOf(a[i].frame)
      <3> HIDE DEF m, some
      <3> QED
        BY <1>5, <1>6
    <2> HIDE DEF some
    <2>4. \A i \in 1..n : some(m)[i] = some(n)[i]
      <3>1. \A i \in 1..n : i \in 1..m
        OBVIOUS
      <3> HIDE DEF m
      <3> QED
        BY <2>2, <2>3, <3>1
    <2>5. FlattenSeq(some(m)) = Glue(FlattenSeq(some(n)), some(m)[m])
      <3> DEFINE t == some(m)
                 u == some(n)
      <3>1. t \in Seq(Seq(Rows)) /\ u \in Seq(Seq(Rows)) /\ Len(t) = Len(u) + 1 /\ Len(t) = m
        BY <2>2, <2>3
      <3>2. \A i \in 1..Len(u) : t[i] = u[i]
        BY <2>3, <2>4
      <3> HIDE DEF t, u, m
      <3>3. FlattenSeq(t) = Glue(FlattenSeq(u), t[Len(t)])
        BY <3>1, <3>2, FlattenAppend
      <3> QED
        BY <3>1, <3>3 DEF t, u
    <2>6. some(m)[m] = RowsOf(a[m].frame) /\ RowsOf(a[m].frame) \in Seq(Rows)
      BY <1>4, <2>1, <2>2
    <2> HIDE DEF m
    <2>7. RowsSent(g, m) = Glue(RowsSent(g, n), RowsOf(a[m].frame))
      BY <1>2, <1>3, <1>7, <2>5, <2>6, GlueAssociative
    <2> QED
      BY <2>7 DEF m
  <1> QED
    BY <1>8, <1>9, <1>10 DEF a, schema

--------------------------------------------------------------------------------
(* One call goes on *)

Handle(s) == call[s].handle

\* The call of s, which has begun, goes on: nothing changes but it, its generator and who knows of
\* its generator.
Continues(s) ==
    /\ s \in Begun /\ UNCHANGED <<entry, host, counter>>
    /\ call'[s] \in Calls /\ call' = [call EXCEPT ![s] = call'[s]]
    /\ call'[s].step # "none" /\ call'[s].handle = Handle(s)
    /\ call[s].opened => call'[s].opened
    /\ gens' \in [Handles -> OpenGenerators \cup {None}]
    /\ \A n \in Handles : gens'[n] = gens[n] \/ (n = Handle(s) /\ call'[s].opened)
    /\ live' \in [Hosts -> SUBSET Handles]
    /\ \A h \in Hosts : \A n \in live'[h] : n \in live[h] \/ (n = Handle(s) /\ call'[s].opened)

\* What the invariant says of one call.
LEMMA OneCall ==
    ASSUME StreamInv, NEW s \in Scans
    PROVE  /\ call[s] \in Calls /\ Sound(call[s], gens, counter)
           /\ call[s].opened => s \in Begun
           /\ s \in Begun => Handle(s) \in Handles
  <1>1. call[s] \in Calls /\ Sound(call[s], gens, counter) /\ counter \in 0..Cardinality(Scans)
    BY DEF StreamInv, StreamTypeOK
  <1>2. call[s].opened => s \in Begun
    BY <1>1 DEF Sound, NoCall, Begun
  <1>3. Cardinality(Scans) \in Nat
    BY StreamAssumption, FS_CardinalityType
  <1>4. s \in Begun => Handle(s) \in Handles
    BY <1>1, <1>3 DEF Sound, Begun, Handle, Handles
  <1> QED
    BY <1>1, <1>2, <1>4

\* If it stays sound, so does everything.
LEMMA CallGoesOn ==
    ASSUME StreamInv, NEW s \in Scans, Continues(s), Sound(call'[s], gens', counter)
    PROVE  StreamInv'
  <1>1. \A t \in Scans : call'[t] = IF t = s THEN call'[s] ELSE call[t]
    BY DEF Continues, StreamInv, StreamTypeOK
  <1>2. StreamTypeOK'
    <2>1. call' \in [Scans -> Calls]
      BY DEF Continues, StreamInv, StreamTypeOK
    <2> QED
      BY <2>1 DEF Continues, StreamInv, StreamTypeOK
  <1>3. Begun' = Begun
    <2>1. \A t \in Scans : call'[t].step # "none" <=> call[t].step # "none"
      BY <1>1 DEF Continues, Begun
    <2> QED
      BY <2>1 DEF Begun
  <1>4. counter' = counter /\ counter' = Cardinality(Begun')
    BY <1>3 DEF StreamInv, Continues
  <1>5. \A t \in Begun : call'[t].handle = call[t].handle
    BY <1>1 DEF Continues, Handle, Begun
  <1>6. HandlesDiffer'
    BY <1>3, <1>5 DEF StreamInv, HandlesDiffer
  <1>7. ASSUME NEW t \in Scans PROVE Sound(call'[t], gens', counter')
    <2>1. CASE t = s
      BY <1>4, <2>1
    <2>2. CASE t # s
      <3>1. call'[t] = call[t] /\ Sound(call[t], gens, counter)
        BY <1>1, <2>2 DEF StreamInv
      <3>2. call[t].opened => gens'[call[t].handle] = gens[call[t].handle]
        <4> SUFFICES ASSUME call[t].opened PROVE gens'[call[t].handle] = gens[call[t].handle]
          OBVIOUS
        <4>1. t \in Begun /\ s \in Begun /\ call[t].handle \in Handles
          BY OneCall DEF Continues, Handle
        <4>2. call[t].handle # Handle(s)
          BY <2>2, <4>1 DEF StreamInv, HandlesDiffer, Handle
        <4> QED
          BY <4>1, <4>2 DEF Continues
      <3>3. Sound(call[t], gens', counter)
        BY <3>1, <3>2 DEF Sound
      <3> QED
        BY <1>4, <3>1, <3>3
    <2> QED
      BY <2>1, <2>2
  <1>8. \A n : Owned(n) => Owned(n)'
    BY <1>1, <1>5, OneCall DEF Owned, Continues, Handle
  <1>9. \A n : n = Handle(s) /\ call'[s].opened => Owned(n)'
    BY DEF Owned, Continues
  <1>10. ASSUME NEW h \in Hosts, NEW n \in live'[h] PROVE Owned(n)'
    <2>1. n \in live[h] \/ (n = Handle(s) /\ call'[s].opened)
      BY DEF Continues
    <2>2. n \in live[h] => Owned(n)
      BY DEF StreamInv
    <2> QED
      BY <1>8, <1>9, <2>1, <2>2
  <1>11. ASSUME NEW n \in Handles, gens'[n] # None PROVE Owned(n)'
    <2>1. gens'[n] = gens[n] \/ (n = Handle(s) /\ call'[s].opened)
      BY DEF Continues
    <2>2. gens[n] # None => Owned(n)
      BY DEF StreamInv
    <2> QED
      BY <1>8, <1>9, <1>11, <2>1, <2>2
  <1> QED
    BY <1>2, <1>4, <1>6, <1>7, <1>10, <1>11 DEF StreamInv

\* A call that leaves its generator alone goes on.
LEMMA LeavesGenerator ==
    ASSUME StreamInv, NEW s \in Begun, NEW c \in Calls, call' = [call EXCEPT ![s] = c],
           UNCHANGED <<entry, host, live, gens, counter>>,
           c.step # "none", c.handle = Handle(s), call[s].opened => c.opened
    PROVE  Continues(s) /\ call'[s] = c
  <1>1. s \in Scans
    BY DEF Begun
  <1>2. call'[s] = c
    BY <1>1 DEF StreamInv, StreamTypeOK
  <1>3. gens' \in [Handles -> OpenGenerators \cup {None}] /\ live' \in [Hosts -> SUBSET Handles]
    BY DEF StreamInv, StreamTypeOK
  <1> QED
    BY <1>2, <1>3 DEF Continues

\* The fields of a call.
LEMMA CallFields ==
    ASSUME NEW c \in Calls
    PROVE  /\ c.decoder \in Decoders(Rows) /\ c.got \in Seq(Rows)
           /\ c.opened \in BOOLEAN /\ c.exhausted \in BOOLEAN /\ c.closed \in BOOLEAN
  BY DEF Calls

\* A step that changes only how far a call has come.
LEMMA OnlyStep ==
    ASSUME StreamInv, NEW s \in Begun, NEW step \in {"bound", "reading", "ended", "broken"},
           call' = [call EXCEPT ![s].step = step], UNCHANGED <<entry, host, live, gens, counter>>,
           step # "broken" => call[s].opened /\ ~call[s].decoder.failed,
           step # "ended" => ~call[s].exhausted
    PROVE  StreamInv'
  <1> DEFINE c == [call[s] EXCEPT !.step = step]
  <1>1. s \in Scans /\ call[s] \in Calls /\ Sound(call[s], gens, counter)
    BY OneCall DEF Begun
  <1>2. /\ c \in Calls /\ c.step = step /\ c.host = call[s].host /\ c.handle = call[s].handle
        /\ c.opened = call[s].opened /\ c.exhausted = call[s].exhausted
        /\ c.closed = call[s].closed /\ c.decoder = call[s].decoder /\ c.got = call[s].got
    BY <1>1 DEF Calls
  <1>3. call' = [call EXCEPT ![s] = c]
    BY <1>1 DEF StreamInv, StreamTypeOK
  <1> HIDE DEF c
  <1>4. Continues(s) /\ call'[s] = c
    BY <1>2, <1>3, LeavesGenerator DEF Handle
  <1>5. call[s].step # "none"
    BY DEF Begun
  <1>6. c.opened => Serves(c, gens[c.handle])
    BY <1>1, <1>2 DEF Sound, Serves
  <1>7. Sound(c, gens, counter)
    BY <1>1, <1>2, <1>5, <1>6 DEF Sound, InUse
  <1> QED
    BY <1>1, <1>4, <1>7, CallGoesOn

\* No stream moves.
LEMMA Unchanged ==
    ASSUME StreamInv, UNCHANGED <<entry, host, live, gens, counter, call>>
    PROVE  StreamInv'
  BY DEF StreamInv, StreamTypeOK, Begun, HandlesDiffer, Owned

\* A call that has opened its generator changes it, or who knows of it.
LEMMA UsesGenerator ==
    ASSUME StreamInv, NEW s \in Begun, NEW c \in Calls, call' = [call EXCEPT ![s] = c],
           UNCHANGED <<entry, host, counter>>,
           gens' \in [Handles -> OpenGenerators \cup {None}],
           \A n \in Handles : n # Handle(s) => gens'[n] = gens[n],
           live' \in [Hosts -> SUBSET Handles],
           \A h \in Hosts : live'[h] \subseteq live[h] \cup {Handle(s)},
           c.step # "none", c.handle = Handle(s), c.opened
    PROVE  Continues(s) /\ call'[s] = c
  <1>1. s \in Scans
    BY DEF Begun
  <1>2. call'[s] = c
    BY <1>1 DEF StreamInv, StreamTypeOK
  <1> QED
    BY <1>2 DEF Continues

\* CloseOnce: whoever closes counts it, and counts it once.
LEMMA ClosesOnce ==
    ASSUME StreamInv, NEW s \in Begun, NEW c \in Calls,
           NEW gs \in [Handles -> OpenGenerators \cup {None}],
           \A n \in Handles : n # Handle(s) => gs[n] = gens[n],
           c.step \in {"ended", "gone"}, c.handle = Handle(s), c.opened, Sound(c, gs, counter),
           CloseOnce(s, c, gs), UNCHANGED <<entry, host, counter>>
    PROVE  StreamInv'
  <1> DEFINE n == Handle(s)
             g == gs[n]
  <1>1. s \in Scans /\ n \in Handles /\ c.host \in Hosts /\ c.closed \in BOOLEAN
    BY OneCall, CallFields DEF Begun, Sound
  <1>2. Serves(c, g) /\ g \in OpenGenerators
    BY DEF Sound, Serves
  <1>3. live \in [Hosts -> SUBSET Handles]
    BY DEF StreamInv, StreamTypeOK
  <1> HIDE DEF n
  <1>4. CASE c.closed
    <2>1. call' = [call EXCEPT ![s] = c] /\ gens' = gs /\ live' = live
      BY <1>4 DEF CloseOnce
    <2>2. Continues(s) /\ call'[s] = c
      BY <1>3, <2>1, UsesGenerator
    <2> QED
      BY <1>1, <2>1, <2>2, CallGoesOn
  <1>5. CASE ~c.closed
    <2> DEFINE found == Callable(c.host) /\ n \in live[c.host]
               c1 == [c EXCEPT !.closed = TRUE]
               g1 == [g EXCEPT !.closes = @ + 1, !.state = IF found THEN "closed" ELSE @]
    <2>1. call' = [call EXCEPT ![s] = c1] /\ CloseUdf(c.host, c.handle, gs)
      BY <1>5 DEF CloseOnce
    <2>2. gens' = [gs EXCEPT ![n] = g1]
      BY <1>1, <2>1 DEF CloseUdf, n
    <2>3. live' = [live EXCEPT ![c.host] = IF found THEN @ \ {n} ELSE @]
      BY <2>1 DEF CloseUdf, n
    <2>4. /\ c1 \in Calls /\ c1.step = c.step /\ c1.host = c.host /\ c1.handle = c.handle
          /\ c1.opened = c.opened /\ c1.exhausted = c.exhausted /\ c1.closed
          /\ c1.decoder = c.decoder /\ c1.got = c.got
      BY DEF Calls
    <2>5. /\ g1 \in OpenGenerators /\ g1.does = g.does /\ g1.pos = g.pos /\ g1.closes = g.closes + 1
      <3> DEFINE x == IF found THEN "closed" ELSE g.state
      <3>1. x \in {"open", "closed", "missed"} /\ g.closes + 1 \in Nat
        BY <1>2 DEF OpenGenerators
      <3>2. g1 = [g EXCEPT !.closes = g.closes + 1, !.state = x]
        OBVIOUS
      <3> HIDE DEF g, g1, x
      <3> QED
        BY <1>2, <3>1, <3>2 DEF OpenGenerators
    <2> HIDE DEF c1, g1, found
    <2>6. gens' \in [Handles -> OpenGenerators \cup {None}] /\ gens'[n] = g1
          /\ \A m \in Handles : m # n => gens'[m] = gens[m]
      BY <1>1, <2>2, <2>5 DEF n
    <2>7. live' \in [Hosts -> SUBSET Handles] /\ \A h \in Hosts : live'[h] \subseteq live[h] \cup {n}
      BY <1>1, <1>3, <2>3
    <2>8. Continues(s) /\ call'[s] = c1
      <3>1. c1 \in Calls /\ c1.step # "none" /\ c1.handle = Handle(s) /\ c1.opened
        BY <2>4
      <3>2. call' = [call EXCEPT ![s] = c1] /\ UNCHANGED <<entry, host, counter>>
        BY <2>1
      <3>3. /\ gens' \in [Handles -> OpenGenerators \cup {None}]
            /\ \A m \in Handles : m # Handle(s) => gens'[m] = gens[m]
        BY <2>6 DEF n
      <3>4. live' \in [Hosts -> SUBSET Handles]
            /\ \A h \in Hosts : live'[h] \subseteq live[h] \cup {Handle(s)}
        BY <2>7 DEF n
      <3> QED
        BY ONLY StreamInv, s \in Begun, <3>1, <3>2, <3>3, <3>4, UsesGenerator
    <2>9. Serves(c1, g1)
      <3>1. g.closes = 0 /\ g1.closes = 1
        BY <1>2, <1>5, <2>5 DEF Serves
      <3>2. RowsSent(g1, g1.pos) = RowsSent(g, g.pos)
        BY <2>5 DEF RowsSent
      <3> HIDE DEF g
      <3> QED
        BY <1>2, <2>4, <2>5, <3>1, <3>2 DEF Serves
    <2>10. Sound(c1, gens', counter)
      BY <2>4, <2>6, <2>9 DEF Sound, InUse, n
    <2> QED
      BY <1>1, <2>8, <2>10, CallGoesOn
  <1> QED
    BY <1>1, <1>4, <1>5

--------------------------------------------------------------------------------
(* The steps of a call *)

\* OpenHostStream fails.
LEMMA StepOpenFails ==
    ASSUME StreamInv, NEW s \in Scans, OpenFails(s)
    PROVE  StreamInv'
  <1>1. s \in Begun /\ ~call[s].exhausted
    BY OneCall DEF OpenFails, Sound, Begun
  <1> QED
    BY <1>1, OnlyStep DEF OpenFails, hostVars

\* It succeeds, as far as the host is concerned.
LEMMA StepOpenSucceeds ==
    ASSUME StreamInv, NEW s \in Scans, OpenSucceeds(s)
    PROVE  StreamInv'
  <1> DEFINE n == Handle(s)
  <1>1. /\ s \in Begun /\ call[s] \in Calls /\ call[s].decoder = NewDecoder /\ call[s].got = <<>>
        /\ ~call[s].exhausted /\ ~call[s].closed /\ n \in Handles /\ call[s].host \in Hosts
        /\ n \in 1..counter
    BY OneCall DEF OpenSucceeds, Sound, Begun, Handle
  <1>2. PICK g \in Generators[s] :
          /\ g.schema # None /\ OpenGenerator(call[s].host, n, g)
          /\ \E d \in {PushFrame(NewDecoder, g.schema)} :
                \/ /\ HasSchema(d) /\ ~d.failed
                   /\ call' = [call EXCEPT ![s].opened = TRUE, ![s].decoder = d, ![s].step = "opened"]
                \/ /\ d.failed \/ ~HasSchema(d)
                   /\ call' = [call EXCEPT ![s].opened = TRUE, ![s].decoder = d, ![s].step = "broken"]
    BY DEF OpenSucceeds, Handle
  <1>3. UNCHANGED <<entry, host, counter>>
    BY DEF OpenSucceeds, hostVars
  <1> DEFINE d == PushFrame(NewDecoder, g.schema)
             state == IF host[call[s].host] = "gone" THEN "missed" ELSE "open"
             g1 == [does |-> g, pos |-> 0, busy |-> FALSE, state |-> state, closes |-> 0]
  <1>4. g \in Generator /\ g.schema \in Seq(Messages(Rows)) /\ g.answers \in Seq(Answers(Rows))
    BY <1>2, StreamAssumption DEF Generator
  <1>5. /\ d \in Decoders(Rows)
        /\ ~d.failed => FlattenSeq(d.batches) = Glue(FlattenSeq(<<>>), RowsOf(g.schema))
        /\ RowsOf(g.schema) \in Seq(Rows)
    <2>1. NewDecoder \in Decoders(Rows) /\ NewDecoder.batches = <<>>
      BY DecoderFields DEF NewDecoder
    <2> QED
      BY <1>4, <2>1, PushKeeps
  <1>6. g1 \in OpenGenerators /\ g1.does = g /\ g1.pos = 0 /\ g1.closes = 0
    <2>1. g \in UNION {Generators[t] : t \in Scans}
      BY <1>2
    <2> QED
      BY <2>1 DEF OpenGenerators
  <1>7. PICK step \in {"opened", "broken"} :
          /\ call' = [call EXCEPT ![s].opened = TRUE, ![s].decoder = d, ![s].step = step]
          /\ step = "opened" => ~d.failed
    BY <1>2
  <1> DEFINE c == [call[s] EXCEPT !.opened = TRUE, !.decoder = d, !.step = step]
  <1> HIDE DEF d, g1
  <1>8. /\ c \in Calls /\ c.step = step /\ c.host = call[s].host /\ c.handle = call[s].handle
        /\ c.opened /\ c.exhausted = call[s].exhausted
        /\ c.closed = call[s].closed /\ c.decoder = d /\ c.got = call[s].got
    BY <1>1, <1>5, <1>7 DEF Calls
  <1>9. call' = [call EXCEPT ![s] = c]
    BY <1>7 DEF StreamInv, StreamTypeOK
  <1> HIDE DEF c, n
  <1>10. gens' = [gens EXCEPT ![n] = g1] /\ live' = [live EXCEPT ![call[s].host] = @ \cup {n}]
    BY <1>2 DEF OpenGenerator, g1
  <1>11. /\ gens' \in [Handles -> OpenGenerators \cup {None}] /\ gens'[n] = g1
         /\ \A m \in Handles : m # n => gens'[m] = gens[m]
         /\ live' \in [Hosts -> SUBSET Handles] /\ \A h \in Hosts : live'[h] \subseteq live[h] \cup {n}
    BY <1>1, <1>6, <1>10 DEF StreamInv, StreamTypeOK
  <1>12. Continues(s) /\ call'[s] = c
    BY <1>1, <1>3, <1>7, <1>8, <1>9, <1>11, UsesGenerator DEF n, Handle
  <1>13. Serves(c, g1)
    <2>1. ~d.failed => Glue(c.got, FlattenSeq(d.batches)) = RowsSent(g1, g1.pos)
      <3>1. RowsSent(g1, 0) = RowsOf(g.schema)
        <4>1. g1 \in OpenGenerators /\ g1.does.schema = g.schema /\ g.schema # None
          BY <1>2, <1>6
        <4>2. 0 \in Nat /\ 0 <= Len(g1.does.answers)
          BY <1>4, <1>6
        <4> QED
          BY ONLY <4>1, <4>2, SentGrows
      <3>2. FlattenSeq(<<>>) = <<>>
        <4>1. <<>> \in Seq(Seq(Rows))
          OBVIOUS
        <4> QED
          BY <4>1, FlattenType
      <3> QED
        BY <1>1, <1>5, <1>6, <1>8, <3>1, <3>2, GlueFacts
    <2>2. g1.does.schema # None /\ g1.pos <= Len(g1.does.answers)
      BY <1>2, <1>4, <1>6
    <2> QED
      BY <1>1, <1>6, <1>8, <2>1, <2>2 DEF Serves
  <1>14. Sound(c, gens', counter)
    <2>1. c.handle = n
      BY <1>8 DEF n, Handle
    <2> QED
      BY <1>1, <1>7, <1>8, <1>11, <1>13, <2>1 DEF Sound, InUse
  <1> QED
    BY <1>12, <1>14, CallGoesOn

\* The next function is prepared.
LEMMA StepPrepareNext ==
    ASSUME StreamInv, NEW s \in Scans, PrepareNext(s)
    PROVE  StreamInv'
  <1>1. s \in Begun /\ ~call[s].exhausted /\ call[s].opened /\ ~call[s].decoder.failed
    BY OneCall DEF PrepareNext, Sound, Begun, InUse
  <1>2. \/ call' = [call EXCEPT ![s].step = "bound"]
        \/ call' = [call EXCEPT ![s].step = "broken"]
    BY DEF PrepareNext
  <1>3. UNCHANGED <<entry, host, live, gens, counter>>
    BY DEF PrepareNext, hostVars
  <1> QED
    BY <1>1, <1>2, <1>3, OnlyStep

\* TakeHostStreamOnce.
LEMMA StepTake ==
    ASSUME StreamInv, NEW s \in Scans, TakeHostStreamOnce(s)
    PROVE  StreamInv'
  <1>1. s \in Begun /\ ~call[s].exhausted /\ call[s].opened /\ ~call[s].decoder.failed
    BY OneCall DEF TakeHostStreamOnce, Sound, Begun, InUse
  <1> QED
    BY <1>1, OnlyStep DEF TakeHostStreamOnce, hostVars

\* The plan wants no more rows.
LEMMA StepEnough ==
    ASSUME StreamInv, NEW s \in Scans, EnoughRows(s)
    PROVE  StreamInv'
  <1>1. s \in Begun /\ call[s].opened /\ ~call[s].decoder.failed
    BY OneCall DEF EnoughRows, Sound, Begun, InUse
  <1> QED
    BY <1>1, OnlyStep DEF EnoughRows, hostVars

\* A batch of the last frame is handed on.
LEMMA StepPop ==
    ASSUME StreamInv, NEW s \in Scans, PopBatch(s)
    PROVE  StreamInv'
  <1> DEFINE b == call[s].decoder.batches
             d == Pop(call[s].decoder)
             more == call[s].got \o Head(b)
             c == [call[s] EXCEPT !.decoder = d, !.got = more]
             g == gens[Handle(s)]
  <1>1. /\ s \in Begun /\ call[s] \in Calls /\ Sound(call[s], gens, counter) /\ call[s].step = "reading"
        /\ b # <<>> /\ call[s].opened /\ ~call[s].exhausted /\ ~call[s].decoder.failed
    BY OneCall DEF PopBatch, HasBatch, Sound, Begun, InUse
  <1>2. call[s].decoder \in Decoders(Rows) /\ b \in Seq(Seq(Rows)) /\ call[s].got \in Seq(Rows)
    BY <1>1, CallFields, DecoderFields
  <1>3. Head(b) \in Seq(Rows) /\ Tail(b) \in Seq(Seq(Rows))
    BY <1>1, <1>2
  <1>4. /\ d \in Decoders(Rows) /\ d.failed = call[s].decoder.failed /\ d.batches = Tail(b)
    BY <1>2, <1>3 DEF Pop, Decoders
  <1>5. more \in Seq(Rows) /\ more = Glue(call[s].got, Head(b))
    BY <1>2, <1>3, GlueFacts DEF Glue
  <1> HIDE DEF d, more, b
  <1>6. /\ c \in Calls /\ c.step = call[s].step /\ c.host = call[s].host /\ c.handle = call[s].handle
        /\ c.opened = call[s].opened /\ c.exhausted = call[s].exhausted
        /\ c.closed = call[s].closed /\ c.decoder = d /\ c.got = more
    BY <1>1, <1>4, <1>5 DEF Calls
  <1>7. call' = [call EXCEPT ![s] = c] /\ UNCHANGED <<entry, host, live, gens, counter>>
    BY DEF PopBatch, hostVars, StreamInv, StreamTypeOK, d, more, b
  <1> HIDE DEF c
  <1>8. Continues(s) /\ call'[s] = c
    BY <1>1, <1>6, <1>7, LeavesGenerator DEF Handle
  <1>9. Serves(call[s], g)
    BY <1>1 DEF Sound, Handle
  <1>10. Glue(more, FlattenSeq(Tail(b))) = Glue(call[s].got, FlattenSeq(b))
    <2>1. FlattenSeq(Tail(b)) \in Seq(Rows) /\ FlattenSeq(b) = Glue(Head(b), FlattenSeq(Tail(b)))
      BY <1>1, <1>2, <1>3, FlattenType, FlattenHead
    <2> QED
      BY <1>2, <1>3, <1>5, <2>1, GlueAssociative
  <1> HIDE DEF g
  <1>11. Serves(c, g)
    BY <1>1, <1>4, <1>6, <1>9, <1>10 DEF Serves, b
  <1>12. Sound(c, gens', counter)
    BY <1>1, <1>4, <1>6, <1>7, <1>11 DEF Sound, InUse, g, Handle
  <1> QED
    BY <1>8, <1>12, CallGoesOn

\* The next function is called, or cannot be.
LEMMA StepCallNext ==
    ASSUME StreamInv, NEW s \in Scans, CallNext(s)
    PROVE  StreamInv'
  <1> DEFINE n == Handle(s)
             g == gens[n]
  <1>1. /\ s \in Begun /\ call[s] \in Calls /\ Sound(call[s], gens, counter) /\ call[s].step = "reading"
        /\ call[s].opened /\ ~call[s].exhausted /\ ~call[s].decoder.failed /\ n \in Handles
        /\ call[s].decoder.batches = <<>>
    BY OneCall DEF CallNext, HasBatch, Sound, Begun, InUse
  <1>2. UNCHANGED <<entry, host, live, counter>>
    BY DEF CallNext, hostVars
  <1>3. CASE UNCHANGED <<gens, call>>
    BY <1>2, <1>3, Unchanged
  <1>4. CASE /\ gens' = [gens EXCEPT ![n].busy = TRUE]
             /\ call' = [call EXCEPT ![s].step = "pulling"]
    <2> DEFINE c == [call[s] EXCEPT !.step = "pulling"]
               g1 == [g EXCEPT !.busy = TRUE]
    <2>1. /\ c \in Calls /\ c.step = "pulling" /\ c.host = call[s].host /\ c.handle = call[s].handle
          /\ c.opened = call[s].opened /\ c.exhausted = call[s].exhausted
          /\ c.closed = call[s].closed /\ c.decoder = call[s].decoder /\ c.got = call[s].got
      BY <1>1 DEF Calls
    <2>2. Serves(call[s], g) /\ g \in OpenGenerators
      BY <1>1 DEF Sound, Handle, Serves
    <2>3. call' = [call EXCEPT ![s] = c] /\ gens' = [gens EXCEPT ![n] = g1]
      BY <1>1, <1>4 DEF StreamInv, StreamTypeOK
    <2> HIDE DEF n, g, c
    <2>4. g1 \in OpenGenerators /\ g1.does = g.does /\ g1.pos = g.pos /\ g1.closes = g.closes
      BY <2>2 DEF OpenGenerators
    <2> HIDE DEF g1
    <2>5. /\ gens' \in [Handles -> OpenGenerators \cup {None}] /\ gens'[n] = g1
          /\ \A m \in Handles : m # n => gens'[m] = gens[m]
          /\ live' \in [Hosts -> SUBSET Handles] /\ \A h \in Hosts : live'[h] \subseteq live[h] \cup {n}
      BY <1>1, <1>2, <2>3, <2>4 DEF StreamInv, StreamTypeOK
    <2>6. Continues(s) /\ call'[s] = c
      BY <1>1, <1>2, <2>1, <2>3, <2>5, UsesGenerator DEF n, Handle
    <2>7. Serves(c, g1)
      <3>1. RowsSent(g1, g1.pos) = RowsSent(g, g.pos)
        BY <2>4 DEF RowsSent
      <3> QED
        BY <2>1, <2>2, <2>4, <3>1 DEF Serves
    <2>8. Sound(c, gens', counter)
      BY <1>1, <2>1, <2>5, <2>7 DEF Sound, InUse, n, Handle
    <2> QED
      BY <2>6, <2>8, CallGoesOn
  <1> QED
    BY <1>3, <1>4 DEF CallNext, Handle

\* What holds while a call waits for its generator's answer.
LEMMA Pulling ==
    ASSUME StreamInv, NEW s \in Scans, call[s].step = "pulling"
    PROVE  /\ s \in Begun /\ call[s] \in Calls /\ Handle(s) \in Handles /\ call[s].opened
           /\ ~call[s].exhausted /\ ~call[s].decoder.failed /\ call[s].decoder.batches = <<>>
           /\ call[s].host \in Hosts /\ call[s].handle \in 1..counter
           /\ call[s].got \in Seq(Rows) /\ call[s].decoder \in Decoders(Rows)
           /\ Serves(call[s], gens[Handle(s)]) /\ gens[Handle(s)] \in OpenGenerators
           /\ call[s].got = RowsSent(gens[Handle(s)], Pos(s))
  <1> DEFINE g == gens[Handle(s)]
  <1>1. /\ s \in Begun /\ call[s] \in Calls /\ Handle(s) \in Handles /\ call[s].opened
        /\ ~call[s].exhausted /\ ~call[s].decoder.failed /\ call[s].decoder.batches = <<>>
        /\ call[s].host \in Hosts /\ call[s].handle \in 1..counter /\ Serves(call[s], g)
    BY OneCall DEF Sound, Begun, InUse, Handle
  <1>2. call[s].got \in Seq(Rows) /\ call[s].decoder \in Decoders(Rows)
    BY <1>1, CallFields
  <1>3. FlattenSeq(<<>>) = <<>>
    <2>1. <<>> \in Seq(Seq(Rows))
      OBVIOUS
    <2> QED
      BY <2>1, FlattenType
  <1>4. Glue(call[s].got, <<>>) = RowsSent(g, g.pos) /\ g \in OpenGenerators
    BY <1>1, <1>3 DEF Serves
  <1>5. Glue(call[s].got, <<>>) = call[s].got
    BY <1>2, GlueFacts
  <1> QED
    BY <1>1, <1>2, <1>4, <1>5 DEF Pos, Handle

\* The generator that has answered: it has come to n, and is otherwise the same.
LEMMA AnsweredIs ==
    ASSUME StreamInv, NEW s \in Scans, call[s].step = "pulling", NEW n \in Nat, NEW g1,
           g1 = Answered(s, n)[Handle(s)]
    PROVE  /\ Answered(s, n) \in [Handles -> OpenGenerators \cup {None}]
           /\ \A m \in Handles : m # Handle(s) => Answered(s, n)[m] = gens[m]
           /\ g1 \in OpenGenerators /\ g1.pos = n
           /\ g1.does = gens[Handle(s)].does /\ g1.closes = gens[Handle(s)].closes
  <1> DEFINE h == Handle(s)
             g == gens[h]
  <1>1. h \in Handles /\ g \in OpenGenerators /\ gens \in [Handles -> OpenGenerators \cup {None}]
    BY Pulling DEF StreamInv, StreamTypeOK
  <1>2. Answered(s, n) = [gens EXCEPT ![h] = [g EXCEPT !.busy = FALSE, !.pos = n]]
    BY <1>1 DEF Answered, Handle
  <1> HIDE DEF h
  <1>3. g1 = [g EXCEPT !.busy = FALSE, !.pos = n]
    BY <1>1, <1>2 DEF h
  <1> HIDE DEF g
  <1>4. /\ g1 \in OpenGenerators /\ g1.pos = n /\ g1.does = g.does /\ g1.closes = g.closes
    BY <1>1, <1>3 DEF OpenGenerators
  <1>5. Answered(s, n) = [gens EXCEPT ![h] = g1]
    BY <1>2, <1>3
  <1>6. /\ Answered(s, n) \in [Handles -> OpenGenerators \cup {None}]
        /\ \A m \in Handles : m # h => Answered(s, n)[m] = gens[m]
    BY <1>1, <1>4, <1>5
  <1> QED
    BY <1>4, <1>6 DEF g, h

\* The generator is over.
LEMMA StepNextEnds ==
    ASSUME StreamInv, NEW s \in Scans, NextEnds(s)
    PROVE  StreamInv'
  <1> DEFINE c == [call[s] EXCEPT !.step = "ended", !.exhausted = TRUE]
             gs == Answered(s, Pos(s))
             g == gens[Handle(s)]
             g1 == gs[Handle(s)]
  <1>0. /\ call[s].step = "pulling" /\ Pos(s) = Len(Script(s)) /\ CloseOnce(s, c, gs)
        /\ UNCHANGED <<entry, host, counter>>
    BY DEF NextEnds, hostVars
  <1>1. /\ s \in Begun /\ call[s] \in Calls /\ call[s].opened
        /\ ~call[s].decoder.failed /\ call[s].decoder.batches = <<>>
        /\ call[s].host \in Hosts /\ call[s].handle \in 1..counter /\ Serves(call[s], g)
        /\ g \in OpenGenerators
    BY <1>0, Pulling
  <1>2. /\ c \in Calls /\ c.step = "ended" /\ c.host = call[s].host /\ c.handle = call[s].handle
        /\ c.opened = call[s].opened /\ c.exhausted
        /\ c.closed = call[s].closed /\ c.decoder = call[s].decoder /\ c.got = call[s].got
    BY <1>1 DEF Calls
  <1>3. Pos(s) = g.pos /\ Script(s) = g.does.answers /\ Pos(s) \in Nat
    BY <1>1, GeneratorFields DEF Pos, Script, Handle
  <1>4. /\ gs \in [Handles -> OpenGenerators \cup {None}]
        /\ \A m \in Handles : m # Handle(s) => gs[m] = gens[m]
        /\ g1 \in OpenGenerators /\ g1.pos = g.pos /\ g1.does = g.does /\ g1.closes = g.closes
    BY <1>0, <1>3, AnsweredIs
  <1> HIDE DEF c, g, gs
  <1>5. Serves(c, g1)
    <2>1. RowsSent(g1, g1.pos) = RowsSent(g, g.pos)
      BY <1>4 DEF RowsSent
    <2> HIDE DEF g1
    <2> QED
      BY <1>0, <1>1, <1>2, <1>3, <1>4, <2>1 DEF Serves
  <1>6. Sound(c, gs, counter)
    <2>1. gs[c.handle] = g1
      BY <1>2 DEF Handle
    <2> HIDE DEF g1
    <2> QED
      BY <1>1, <1>2, <1>5, <2>1 DEF Sound, InUse
  <1> QED
    BY <1>0, <1>1, <1>2, <1>4, <1>6, ClosesOnce DEF Handle

\* An answer adds its rows to what the generator has sent.
LEMMA AnswerGrows ==
    ASSUME StreamInv, NEW s \in Scans, call[s].step = "pulling", Pos(s) < Len(Script(s)), NEW g1,
           g1 = Answered(s, Pos(s) + 1)[Handle(s)]
    PROVE  /\ AnswerOf(s) \in Answers(Rows) /\ Pos(s) + 1 \in Nat
           /\ g1 \in OpenGenerators /\ g1.does.schema # None /\ g1.pos <= Len(g1.does.answers)
           /\ g1.closes = IF call[s].closed THEN 1 ELSE 0
           /\ RowsSent(g1, g1.pos) = Glue(call[s].got, RowsOf(AnswerOf(s).frame))
  <1> DEFINE g == gens[Handle(s)]
             k == g.pos
  <1>1. Serves(call[s], g) /\ g \in OpenGenerators /\ call[s].got = RowsSent(g, k)
    BY Pulling DEF Pos, Handle
  <1>2. /\ Pos(s) = k /\ Script(s) = g.does.answers /\ k \in Nat /\ Len(g.does.answers) \in Nat
        /\ g.does.answers \in Seq(Answers(Rows)) /\ g.does.schema # None
        /\ g.closes = IF call[s].closed THEN 1 ELSE 0
    BY <1>1, GeneratorFields DEF Pos, Script, Handle, Serves
  <1>3. k + 1 \in Nat /\ k + 1 <= Len(g.does.answers) /\ k <= Len(g.does.answers)
        /\ k + 1 \in 1..Len(g.does.answers)
    BY <1>2, SMTT(30)
  <1>4. g1 \in OpenGenerators /\ g1.pos = k + 1 /\ g1.does = g.does /\ g1.closes = g.closes
    BY <1>2, <1>3, AnsweredIs
  <1> HIDE DEF g
  <1>5. AnswerOf(s) = g.does.answers[k + 1] /\ AnswerOf(s) \in Answers(Rows)
    BY <1>2, <1>3 DEF AnswerOf
  <1>6. RowsSent(g, k + 1) = Glue(RowsSent(g, k), RowsOf(g.does.answers[k + 1].frame))
    BY <1>1, <1>2, <1>3, SentGrows, SMTT(30)
  <1>7. RowsSent(g1, g1.pos) = RowsSent(g, k + 1)
    BY <1>4 DEF RowsSent
  <1> QED
    BY <1>1, <1>2, <1>3, <1>4, <1>5, <1>6, <1>7

\* The generator raises.
LEMMA StepNextRaises ==
    ASSUME StreamInv, NEW s \in Scans, NextRaises(s)
    PROVE  StreamInv'
  <1> DEFINE c == [call[s] EXCEPT !.step = "broken"]
             gs == Answered(s, Pos(s) + 1)
             g1 == gs[Handle(s)]
  <1>0. /\ call[s].step = "pulling" /\ Pos(s) < Len(Script(s)) /\ AnswerOf(s).is = "raise"
        /\ call' = [call EXCEPT ![s].step = "broken"] /\ gens' = gs
        /\ UNCHANGED <<entry, host, live, counter>>
    BY DEF NextRaises, hostVars
  <1>1. /\ s \in Begun /\ call[s] \in Calls /\ call[s].opened /\ ~call[s].exhausted
        /\ call[s].host \in Hosts /\ call[s].handle \in 1..counter
        /\ call[s].decoder.batches = <<>> /\ call[s].got \in Seq(Rows)
    BY <1>0, Pulling
  <1>2. /\ c \in Calls /\ c.step = "broken" /\ c.host = call[s].host /\ c.handle = call[s].handle
        /\ c.opened = call[s].opened /\ c.exhausted = call[s].exhausted
        /\ c.closed = call[s].closed /\ c.decoder = call[s].decoder /\ c.got = call[s].got
    BY <1>1 DEF Calls
  <1>3. call' = [call EXCEPT ![s] = c]
    BY <1>0 DEF StreamInv, StreamTypeOK
  <1>4. /\ AnswerOf(s) \in Answers(Rows) /\ Pos(s) + 1 \in Nat
        /\ g1 \in OpenGenerators /\ g1.does.schema # None /\ g1.pos <= Len(g1.does.answers)
        /\ g1.closes = IF call[s].closed THEN 1 ELSE 0
        /\ RowsSent(g1, g1.pos) = Glue(call[s].got, RowsOf(AnswerOf(s).frame))
    BY <1>0, AnswerGrows
  <1>5. /\ gs \in [Handles -> OpenGenerators \cup {None}]
        /\ \A m \in Handles : m # Handle(s) => gs[m] = gens[m]
    BY <1>0, <1>4, AnsweredIs
  <1>6. AnswerOf(s).frame = <<>>
    BY <1>0, <1>4, AnswerFields
  <1> HIDE DEF c, gs
  <1>7. Continues(s) /\ call'[s] = c
    <2>1. /\ live' \in [Hosts -> SUBSET Handles]
          /\ \A h \in Hosts : live'[h] \subseteq live[h] \cup {Handle(s)}
      BY <1>0 DEF StreamInv, StreamTypeOK
    <2>2. /\ gens' \in [Handles -> OpenGenerators \cup {None}]
          /\ \A m \in Handles : m # Handle(s) => gens'[m] = gens[m]
      BY <1>0, <1>5
    <2>3. c.step # "none" /\ c.handle = Handle(s) /\ c.opened /\ UNCHANGED <<entry, host, counter>>
      BY <1>0, <1>1, <1>2 DEF Handle
    <2> QED
      BY <1>1, <1>2, <1>3, <2>1, <2>2, <2>3, UsesGenerator
  <1>8. Serves(c, g1)
    <2>1. FlattenSeq(<<>>) = <<>>
      <3>1. <<>> \in Seq(Seq(Rows))
        OBVIOUS
      <3> QED
        BY <3>1, FlattenType
    <2>2. Glue(c.got, FlattenSeq(c.decoder.batches)) = RowsSent(g1, g1.pos)
      BY <1>1, <1>2, <1>4, <1>6, <2>1, NoRows
    <2> HIDE DEF g1
    <2> QED
      BY <1>1, <1>2, <1>4, <2>2 DEF Serves
  <1>9. Sound(c, gens', counter)
    <2>1. gens'[c.handle] = g1
      BY <1>0, <1>2 DEF Handle
    <2> HIDE DEF g1
    <2> QED
      BY <1>1, <1>2, <1>8, <2>1 DEF Sound, InUse
  <1> QED
    BY <1>7, <1>9, CallGoesOn

\* The generator yields a frame.
LEMMA StepNextYields ==
    ASSUME StreamInv, NEW s \in Scans, NextYields(s)
    PROVE  StreamInv'
  <1> DEFINE d == PushFrame(call[s].decoder, AnswerOf(s).frame)
             gs == Answered(s, Pos(s) + 1)
             g1 == gs[Handle(s)]
  <1>0. /\ call[s].step = "pulling" /\ Pos(s) < Len(Script(s))
        /\ UNCHANGED <<entry, host, counter>>
        /\ \/ /\ d.failed
              /\ call' = [call EXCEPT ![s].step = "broken", ![s].decoder = d]
              /\ gens' = gs /\ live' = live
           \/ /\ ~d.failed /\ Ends(d)
              /\ CloseOnce(s, [call[s] EXCEPT !.step = "ended", !.exhausted = TRUE, !.decoder = d], gs)
           \/ /\ ~d.failed /\ ~Ends(d)
              /\ call' = [call EXCEPT ![s].step = "reading", ![s].decoder = d]
              /\ gens' = gs /\ live' = live
    BY DEF NextYields, hostVars
  <1>1. /\ s \in Begun /\ call[s] \in Calls /\ call[s].opened /\ ~call[s].exhausted
        /\ call[s].host \in Hosts /\ call[s].handle \in 1..counter
        /\ call[s].decoder.batches = <<>> /\ call[s].got \in Seq(Rows)
        /\ call[s].decoder \in Decoders(Rows)
    BY <1>0, Pulling
  <1>2. /\ AnswerOf(s) \in Answers(Rows) /\ Pos(s) + 1 \in Nat
        /\ g1 \in OpenGenerators /\ g1.does.schema # None /\ g1.pos <= Len(g1.does.answers)
        /\ g1.closes = IF call[s].closed THEN 1 ELSE 0
        /\ RowsSent(g1, g1.pos) = Glue(call[s].got, RowsOf(AnswerOf(s).frame))
    BY <1>0, AnswerGrows
  <1>3. /\ gs \in [Handles -> OpenGenerators \cup {None}]
        /\ \A m \in Handles : m # Handle(s) => gs[m] = gens[m]
    BY <1>0, <1>2, AnsweredIs
  <1>4. AnswerOf(s).frame \in Seq(Messages(Rows))
    BY <1>2, AnswerFields
  <1>5. /\ d \in Decoders(Rows)
        /\ ~d.failed => FlattenSeq(d.batches) = RowsOf(AnswerOf(s).frame)
    <2>1. /\ d \in Decoders(Rows) /\ RowsOf(AnswerOf(s).frame) \in Seq(Rows)
          /\ ~d.failed => FlattenSeq(d.batches) = Glue(FlattenSeq(<<>>), RowsOf(AnswerOf(s).frame))
      BY <1>1, <1>4, PushKeeps
    <2>2. FlattenSeq(<<>>) = <<>>
      <3>1. <<>> \in Seq(Seq(Rows))
        OBVIOUS
      <3> QED
        BY <3>1, FlattenType
    <2> HIDE DEF d
    <2> QED
      BY <2>1, <2>2, GlueFacts
  <1>6. live' = live => live' \in [Hosts -> SUBSET Handles]
                        /\ \A h \in Hosts : live'[h] \subseteq live[h] \cup {Handle(s)}
    BY DEF StreamInv, StreamTypeOK
  <1> HIDE DEF d, gs
  <1>7. ASSUME NEW step \in {"broken", "reading"}, step = "reading" => ~d.failed,
               call' = [call EXCEPT ![s].step = step, ![s].decoder = d], gens' = gs, live' = live
        PROVE  StreamInv'
    <2> DEFINE c == [call[s] EXCEPT !.step = step, !.decoder = d]
    <2>1. /\ c \in Calls /\ c.step = step /\ c.host = call[s].host /\ c.handle = call[s].handle
          /\ c.opened = call[s].opened /\ c.exhausted = call[s].exhausted
          /\ c.closed = call[s].closed /\ c.decoder = d /\ c.got = call[s].got
      BY <1>1, <1>5, <1>7 DEF Calls
    <2>2. call' = [call EXCEPT ![s] = c]
      BY <1>7 DEF StreamInv, StreamTypeOK
    <2> HIDE DEF c
    <2>3. Continues(s) /\ call'[s] = c
      <3>1. /\ gens' \in [Handles -> OpenGenerators \cup {None}]
            /\ \A m \in Handles : m # Handle(s) => gens'[m] = gens[m]
        BY <1>3, <1>7
      <3>2. c.step # "none" /\ c.handle = Handle(s) /\ c.opened /\ UNCHANGED <<entry, host, counter>>
        BY <1>0, <1>1, <1>7, <2>1 DEF Handle
      <3> QED
        BY <1>1, <1>6, <1>7, <2>1, <2>2, <3>1, <3>2, UsesGenerator
    <2>4. Serves(c, g1)
      <3> HIDE DEF g1
      <3> QED
        BY <1>1, <1>2, <1>5, <2>1 DEF Serves
    <2>5. Sound(c, gens', counter)
      <3>1. gens'[c.handle] = g1
        BY <1>7, <2>1 DEF Handle
      <3> HIDE DEF g1
      <3> QED
        BY <1>1, <1>7, <2>1, <2>4, <3>1 DEF Sound, InUse
    <2> QED
      BY <2>3, <2>5, CallGoesOn
  <1>8. ASSUME ~d.failed, Ends(d),
               CloseOnce(s, [call[s] EXCEPT !.step = "ended", !.exhausted = TRUE, !.decoder = d], gs)
        PROVE  StreamInv'
    <2> DEFINE c == [call[s] EXCEPT !.step = "ended", !.exhausted = TRUE, !.decoder = d]
    <2>1. /\ c \in Calls /\ c.step = "ended" /\ c.host = call[s].host /\ c.handle = call[s].handle
          /\ c.opened = call[s].opened /\ c.exhausted
          /\ c.closed = call[s].closed /\ c.decoder = d /\ c.got = call[s].got
      BY <1>1, <1>5 DEF Calls
    <2>2. CloseOnce(s, c, gs)
      BY <1>8
    <2> HIDE DEF c
    <2>3. Serves(c, g1)
      <3> HIDE DEF g1
      <3> QED
        BY <1>1, <1>2, <1>5, <1>8, <2>1 DEF Serves, Ends, HasBatch
    <2>4. Sound(c, gs, counter)
      <3>1. gs[c.handle] = g1
        BY <2>1 DEF Handle
      <3> HIDE DEF g1
      <3> QED
        BY <1>1, <1>8, <2>1, <2>3, <3>1 DEF Sound, InUse
    <2> QED
      BY <1>0, <1>1, <1>3, <2>1, <2>2, <2>4, ClosesOnce DEF Handle
  <1> QED
    BY <1>0, <1>7, <1>8

\* The stream is released.
LEMMA StepRelease ==
    ASSUME StreamInv, NEW s \in Scans, Release(s)
    PROVE  StreamInv'
  <1> DEFINE c == [call[s] EXCEPT !.step = "gone"]
  <1>0. /\ call[s].step \in {"bound", "reading", "ended", "broken"} /\ CloseOnce(s, c, gens)
        /\ UNCHANGED <<entry, host, counter>>
    BY DEF Release, hostVars
  <1>1. /\ s \in Begun /\ call[s] \in Calls /\ Sound(call[s], gens, counter)
        /\ gens \in [Handles -> OpenGenerators \cup {None}]
    BY <1>0, OneCall DEF Begun, StreamInv, StreamTypeOK
  <1>2. /\ c \in Calls /\ c.step = "gone" /\ c.host = call[s].host /\ c.handle = call[s].handle
        /\ c.opened = call[s].opened /\ c.exhausted = call[s].exhausted
        /\ c.closed = call[s].closed /\ c.decoder = call[s].decoder /\ c.got = call[s].got
    BY <1>1 DEF Calls
  <1> HIDE DEF c
  <1>3. Sound(c, gens, counter)
    <2>1. c.opened => Serves(c, gens[c.handle])
      BY <1>1, <1>2 DEF Sound, Serves
    <2> QED
      BY <1>0, <1>1, <1>2, <2>1 DEF Sound, InUse
  <1>4. CASE c.opened
    BY <1>0, <1>1, <1>2, <1>3, <1>4, ClosesOnce DEF Handle
  <1>5. CASE ~c.opened
    <2>1. call' = [call EXCEPT ![s] = c] /\ gens' = gens /\ live' = live
      BY <1>0, <1>5 DEF CloseOnce
    <2>2. Continues(s) /\ call'[s] = c
      BY <1>0, <1>1, <1>2, <2>1, LeavesGenerator DEF Handle
    <2> QED
      BY <1>3, <2>1, <2>2, CallGoesOn
  <1> QED
    BY <1>4, <1>5

\* A call begins: it takes the next handle.
LEMMA StepBegin ==
    ASSUME StreamInv, NEW s \in Scans, BeginOpen(s)
    PROVE  StreamInv'
  <1> DEFINE c == [NoCall EXCEPT !.step = "opening", !.host = entry, !.handle = counter + 1]
  <1>0. call[s].step = "none" /\ UNCHANGED <<entry, host, live, gens>>
    BY DEF BeginOpen, hostVars
  <1>1. CASE UNCHANGED <<counter, call>>
    BY <1>0, <1>1, Unchanged
  <1>2. CASE entry # None /\ counter' = counter + 1 /\ call' = [call EXCEPT ![s] = c]
    <2>1. IsFiniteSet(Scans) /\ Cardinality(Scans) \in Nat
      BY StreamAssumption, FS_CardinalityType
    <2>2. IsFiniteSet(Begun) /\ Begun \subseteq Scans /\ s \notin Begun
      BY <1>0, <2>1, FS_Subset DEF Begun
    <2>3. Cardinality(Begun \cup {s}) = Cardinality(Begun) + 1
      BY <2>2, FS_AddElement
    <2>4. Cardinality(Begun \cup {s}) <= Cardinality(Scans)
      <3>1. Begun \cup {s} \subseteq Scans
        BY <2>2
      <3> QED
        BY <2>1, <3>1, FS_Subset
    <2>5. counter = Cardinality(Begun) /\ counter \in Nat /\ counter + 1 \in Handles
          /\ counter' \in 0..Cardinality(Scans)
      <3>1. counter = Cardinality(Begun) /\ counter \in 0..Cardinality(Scans)
        BY DEF StreamInv, StreamTypeOK
      <3> QED
        BY <1>2, <2>1, <2>3, <2>4, <3>1 DEF Handles
    <2>6. /\ c \in Calls /\ c.step = "opening" /\ c.host = entry /\ c.handle = counter + 1
          /\ ~c.opened /\ ~c.exhausted /\ ~c.closed /\ c.decoder = NewDecoder /\ c.got = <<>>
          /\ entry \in Hosts
      <3>1. entry \in Hosts
        BY <1>2 DEF StreamInv, StreamTypeOK
      <3>2. NewDecoder \in Decoders(Rows) /\ <<>> \in Seq(Rows)
        BY DecoderFields
      <3>3. /\ NoCall \in [step: {"none"}, host: {None}, handle: {None}, opened: BOOLEAN,
                           exhausted: BOOLEAN, closed: BOOLEAN, decoder: Decoders(Rows), got: Seq(Rows)]
            /\ ~NoCall.opened /\ ~NoCall.exhausted /\ ~NoCall.closed /\ NoCall.decoder = NewDecoder
            /\ NoCall.got = <<>>
        BY <3>2 DEF NoCall
      <3> QED
        BY <2>5, <3>1, <3>3 DEF Calls
    <2> HIDE DEF c
    <2>7. \A t \in Scans : call'[t] = IF t = s THEN c ELSE call[t]
      BY <1>2 DEF StreamInv, StreamTypeOK
    <2>8. Begun' = Begun \cup {s}
      BY <2>6, <2>7 DEF Begun
    <2>9. StreamTypeOK'
      <3>1. call' \in [Scans -> Calls]
        BY <1>2, <2>6 DEF StreamInv, StreamTypeOK
      <3> QED
        BY <1>0, <2>5, <3>1 DEF StreamInv, StreamTypeOK
    <2>10. \A t \in Begun : call'[t] = call[t] /\ call[t].handle \in 1..counter
      BY <2>2, <2>7 DEF StreamInv, Sound, Begun
    <2>11. HandlesDiffer'
      <3>1. \A t \in Begun : call[t].handle # counter + 1
        BY <2>5, <2>10
      <3>2. call'[s].handle = counter + 1
        BY <2>6, <2>7
      <3> QED
        BY <2>8, <2>10, <3>1, <3>2 DEF HandlesDiffer, StreamInv
    <2>12. ASSUME NEW t \in Scans PROVE Sound(call'[t], gens', counter')
      <3>1. CASE t = s
        <4>1. counter + 1 \in 1..counter' /\ call'[t] = c
          BY <1>2, <2>5, <2>7, <3>1
        <4> QED
          BY <2>6, <4>1 DEF Sound, InUse
      <3>2. CASE t # s
        <4>1. call'[t] = call[t] /\ Sound(call[t], gens, counter)
          BY <2>7, <3>2 DEF StreamInv
        <4>2. \A n \in 1..counter : n \in 1..counter'
          BY <1>2, <2>5
        <4>3. Sound(call[t], gens, counter')
          BY <4>1, <4>2 DEF Sound
        <4> QED
          BY <1>0, <4>1, <4>3
      <3> QED
        BY <3>1, <3>2
    <2>13. \A n : Owned(n) => Owned(n)'
      <3>1. \A t \in Scans : call[t].opened => t \in Begun
        BY OneCall
      <3> QED
        BY <2>10, <3>1 DEF Owned
    <2>14. \A h \in Hosts : \A n \in live[h] : Owned(n)
      BY DEF StreamInv
    <2>15. \A n \in Handles : gens[n] # None => Owned(n)
      BY DEF StreamInv
    <2>16. counter' = Cardinality(Begun')
      BY <1>2, <2>3, <2>5, <2>8
    <2> QED
      BY <1>0, <2>9, <2>11, <2>12, <2>13, <2>14, <2>15, <2>16 DEF StreamInv
  <1> QED
    BY <1>1, <1>2 DEF BeginOpen

--------------------------------------------------------------------------------
(* The host *)

\* The host registers or withdraws: who knows of a generator and whether it is open may change.
LEMMA StepHost ==
    ASSUME StreamInv, NEW h \in Hosts, HostStep(h)
    PROVE  StreamInv'
  <1>0. UNCHANGED <<counter, call>>
    BY DEF HostStep, Teardown, Register, DropEntries, RemoveUdfs, CloseStreams
  <1>1. /\ entry' \in Hosts \cup {None}
        /\ host' \in [Hosts -> {"new", "up", "dropped", "removed", "gone"}]
    BY DEF HostStep, Teardown, Register, DropEntries, RemoveUdfs, CloseStreams, StreamInv, StreamTypeOK
  <1>2. /\ live' \in [Hosts -> SUBSET Handles] /\ \A k \in Hosts : live'[k] \subseteq live[k]
        /\ \A n \in Handles :
              \/ gens'[n] = gens[n]
              \/ /\ Owned(n)
                 /\ gens'[n] \in OpenGenerators /\ gens'[n].does = gens[n].does
                 /\ gens'[n].pos = gens[n].pos /\ gens'[n].closes = gens[n].closes
        /\ gens' = [n \in Handles |-> gens'[n]]
    <2>1. CASE Register(h) \/ DropEntries(h) \/ RemoveUdfs(h)
      BY <2>1 DEF Register, DropEntries, RemoveUdfs, StreamInv, StreamTypeOK
    <2>2. CASE CloseStreams(h)
      <3>1. /\ live' = [live EXCEPT ![h] = {}]
            /\ gens' = [n \in Handles |->
                          IF n \notin live[h] THEN gens[n]
                          ELSE [gens[n] EXCEPT !.state = IF gens[n].busy THEN "missed" ELSE "closed"]]
        BY <2>2 DEF CloseStreams
      <3>2. live' \in [Hosts -> SUBSET Handles] /\ \A k \in Hosts : live'[k] \subseteq live[k]
        BY <3>1 DEF StreamInv, StreamTypeOK
      <3>3. ASSUME NEW n \in Handles
            PROVE  \/ gens'[n] = gens[n]
                   \/ /\ Owned(n)
                      /\ gens'[n] \in OpenGenerators /\ gens'[n].does = gens[n].does
                      /\ gens'[n].pos = gens[n].pos /\ gens'[n].closes = gens[n].closes
        <4>1. CASE n \notin live[h]
          BY <3>1, <4>1
        <4>2. CASE n \in live[h]
          <5> DEFINE x == IF gens[n].busy THEN "missed" ELSE "closed"
          <5>1. gens'[n] = [gens[n] EXCEPT !.state = x]
            BY <3>1, <4>2
          <5>2. x \in {"open", "closed", "missed"}
            OBVIOUS
          <5>3. gens[n] \in OpenGenerators
            <6>1. PICK t \in Scans : call[t].opened /\ call[t].handle = n
              BY <4>2 DEF StreamInv, Owned
            <6> QED
              BY <6>1 DEF StreamInv, Sound, Serves
          <5> HIDE DEF x
          <5>4. /\ gens'[n] \in OpenGenerators /\ gens'[n].does = gens[n].does
                /\ gens'[n].pos = gens[n].pos /\ gens'[n].closes = gens[n].closes
            BY <5>1, <5>2, <5>3 DEF OpenGenerators
          <5>5. Owned(n)
            BY <4>2 DEF StreamInv
          <5> QED
            BY <5>4, <5>5
        <4> QED
          BY <4>1, <4>2
      <3> QED
        BY <3>1, <3>2, <3>3
    <2> QED
      BY <2>1, <2>2 DEF HostStep, Teardown
  <1>3. gens' \in [Handles -> OpenGenerators \cup {None}]
    <2>1. \A n \in Handles : gens'[n] \in OpenGenerators \cup {None}
      BY <1>2 DEF StreamInv, StreamTypeOK
    <2> QED
      BY <1>2, <2>1
  <1>4. StreamTypeOK'
    BY <1>0, <1>1, <1>2, <1>3 DEF StreamInv, StreamTypeOK
  <1>5. \A n : Owned(n)' <=> Owned(n)
    BY <1>0 DEF Owned
  <1>6. ASSUME NEW t \in Scans PROVE Sound(call[t], gens', counter)
    <2> DEFINE c == call[t]
               g == gens[c.handle]
               g1 == gens'[c.handle]
    <2>1. Sound(c, gens, counter) /\ (c.opened => c.handle \in Handles)
      BY OneCall DEF Handle
    <2>2. c.opened => Serves(c, g1)
      <3> SUFFICES ASSUME c.opened PROVE Serves(c, g1)
        OBVIOUS
      <3>1. Serves(c, g)
        BY <2>1 DEF Sound
      <3>2. \/ g1 = g
            \/ g1 \in OpenGenerators /\ g1.does = g.does /\ g1.pos = g.pos /\ g1.closes = g.closes
        BY <1>2, <2>1
      <3> HIDE DEF g, g1
      <3>3. CASE g1 = g
        BY <3>1, <3>3
      <3>4. CASE g1 \in OpenGenerators /\ g1.does = g.does /\ g1.pos = g.pos /\ g1.closes = g.closes
        <4>1. RowsSent(g1, g1.pos) = RowsSent(g, g.pos)
          BY <3>4 DEF RowsSent
        <4> QED
          BY <3>1, <3>4, <4>1 DEF Serves
      <3> QED
        BY <3>2, <3>3, <3>4
    <2> QED
      BY <2>1, <2>2 DEF Sound
  <1>7. counter = Cardinality(Begun) /\ HandlesDiffer
    BY DEF StreamInv
  <1>8. Begun' = Begun
    BY <1>0 DEF Begun
  <1>9. counter' = Cardinality(Begun') /\ HandlesDiffer'
    BY <1>0, <1>7, <1>8 DEF HandlesDiffer
  <1>10. \A k \in Hosts : \A n \in live'[k] : Owned(n)'
    BY <1>2, <1>5 DEF StreamInv
  <1>11. \A n \in Handles : gens'[n] # None => Owned(n)'
    BY <1>2, <1>5 DEF StreamInv
  <1> QED
    BY <1>0, <1>4, <1>6, <1>9, <1>10, <1>11 DEF StreamInv
--------------------------------------------------------------------------------
(* The inductive invariant of the statement *)

\* The id of a scanned row leads to its key.
Resolves(q, keys) == q.id \in 0..(Len(keys) - 1) /\ keys[q.id + 1] = Key[q.row]

\* The scans read rows of the table.
RowsAreTheTables ==
    \A s \in Scans : /\ scan[s].batches \in Seq(Seq(Table))
                     /\ scan[s].hand \in [Workers -> Seq(Table)]
                     /\ \A q \in scan[s].emitted : q.row \in Table

\* Ids are unique over all scans, and each leads to the key of its row.
IdsAreIndexes ==
    \A s, t \in Scans : \A q \in scan[s].emitted, r \in scan[t].emitted :
        q.id # None => Resolves(q, buffer) /\ (q.id = r.id => s = t /\ q = r)

\* The sink holds what was passed to it, and only a write has a sink.
SinkHolds ==
    /\ Len(sunk) = Len(passed)
    /\ \A i \in 1..Len(sunk) : /\ sunk[i].row = passed[i]
                               /\ sunk[i].id # None => Resolves(sunk[i], buffer)
    /\ sunk # <<>> => stmt.kind \in Verbs
    /\ stmt.kind # "insert" => passed \in Seq(Table)

\* What the provider is to be sent.
Expected ==
    [i \in 1..Len(passed) |->
        CASE stmt.kind = "insert" -> <<passed[i]>>
          [] stmt.kind = "delete" -> <<Key[passed[i]]>>
          [] stmt.kind = "update" -> <<Key[passed[i]], passed[i]>>]

\* Every stream has come to its end, or been released since.
Settled == \A s \in Scans : call[s].step \in {"none", "ended", "gone"} /\ ~call[s].decoder.failed

\* Once there is something to send, the scans are over and it is the sunk rows.
SentWhenSettled ==
    payload # None \/ phase = "writing" =>
        Settled /\ phase \in {"writing", "done", "failed"} /\ stmt.kind \in Verbs /\ Received = Expected

\* Nothing is written before the write function has run.
WrittenLast == phase \in {"bind", "run", "writing"} => outcome.rows = {}

IInv ==
    /\ TypeOK /\ StreamInv
    /\ Begun \subseteq Streams
    /\ RowsAreTheTables /\ IdsAreIndexes /\ SinkHolds /\ SentWhenSettled /\ WrittenLast
    /\ HiddenRowsAreReported

--------------------------------------------------------------------------------
(* The statement moves on *)

\* The phases a step may lead to.
MovesOn == phase' \in {phase, "failed"} \/ (phase \in {"bind", "run"} /\ phase' \in {"run", "done"})

\* The parts of the invariant that are about scans and the sink.
LEMMA ScansStay ==
    ASSUME IInv, UNCHANGED <<stmt, scan, buffer, passed, sunk>>
    PROVE  RowsAreTheTables' /\ IdsAreIndexes' /\ SinkHolds' /\ Expected' = Expected
  BY DEF IInv, RowsAreTheTables, IdsAreIndexes, SinkHolds, Resolves, Expected

\* A step that changes nothing of the statement but its phase and the count it reports.
LEMMA PhaseMoves ==
    ASSUME IInv, StreamInv', UNCHANGED <<stmt, scan, buffer, passed, sunk, payload, outcome>>,
           MovesOn, affected' \in Nat \cup {None}, (Begun \subseteq Streams)',
           (payload # None \/ phase = "writing") => Settled'
    PROVE  IInv'
  <1>1. phase \in {"bind", "run", "writing", "done", "failed"}
    BY DEF IInv, TypeOK
  <1>2. phase' \in {"bind", "run", "writing", "done", "failed"}
    BY <1>1 DEF MovesOn
  <1>3. TypeOK'
    BY <1>2 DEF IInv, TypeOK, StreamInv
  <1>4. RowsAreTheTables' /\ IdsAreIndexes' /\ SinkHolds' /\ Expected' = Expected
    BY ScansStay
  <1>5. SentWhenSettled'
    <2> SUFFICES ASSUME payload' # None \/ phase' = "writing"
                 PROVE  (Settled /\ phase \in {"writing", "done", "failed"} /\ stmt.kind \in Verbs
                           /\ Received = Expected)'
      BY DEF SentWhenSettled
    <2>1. payload # None \/ phase = "writing"
      BY DEF MovesOn
    <2>2. phase \in {"writing", "done", "failed"} /\ stmt.kind \in Verbs /\ Received = Expected
      BY <2>1 DEF IInv, SentWhenSettled
    <2>3. Received' = Received
      BY DEF Received
    <2>4. phase' \in {"writing", "done", "failed"}
      BY <2>2 DEF MovesOn
    <2> QED
      BY <1>4, <2>1, <2>2, <2>3, <2>4
  <1>6. WrittenLast'
    BY DEF IInv, WrittenLast, MovesOn
  <1>7. HiddenRowsAreReported'
    <2>1. CASE phase' # "done"
      BY <2>1 DEF HiddenRowsAreReported
    <2>2. CASE phase = "done"
      BY <2>2 DEF IInv, HiddenRowsAreReported
    <2>3. CASE phase' = "done" /\ phase # "done"
      BY <2>3 DEF IInv, WrittenLast, MovesOn, HiddenRowsAreReported
    <2> QED
      BY <2>1, <2>2, <2>3
  <1> QED
    BY <1>3, <1>4, <1>5, <1>6, <1>7 DEF IInv

\* One that leaves the streams alone.
LEMMA OnlyPhase ==
    ASSUME IInv, UNCHANGED <<entry, host, live, gens, counter, call>>,
           UNCHANGED <<stmt, scan, buffer, passed, sunk, payload, outcome>>,
           MovesOn, affected' \in Nat \cup {None}
    PROVE  IInv'
  <1>1. StreamInv'
    BY Unchanged DEF IInv
  <1>2. (Begun \subseteq Streams)'
    BY DEF IInv, Begun, Streams
  <1>3. Settled => Settled'
    BY DEF Settled
  <1>4. (payload # None \/ phase = "writing") => Settled'
    BY <1>3 DEF IInv, SentWhenSettled
  <1> QED
    BY <1>1, <1>2, <1>4, PhaseMoves

\* The statement is planned, a scan or a stream is started again, the client cancels.
LEMMA StepPlan ==
    ASSUME IInv, Plan \/ Cancel \/ (\E s \in Scans : RestartScan(s))
    PROVE  IInv'
  <1>1. affected \in Nat \cup {None}
    BY DEF IInv, TypeOK
  <1>2. MovesOn
    BY DEF Plan, Cancel, RestartScan, Throws, MovesOn
  <1>3. UNCHANGED <<entry, host, live, gens, counter, call>> /\ UNCHANGED writeVars
    BY DEF Plan, Cancel, RestartScan, hostVars
  <1> QED
    BY <1>1, <1>2, <1>3, OnlyPhase DEF writeVars

\* A statement with nothing to write ends.
LEMMA StepFinalizeEmpty ==
    ASSUME IInv, FinalizeEmpty
    PROVE  IInv'
  <1>1. affected' \in Nat \cup {None} /\ MovesOn
    BY DEF FinalizeEmpty, MovesOn
  <1> QED
    BY <1>1, OnlyPhase DEF FinalizeEmpty, hostVars

\* The host registers or withdraws while the statement runs.
LEMMA StepHostRegisters ==
    ASSUME IInv, NEW h \in Hosts, HostStep(h), UNCHANGED writeVars
    PROVE  IInv'
  <1>1. UNCHANGED <<phase, call>>
    BY DEF HostStep, Teardown, Register, DropEntries, RemoveUdfs, CloseStreams
  <1>2. StreamInv'
    BY StepHost DEF IInv
  <1>3. (Begun \subseteq Streams)'
    BY <1>1 DEF IInv, Begun, Streams, writeVars
  <1>4. (payload # None \/ phase = "writing") => Settled'
    BY <1>1 DEF IInv, SentWhenSettled, Settled
  <1>5. MovesOn /\ affected' \in Nat \cup {None}
    BY <1>1 DEF IInv, TypeOK, MovesOn, writeVars
  <1> QED
    BY <1>2, <1>3, <1>4, <1>5, PhaseMoves DEF writeVars

\* What a step of one stream does to the others, to the phase and to a stream that is at its end.
LEMMA StreamAlone ==
    ASSUME StreamInv, NEW s \in Scans,
           StreamStep(s) \/ BeginOpen(s) \/ RestartStream(s) \/ EnoughRows(s)
    PROVE  /\ \A t \in Scans : t # s => call'[t] = call[t]
           /\ phase' \in {phase, "failed"}
           /\ call[s].step \in {"none", "ended", "gone"} /\ phase \in {"writing", "done", "failed"} =>
                 call'[s].step \in {"none", "ended", "gone"} /\ call'[s].decoder = call[s].decoder
  <1>1. call \in [Scans -> Calls] /\ call[s] \in Calls
    BY SMTT(30) DEF StreamInv, StreamTypeOK
  <1>2. CASE OpenFails(s) \/ OpenSucceeds(s) \/ PrepareNext(s) \/ TakeHostStreamOnce(s) \/ PopBatch(s)
    BY <1>1, <1>2 DEF OpenFails, OpenSucceeds, PrepareNext, TakeHostStreamOnce, PopBatch, Throws
  <1>3. CASE CallNext(s) \/ NextRaises(s)
    BY <1>1, <1>3 DEF CallNext, NextRaises, Throws
  <1>4. CASE NextEnds(s)
    BY <1>1, <1>4 DEF NextEnds, CloseOnce
  <1>5. CASE NextYields(s)
    BY <1>1, <1>5 DEF NextYields, CloseOnce, Throws
  <1>6. CASE Release(s)
    <2> DEFINE c == [call[s] EXCEPT !.step = "gone"]
               c1 == [c EXCEPT !.closed = TRUE]
    <2>1. call' = [call EXCEPT ![s] = c1] \/ call' = [call EXCEPT ![s] = c]
      BY <1>6 DEF Release, CloseOnce
    <2>2. /\ c.step = "gone" /\ c.decoder = call[s].decoder
          /\ c1.step = "gone" /\ c1.decoder = call[s].decoder
      BY <1>1 DEF Calls
    <2>3. phase' = phase
      BY <1>6 DEF Release
    <2> HIDE DEF c, c1
    <2> QED
      BY <1>1, <2>1, <2>2, <2>3
  <1>7. CASE BeginOpen(s)
    BY <1>1, <1>7 DEF BeginOpen, Throws
  <1>8. CASE RestartStream(s) \/ EnoughRows(s)
    BY <1>1, <1>8 DEF RestartStream, EnoughRows, Throws
  <1> QED
    BY <1>2, <1>3, <1>4, <1>5, <1>6, <1>7, <1>8 DEF StreamStep

\* A stream of the statement takes a step.
LEMMA StepStream ==
    ASSUME IInv, NEW s \in Streams, UNCHANGED writeVars,
           StreamStep(s) \/ BeginOpen(s) \/ RestartStream(s) \/ EnoughRows(s)
    PROVE  IInv'
  <1>1. s \in Scans /\ StreamInv
    BY DEF Streams, IInv
  <1>2. StreamInv'
    <2>1. CASE StreamStep(s)
      BY <1>1, <2>1, StepOpenFails, StepOpenSucceeds, StepPrepareNext, StepTake, StepPop, StepCallNext,
         StepNextEnds, StepNextRaises, StepNextYields, StepRelease DEF StreamStep
    <2>2. CASE BeginOpen(s)
      BY <1>1, <2>2, StepBegin
    <2>3. CASE RestartStream(s)
      BY <1>1, <2>3, Unchanged DEF RestartStream, hostVars
    <2>4. CASE EnoughRows(s)
      BY <1>1, <2>4, StepEnough
    <2> QED
      BY <2>1, <2>2, <2>3, <2>4
  <1>3. /\ \A t \in Scans : t # s => call'[t] = call[t]
        /\ phase' \in {phase, "failed"}
        /\ call[s].step \in {"none", "ended", "gone"} /\ phase \in {"writing", "done", "failed"} =>
              call'[s].step \in {"none", "ended", "gone"} /\ call'[s].decoder = call[s].decoder
    BY <1>1, StreamAlone
  <1>4. (Begun \subseteq Streams)'
    <2>1. Streams' = Streams
      BY DEF Streams, writeVars
    <2>2. Begun' \subseteq Begun \cup {s}
      BY <1>3 DEF Begun
    <2> QED
      BY <2>1, <2>2 DEF IInv
  <1>5. (payload # None \/ phase = "writing") => Settled'
    BY <1>1, <1>3 DEF IInv, SentWhenSettled, Settled
  <1>6. MovesOn /\ affected' \in Nat \cup {None}
    BY <1>3 DEF IInv, TypeOK, MovesOn, writeVars
  <1> QED
    BY <1>2, <1>4, <1>5, <1>6, PhaseMoves DEF writeVars

--------------------------------------------------------------------------------
(* The scans of a table *)

\* While the statement runs nothing has been sent, so only the scans, the key buffer and the sink
\* can be out of order.
LEMMA WhileRunning ==
    ASSUME IInv, phase = "run", UNCHANGED <<phase, entry, host, live, gens, counter, call>>,
           UNCHANGED <<stmt, payload, outcome, affected>>,
           scan' \in [Scans -> TableScan], buffer' \in Seq({Key[r] : r \in Table}),
           passed' \in Seq(Rows), sunk' \in Seq(ScannedRow),
           RowsAreTheTables', IdsAreIndexes', SinkHolds'
    PROVE  IInv'
  <1>1. StreamInv'
    BY Unchanged DEF IInv
  <1>2. TypeOK'
    BY <1>1 DEF IInv, TypeOK, StreamInv
  <1>3. (Begun \subseteq Streams)'
    BY DEF IInv, Begun, Streams
  <1>4. SentWhenSettled'
    BY DEF IInv, SentWhenSettled
  <1>5. WrittenLast' /\ HiddenRowsAreReported'
    BY DEF IInv, WrittenLast, HiddenRowsAreReported
  <1> QED
    BY <1>1, <1>2, <1>3, <1>4, <1>5 DEF IInv

\* A scan that gives no row out.
LEMMA ScanReads ==
    ASSUME IInv, phase = "run", UNCHANGED <<phase, entry, host, live, gens, counter, call>>,
           UNCHANGED <<stmt, buffer, passed, sunk, payload, outcome, affected>>,
           NEW s \in Scans, NEW x \in TableScan, scan' = [scan EXCEPT ![s] = x],
           x.batches \in Seq(Seq(Table)), x.hand \in [Workers -> Seq(Table)],
           x.emitted = scan[s].emitted
    PROVE  IInv'
  <1>1. scan' \in [Scans -> TableScan] /\ \A t \in Scans : scan'[t] = IF t = s THEN x ELSE scan[t]
    BY DEF IInv, TypeOK
  <1>2. \A t \in Scans : scan'[t].emitted = scan[t].emitted
    BY <1>1
  <1>3. RowsAreTheTables'
    BY <1>1, <1>2 DEF IInv, RowsAreTheTables
  <1>4. IdsAreIndexes'
    BY <1>2 DEF IInv, IdsAreIndexes, Resolves
  <1>5. SinkHolds'
    BY DEF IInv, SinkHolds, Resolves
  <1>6. /\ buffer' \in Seq({Key[r] : r \in Table}) /\ passed' \in Seq(Rows) /\ sunk' \in Seq(ScannedRow)
    BY DEF IInv, TypeOK
  <1> QED
    BY <1>1, <1>3, <1>4, <1>5, <1>6, WhileRunning

\* The fields of a scan.
LEMMA ScanFields ==
    ASSUME IInv, NEW s \in Scans
    PROVE  /\ scan[s] \in TableScan
           /\ scan[s].batches \in Seq(Seq(Table)) /\ scan[s].hand \in [Workers -> Seq(Table)]
           /\ scan[s].emitted \subseteq ScannedRow
           /\ \A q \in scan[s].emitted : q.row \in Table
  <1>1. scan[s] \in TableScan
    BY DEF IInv, TypeOK
  <1>2. scan[s].emitted \subseteq ScannedRow
    BY <1>1 DEF TableScan
  <1> QED
    BY <1>1, <1>2 DEF IInv, RowsAreTheTables

\* Rows of the table are rows.
LEMMA TableRows == Seq(Table) \subseteq Seq(Rows) /\ Seq(Seq(Table)) \subseteq Seq(Seq(Rows))
  <1>1. Seq(Table) \subseteq Seq(Rows)
    <2>1. Table \subseteq Rows
      BY WriteAssumption
    <2> QED
      BY <2>1
  <1> QED
    BY <1>1

\* What a usable answer holds is rows of the table.
LEMMA ReadsTheTable ==
    ASSUME NEW batches \in ReadBatches
    PROVE  batches \in Seq(Seq(Table))
  <1>1. PICK a \in Usable : batches = PushFrame(NewDecoder, a.frame).batches
    BY DEF ReadBatches
  <1>2. a \in Answers(Table)
    BY WriteAssumption DEF Usable
  <1>3. a.frame \in Seq(Messages(Table)) /\ NewDecoder \in Decoders(Table)
    BY <1>2, AnswerFields, DecoderFields
  <1>4. PushFrame(NewDecoder, a.frame) \in Decoders(Table)
    BY <1>3, PushKeeps
  <1> QED
    BY <1>1, <1>4, DecoderFields

\* A scan of a table is started: its answer is read whole, or refused.
LEMMA StepStartScan ==
    ASSUME IInv, NEW s \in Scans, StartScan(s)
    PROVE  IInv'
  <1>2. ASSUME NEW batches \in ReadBatches, UNCHANGED phase,
               scan' = [scan EXCEPT ![s].consumed = TRUE, ![s].batches = batches]
        PROVE  IInv'
    <2> DEFINE x == [scan[s] EXCEPT !.consumed = TRUE, !.batches = batches]
    <2>1. scan[s] \in TableScan /\ scan[s].hand \in [Workers -> Seq(Table)]
      BY ScanFields
    <2>2. batches \in Seq(Seq(Table)) /\ batches \in Seq(Seq(Rows))
      BY ReadsTheTable, TableRows
    <2>3. /\ x \in TableScan /\ x.batches = batches /\ x.hand = scan[s].hand
          /\ x.emitted = scan[s].emitted
      BY <2>1, <2>2 DEF TableScan
    <2>4. scan' = [scan EXCEPT ![s] = x]
      BY <1>2 DEF IInv, TypeOK
    <2> HIDE DEF x
    <2>5. phase = "run" /\ UNCHANGED <<phase, entry, host, live, gens, counter, call>>
          /\ UNCHANGED <<stmt, buffer, passed, sunk, payload, outcome, affected>>
      BY <1>2 DEF StartScan, hostVars
    <2> QED
      BY <2>1, <2>2, <2>3, <2>4, <2>5, ScanReads
  <1>3. ASSUME Throws, UNCHANGED scan PROVE IInv'
    <2>1. MovesOn /\ affected' \in Nat \cup {None}
      BY <1>3 DEF Throws, MovesOn, IInv, TypeOK, StartScan
    <2> QED
      BY <1>3, <2>1, OnlyPhase DEF StartScan, hostVars
  <1> QED
    BY <1>2, <1>3 DEF StartScan

\* A thread takes a batch.
LEMMA StepTakeBatch ==
    ASSUME IInv, NEW s \in Scans, NEW w \in Workers, TakeBatch(s, w)
    PROVE  IInv'
  <1> DEFINE b == scan[s].batches
             x == [scan[s] EXCEPT !.hand[w] = Head(b), !.batches = Tail(b)]
             hand == [scan[s].hand EXCEPT ![w] = Head(b)]
  <1>1. /\ phase = "run" /\ b # <<>> /\ UNCHANGED <<phase, entry, host, live, gens, counter, call>>
        /\ UNCHANGED <<stmt, buffer, passed, sunk, payload, outcome, affected>>
    BY DEF TakeBatch, streamVars
  <1>2. scan[s] \in TableScan /\ b \in Seq(Seq(Table)) /\ scan[s].hand \in [Workers -> Seq(Table)]
    BY ScanFields
  <1>3. Head(b) \in Seq(Table) /\ Tail(b) \in Seq(Seq(Table))
    BY <1>1, <1>2, HeadTailProperties
  <1>4. hand \in [Workers -> Seq(Table)]
    BY <1>2, <1>3
  <1>5. hand \in [Workers -> Seq(Rows)] /\ Tail(b) \in Seq(Seq(Rows))
    BY <1>3, <1>4, TableRows
  <1>6. x = [scan[s] EXCEPT !.hand = hand, !.batches = Tail(b)]
    BY <1>2 DEF TableScan
  <1>7. scan' = [scan EXCEPT ![s] = x]
    BY DEF TakeBatch, IInv, TypeOK
  <1> HIDE DEF x, hand, b
  <1>8. x \in TableScan /\ x.batches = Tail(b) /\ x.hand = hand /\ x.emitted = scan[s].emitted
    BY <1>2, <1>5, <1>6 DEF TableScan
  <1> QED
    BY <1>1, <1>3, <1>4, <1>7, <1>8, ScanReads

\* The key of a row is appended to the buffer: earlier ids still lead where they led.
LEMMA BufferGrows ==
    ASSUME NEW K, NEW keys \in Seq(K), NEW k \in K
    PROVE  /\ \A q : Resolves(q, keys) => Resolves(q, Append(keys, k))
           /\ \A q : q.id = Len(keys) /\ k = Key[q.row] => Resolves(q, Append(keys, k))
  <1>1. /\ Len(keys) \in Nat /\ Len(Append(keys, k)) = Len(keys) + 1
        /\ \A i \in 1..Len(keys) : Append(keys, k)[i] = keys[i]
        /\ Append(keys, k)[Len(keys) + 1] = k
    OBVIOUS
  <1> DEFINE after == Append(keys, k)
             n == Len(keys)
  <1>2. n \in Nat /\ Len(after) = n + 1 /\ (\A i \in 1..n : after[i] = keys[i]) /\ after[n + 1] = k
    BY <1>1
  <1> HIDE DEF after
  <1>3. ASSUME NEW q, Resolves(q, keys) PROVE Resolves(q, after)
    <2>1. q.id \in 0..(n - 1) /\ keys[q.id + 1] = Key[q.row]
      BY <1>3 DEF Resolves
    <2>2. q.id + 1 \in 1..n /\ q.id \in 0..(Len(after) - 1)
      BY <1>2, <2>1
    <2> QED
      BY <1>2, <2>1, <2>2 DEF Resolves
  <1>4. ASSUME NEW q, q.id = n, k = Key[q.row] PROVE Resolves(q, after)
    <2>1. q.id \in 0..(Len(after) - 1)
      BY <1>2, <1>4
    <2> QED
      BY <1>2, <1>4, <2>1 DEF Resolves
  <1> QED
    BY <1>3, <1>4 DEF after

\* A scan gives a row out, with its id if there is a key buffer.
LEMMA RowLeaves ==
    ASSUME IInv, phase = "run", UNCHANGED <<phase, entry, host, live, gens, counter, call>>,
           UNCHANGED <<stmt, passed, sunk, payload, outcome, affected>>,
           NEW s \in Scans, NEW w \in Workers, scan[s].hand[w] # <<>>,
           NEW q \in ScannedRow, q.row = Head(scan[s].hand[w]),
           scan' = [scan EXCEPT ![s].hand[w] = Tail(@), ![s].emitted = @ \cup {q}],
           \/ q.id = None /\ UNCHANGED buffer
           \/ q.id = Len(buffer) /\ buffer' = Append(buffer, Key[q.row])
    PROVE  IInv'
  <1> DEFINE hand == [scan[s].hand EXCEPT ![w] = Tail(@)]
             out == scan[s].emitted \cup {q}
             x == [scan[s] EXCEPT !.hand = hand, !.emitted = out]
             K == {Key[r] : r \in Table}
  <1>1. /\ scan[s] \in TableScan /\ scan[s].batches \in Seq(Seq(Table))
        /\ scan[s].hand \in [Workers -> Seq(Table)] /\ scan[s].emitted \subseteq ScannedRow
        /\ \A r \in scan[s].emitted : r.row \in Table
    BY ScanFields
  <1>2. q.row \in Table /\ Tail(scan[s].hand[w]) \in Seq(Table)
    <2>1. scan[s].hand[w] \in Seq(Table)
      BY <1>1
    <2> QED
      BY <2>1, HeadTailProperties
  <1>3. hand \in [Workers -> Seq(Table)]
    BY <1>1, <1>2
  <1>4. hand \in [Workers -> Seq(Rows)]
    BY <1>3, TableRows
  <1>5. scan' = [scan EXCEPT ![s] = x]
    BY <1>1 DEF IInv, TypeOK, TableScan
  <1>6. out \in SUBSET ScannedRow
    BY <1>1
  <1> HIDE DEF hand, out
  <1>7. x \in TableScan /\ x.batches = scan[s].batches /\ x.hand = hand /\ x.emitted = out
    BY <1>1, <1>4, <1>6 DEF TableScan
  <1> HIDE DEF x
  <1>8. scan' \in [Scans -> TableScan] /\ \A t \in Scans : scan'[t] = IF t = s THEN x ELSE scan[t]
    BY <1>5, <1>7, ZenonT(30) DEF IInv, TypeOK
  <1>9. RowsAreTheTables'
    BY <1>1, <1>2, <1>3, <1>7, <1>8 DEF IInv, RowsAreTheTables, out
  <1>10. buffer \in Seq(K) /\ Key[q.row] \in K /\ Len(buffer) \in Nat
    BY <1>2 DEF IInv, TypeOK
  <1>11. buffer' \in Seq(K)
    BY <1>10, AppendProperties
  <1> HIDE DEF K
  <1>12. \A r : Resolves(r, buffer) => Resolves(r, buffer')
    BY <1>10, BufferGrows
  <1>13. q.id # None => q.id = Len(buffer) /\ Resolves(q, buffer')
    BY <1>10, BufferGrows
  <1>14. \A t \in Scans : \A r \in scan'[t].emitted : r \in scan[t].emitted \/ (t = s /\ r = q)
    BY <1>7, <1>8 DEF out
  <1>15. \A t \in Scans : \A r \in scan[t].emitted :
            r.id # None => Resolves(r, buffer) /\ r.id # Len(buffer)
    <2>1. \A t \in Scans : \A r \in scan[t].emitted : r.id # None => Resolves(r, buffer)
      BY DEF IInv, IdsAreIndexes
    <2>2. \A r : Resolves(r, buffer) => r.id # Len(buffer)
      BY <1>10 DEF Resolves
    <2> QED
      BY <2>1, <2>2
  <1>16. IdsAreIndexes'
    <2> SUFFICES ASSUME NEW t \in Scans, NEW u \in Scans,
                        NEW a \in scan'[t].emitted, NEW b \in scan'[u].emitted, a.id # None
                 PROVE  Resolves(a, buffer') /\ (a.id = b.id => t = u /\ a = b)
      BY DEF IdsAreIndexes
    <2>1. CASE a \in scan[t].emitted /\ b \in scan[u].emitted
      BY <1>12, <2>1 DEF IInv, IdsAreIndexes
    <2>2. CASE a \in scan[t].emitted /\ u = s /\ b = q
      BY <1>12, <1>13, <1>15, <2>2
    <2>3. CASE t = s /\ a = q /\ b \in scan[u].emitted
      BY <1>13, <1>15, <2>3
    <2>4. CASE t = s /\ a = q /\ u = s /\ b = q
      BY <1>13, <2>4
    <2> QED
      BY <1>14, <2>1, <2>2, <2>3, <2>4
  <1>17. SinkHolds'
    BY <1>12 DEF IInv, SinkHolds
  <1>18. passed' \in Seq(Rows) /\ sunk' \in Seq(ScannedRow)
    BY SMTT(30) DEF IInv, TypeOK
  <1> QED
    BY <1>8, <1>9, <1>11, <1>16, <1>17, <1>18, WhileRunning DEF K

\* A thread gives a row out, or fails over its key.
LEMMA StepEmitRow ==
    ASSUME IInv, NEW s \in Scans, NEW w \in Workers, EmitRow(s, w)
    PROVE  IInv'
  <1> DEFINE row == Head(scan[s].hand[w])
             q(id) == [row |-> row, id |-> id]
             emits(id) == scan' = [scan EXCEPT ![s].hand[w] = Tail(@), ![s].emitted = @ \cup {q(id)}]
  <1>1. /\ phase = "run" /\ scan[s].hand[w] # <<>>
        /\ UNCHANGED <<entry, host, live, gens, counter, call>>
        /\ UNCHANGED <<stmt, passed, sunk, payload, outcome, affected>>
        /\ \/ emits(None) /\ UNCHANGED <<phase, buffer>>
           \/ buffer' = Append(buffer, Key[row]) /\ emits(Len(buffer)) /\ UNCHANGED phase
           \/ Throws /\ UNCHANGED <<buffer, scan>>
    BY DEF EmitRow, AppendsKey, NewRowId, hostVars
  <1>2. row \in Rows /\ Len(buffer) \in Nat
    <2>1. scan[s].hand[w] \in Seq(Table)
      BY ScanFields
    <2>2. row \in Table
      BY <1>1, <2>1, HeadTailProperties
    <2>3. Len(buffer) \in Nat
      BY DEF IInv, TypeOK
    <2> QED
      BY <2>2, <2>3, WriteAssumption
  <1>3. \A id \in Nat \cup {None} : q(id) \in ScannedRow /\ q(id).row = row /\ q(id).id = id
    BY <1>2 DEF ScannedRow
  <1>4. CASE emits(None) /\ UNCHANGED <<phase, buffer>>
    <2> DEFINE r == q(None)
    <2>1. r \in ScannedRow /\ r.row = Head(scan[s].hand[w]) /\ r.id = None
      BY <1>3
    <2>2. scan' = [scan EXCEPT ![s].hand[w] = Tail(@), ![s].emitted = @ \cup {r}]
      BY <1>4
    <2> HIDE DEF r
    <2> QED
      BY <1>1, <1>4, <2>1, <2>2, RowLeaves
  <1>5. CASE buffer' = Append(buffer, Key[row]) /\ emits(Len(buffer)) /\ UNCHANGED phase
    <2> DEFINE r == q(Len(buffer))
    <2>1. r \in ScannedRow /\ r.row = Head(scan[s].hand[w]) /\ r.id = Len(buffer)
      BY <1>2, <1>3
    <2>2. scan' = [scan EXCEPT ![s].hand[w] = Tail(@), ![s].emitted = @ \cup {r}]
      BY <1>5
    <2>3. buffer' = Append(buffer, Key[r.row])
      BY <1>5, <2>1
    <2> HIDE DEF r
    <2> QED
      BY <1>1, <1>5, <2>1, <2>2, <2>3, RowLeaves
  <1>6. CASE Throws /\ UNCHANGED <<buffer, scan>>
    <2>1. MovesOn /\ affected' \in Nat \cup {None}
      BY <1>1, <1>6 DEF Throws, MovesOn, IInv, TypeOK
    <2> QED
      BY <1>1, <1>6, <2>1, OnlyPhase
  <1> QED
    BY <1>1, <1>4, <1>5, <1>6

--------------------------------------------------------------------------------
(* The sink and the write *)

\* A row reaches the sink.
LEMMA StepPassRow ==
    ASSUME IInv, PassRow
    PROVE  IInv'
  <1>1. PICK r \in Emitted : passed' = Append(passed, r.row) /\ sunk' = Append(sunk, r)
    BY DEF PassRow, Sink
  <1>2. /\ phase = "run" /\ stmt.kind \in Verbs
        /\ UNCHANGED <<phase, entry, host, live, gens, counter, call>>
        /\ UNCHANGED <<stmt, scan, buffer, payload, outcome, affected>>
    BY DEF PassRow, streamVars
  <1>3. TableScans \subseteq Scans /\ Streams \subseteq Scans
    BY WriteAssumption DEF IInv, TypeOK, Statement, TableScans, Streams
  <1>4. ASSUME NEW s \in Scans, r \in scan[s].emitted
        PROVE  r \in ScannedRow /\ r.row \in Table /\ (r.id # None => Resolves(r, buffer))
    <2>1. r.id # None => Resolves(r, buffer)
      BY <1>4 DEF IInv, IdsAreIndexes
    <2> QED
      BY <1>4, <2>1, ScanFields
  <1>5. ASSUME NEW s \in Scans, NEW x \in ToSet(call[s].got), r = [row |-> x, id |-> None]
        PROVE  r \in ScannedRow /\ r.id = None
    <2>1. call[s].got \in Seq(Rows)
      BY CallFields, OneCall DEF IInv
    <2>2. x \in Rows
      BY <2>1 DEF ToSet
    <2> QED
      BY <1>5, <2>2 DEF ScannedRow
  <1>6. /\ r \in ScannedRow /\ (r.id # None => Resolves(r, buffer))
        /\ stmt.kind # "insert" => r.row \in Table
    <2>1. CASE stmt.kind = "insert"
      <3>1. \/ \E s \in Scans : r \in scan[s].emitted
            \/ \E s \in Scans : \E x \in ToSet(call[s].got) : r = [row |-> x, id |-> None]
        BY <1>3, <2>1 DEF Emitted
      <3> QED
        BY <1>4, <1>5, <2>1, <3>1
    <2>2. CASE stmt.kind # "insert"
      <3>1. \E s \in Scans : r \in scan[s].emitted
        BY <1>3, <2>2 DEF Emitted
      <3> QED
        BY <1>4, <3>1
    <2> QED
      BY <2>1, <2>2
  <1>7. r.row \in Rows
    BY <1>6 DEF ScannedRow
  <1>8. passed \in Seq(Rows) /\ sunk \in Seq(ScannedRow)
    BY DEF IInv, TypeOK
  <1>9. /\ passed' \in Seq(Rows) /\ sunk' \in Seq(ScannedRow)
        /\ Len(passed') = Len(passed) + 1 /\ Len(sunk') = Len(sunk) + 1
        /\ \A i \in 1..Len(passed) : passed'[i] = passed[i]
        /\ \A i \in 1..Len(sunk) : sunk'[i] = sunk[i]
        /\ passed'[Len(passed) + 1] = r.row /\ sunk'[Len(sunk) + 1] = r
    BY <1>1, <1>6, <1>7, <1>8, AppendProperties
  <1>10. SinkHolds'
    <2>1. Len(sunk) = Len(passed) /\ Len(sunk) \in Nat /\ Len(sunk') = Len(passed')
      BY <1>8, <1>9 DEF IInv, SinkHolds
    <2>2. ASSUME NEW i \in 1..Len(sunk')
          PROVE  sunk'[i].row = passed'[i] /\ (sunk'[i].id # None => Resolves(sunk'[i], buffer))
      <3>1. CASE i \in 1..Len(sunk)
        BY <1>9, <2>1, <3>1 DEF IInv, SinkHolds
      <3>2. CASE i = Len(sunk) + 1
        BY <1>6, <1>9, <2>1, <3>2
      <3> QED
        BY <1>9, <2>1, <3>1, <3>2
    <2>3. stmt.kind # "insert" => passed' \in Seq(Table)
      BY <1>1, <1>6, AppendProperties DEF IInv, SinkHolds
    <2> QED
      BY <1>2, <2>1, <2>2, <2>3 DEF SinkHolds
  <1>11. RowsAreTheTables' /\ IdsAreIndexes'
    BY <1>2 DEF IInv, RowsAreTheTables, IdsAreIndexes, Resolves
  <1>12. scan' \in [Scans -> TableScan] /\ buffer' \in Seq({Key[x] : x \in Table})
    BY <1>2 DEF IInv, TypeOK
  <1> QED
    BY <1>2, <1>9, <1>10, <1>11, <1>12, WhileRunning

\* What the provider is sent of the sunk rows is what was to be sent.
LEMMA SentIsExpected ==
    ASSUME IInv, sunk # <<>>, Resolvable
    PROVE  [i \in 1..Len(sunk) |-> Sent(sunk[i])] = Expected
  <1>1. Len(sunk) = Len(passed) /\ stmt.kind \in Verbs
    BY DEF IInv, SinkHolds
  <1>2. ASSUME NEW i \in 1..Len(sunk)
        PROVE  Sent(sunk[i]) = CASE stmt.kind = "insert" -> <<passed[i]>>
                                 [] stmt.kind = "delete" -> <<Key[passed[i]]>>
                                 [] stmt.kind = "update" -> <<Key[passed[i]], passed[i]>>
    <2>1. sunk[i].row = passed[i]
      BY DEF IInv, SinkHolds
    <2>2. stmt.kind # "insert" => PKBufferRow(sunk[i]) = Key[passed[i]]
      <3> SUFFICES ASSUME stmt.kind # "insert" PROVE PKBufferRow(sunk[i]) = Key[passed[i]]
        OBVIOUS
      <3>1. sunk[i].id # None
        BY DEF Resolvable, InRange
      <3>2. Resolves(sunk[i], buffer)
        BY <3>1 DEF IInv, SinkHolds
      <3> QED
        BY <2>1, <3>2 DEF Resolves, PKBufferRow
    <2> QED
      BY <1>1, <2>1, <2>2 DEF Sent, Verbs
  <1> QED
    BY <1>1, <1>2 DEF Expected

\* Finalize up to the call: the rows are resolved, cut into chunks and encoded.
LEMMA StepFinalize ==
    ASSUME IInv, Finalize
    PROVE  IInv'
  <1> DEFINE rows == [i \in 1..Len(sunk) |-> Sent(sunk[i])]
             R == {rows[i] : i \in 1..Len(sunk)}
  <1>0. /\ phase = "run" /\ Drained /\ sunk # <<>>
        /\ phase' = IF Resolvable THEN "writing" ELSE "failed"
        /\ payload' = IF Resolvable THEN Encode(Chunks(rows)) ELSE None
        /\ UNCHANGED <<entry, host, live, gens, counter, call>>
        /\ UNCHANGED <<stmt, scan, buffer, passed, sunk, outcome, affected>>
    BY DEF Finalize, hostVars
  <1>1. StreamInv'
    BY <1>0, Unchanged DEF IInv
  <1>2. TypeOK'
    BY <1>0, <1>1 DEF IInv, TypeOK, StreamInv
  <1>3. (Begun \subseteq Streams)'
    BY <1>0 DEF IInv, Begun, Streams
  <1>4. RowsAreTheTables' /\ IdsAreIndexes' /\ SinkHolds' /\ Expected' = Expected
    BY <1>0, ScansStay
  <1>5. WrittenLast' /\ HiddenRowsAreReported'
    BY <1>0 DEF IInv, WrittenLast, HiddenRowsAreReported
  <1>6. Settled'
    <2>1. ASSUME NEW s \in Scans
          PROVE  call[s].step \in {"none", "ended", "gone"} /\ ~call[s].decoder.failed
      <3>1. Sound(call[s], gens, counter)
        BY DEF IInv, StreamInv
      <3>2. CASE call[s].step = "none"
        BY <3>1, <3>2 DEF Sound, NoCall, NewDecoder
      <3>3. CASE call[s].step # "none"
        <4>1. call[s].step = "ended"
          BY <1>0, <3>3 DEF Drained, IInv, Begun
        <4> QED
          BY <3>1, <4>1 DEF Sound, InUse
      <3> QED
        BY <3>2, <3>3
    <2> QED
      BY <1>0, <2>1 DEF Settled
  <1>7. SentWhenSettled'
    <2>1. CASE ~Resolvable
      BY <1>0, <2>1 DEF SentWhenSettled
    <2>2. CASE Resolvable
      <3>1. sunk \in Seq(ScannedRow) /\ stmt.kind \in Verbs
        BY <1>0 DEF IInv, TypeOK, SinkHolds
      <3>2. rows \in Seq(R)
        BY <3>1
      <3>3. rows = Expected
        BY <1>0, <2>2, SentIsExpected
      <3> HIDE DEF rows, R
      <3>4. Chunks(rows) \in Seq(Seq(R)) /\ FlattenSeq(Chunks(rows)) = rows
        BY <3>2, ChunksAreRows
      <3>5. FlattenSeq(PushFrame(NewDecoder, Encode(Chunks(rows))).batches) = rows
        BY <3>4, EncodedIsDecoded
      <3>6. payload' = Encode(Chunks(rows))
        BY <1>0, <2>2
      <3>7. Received' = rows
        BY <3>5, <3>6 DEF Received
      <3> QED
        BY <1>0, <1>4, <1>6, <2>2, <3>1, <3>3, <3>7 DEF SentWhenSettled
    <2> QED
      BY <2>1, <2>2
  <1> QED
    BY <1>1, <1>2, <1>3, <1>4, <1>5, <1>7 DEF IInv

\* The rows of a sequence without repetitions are as many as it is long.
LEMMA InjectiveCount ==
    ASSUME NEW S, NEW q \in Seq(S), IsInjective(q)
    PROVE  IsFiniteSet(ToSet(q)) /\ Cardinality(ToSet(q)) = Len(q)
  <1> DEFINE n == Len(q)
             T == ToSet(q)
  <1>1. n \in Nat /\ DOMAIN q = 1..n /\ q \in [1..n -> T] /\ \A x \in T : \E i \in 1..n : q[i] = x
    BY DEF ToSet
  <1>2. \A i, j \in 1..n : q[i] = q[j] => i = j
    BY <1>1 DEF IsInjective
  <1>3. IsFiniteSet(1..n) /\ Cardinality(1..n) = n
    <2>1. 1 \in Int /\ n \in Int /\ (1 > n => n = 0) /\ n - 1 + 1 = n
      BY <1>1
    <2> HIDE DEF n
    <2>2. IsFiniteSet(1..n) /\ Cardinality(1..n) = IF 1 > n THEN 0 ELSE n - 1 + 1
      BY <2>1, FS_Interval
    <2> QED
      BY <2>1, <2>2
  <1> HIDE DEF n, T
  <1>4. q \in Bijection(1..n, T)
    BY <1>1, <1>2 DEF Bijection, Injection, Surjection, IsInjective
  <1>5. ExistsBijection(1..n, T)
    BY <1>4 DEF ExistsBijection
  <1> QED
    BY <1>3, <1>5, FS_Bijection DEF n, T

\* What is written when the function runs, and that a count which is accepted covers no other row.
LEMMA WrittenRows ==
    ASSUME IInv, phase = "writing"
    PROVE  /\ Written \subseteq Rows /\ Len(Received) \in Nat
           /\ stmt.kind # "insert" => Cardinality(Written) \in Nat
           /\ stmt.kind # "insert" /\ IsInjective(passed) /\ Cardinality(Written) <= Len(sunk) =>
                 Written \subseteq ToSet(passed)
  <1>1. /\ Received = Expected /\ stmt.kind \in Verbs /\ passed \in Seq(Rows) /\ Len(sunk) = Len(passed)
        /\ stmt.kind # "insert" => passed \in Seq(Table)
    BY DEF IInv, SentWhenSettled, TypeOK, SinkHolds
  <1>2. Len(passed) \in Nat /\ \A i \in 1..Len(passed) : passed[i] \in Rows
    BY <1>1
  <1>3. Len(Received) = Len(passed)
    BY <1>1, <1>2 DEF Expected
  <1>4. \A i \in 1..Len(passed) :
          Received[i][1] = IF stmt.kind = "insert" THEN passed[i] ELSE Key[passed[i]]
    BY <1>1 DEF Expected, Verbs
  <1>5. CASE stmt.kind = "insert"
    <2>1. Written \subseteq Rows
      BY <1>2, <1>3, <1>4, <1>5 DEF Written
    <2> QED
      BY <1>2, <1>3, <1>5, <2>1
  <1>6. CASE stmt.kind # "insert"
    <2>1. Written \subseteq Table
      BY <1>6 DEF Written
    <2>2. IsFiniteSet(Written) /\ Cardinality(Written) \in Nat
      BY <2>1, FS_Subset, FS_CardinalityType, WriteAssumption
    <2>3. Written \subseteq Rows
      BY <2>1, WriteAssumption
    <2>4. ASSUME IsInjective(passed), Cardinality(Written) <= Len(sunk)
          PROVE  Written \subseteq ToSet(passed)
      <3>1. IsFiniteSet(ToSet(passed)) /\ Cardinality(ToSet(passed)) = Len(passed)
        BY <1>1, <2>4, InjectiveCount
      <3>2. ToSet(passed) \subseteq Written
        <4>1. ASSUME NEW i \in 1..Len(passed) PROVE passed[i] \in Written
          <5>1. passed[i] \in Table
            BY <1>1, <1>6
          <5>2. Key[passed[i]] = Received[i][1]
            BY <1>4, <1>6
          <5> QED
            BY <1>3, <1>6, <5>1, <5>2 DEF Written
        <4> QED
          BY <1>1, <4>1 DEF ToSet
      <3>3. Cardinality(ToSet(passed)) <= Cardinality(Written)
        BY <2>2, <3>2, FS_Subset
      <3>4. Cardinality(ToSet(passed)) = Cardinality(Written)
        BY <1>1, <1>2, <2>2, <2>4, <3>1, <3>3
      <3> QED
        BY <2>2, <3>2, <3>4, FS_Subset
    <2> QED
      BY <1>2, <1>3, <1>6, <2>2, <2>3, <2>4
  <1> QED
    BY <1>5, <1>6

\* The write function has been called.
LEMMA StepWriteUdf ==
    ASSUME IInv, WriteUdf
    PROVE  IInv'
  <1>0. /\ phase = "writing" /\ UNCHANGED <<entry, host, live, gens, counter, call>>
        /\ UNCHANGED <<stmt, scan, buffer, passed, sunk, payload>>
        /\ phase' \in {"done", "failed"}
    BY DEF WriteUdf, Throws, hostVars
  <1>1. StreamInv'
    BY <1>0, Unchanged DEF IInv
  <1>2. (Begun \subseteq Streams)'
    BY <1>0 DEF IInv, Begun, Streams
  <1>3. RowsAreTheTables' /\ IdsAreIndexes' /\ SinkHolds' /\ Expected' = Expected
    BY <1>0, ScansStay
  <1>4. SentWhenSettled'
    <2>1. Settled' /\ Received' = Received
      BY <1>0 DEF IInv, SentWhenSettled, Settled, Received
    <2> QED
      BY <1>0, <1>3, <2>1 DEF IInv, SentWhenSettled
  <1>5. WrittenLast'
    BY <1>0 DEF WrittenLast
  <1>6. /\ Written \subseteq Rows /\ Len(Received) \in Nat
        /\ stmt.kind # "insert" => Cardinality(Written) \in Nat
        /\ stmt.kind # "insert" /\ IsInjective(passed) /\ Cardinality(Written) <= Len(sunk) =>
              Written \subseteq ToSet(passed)
    BY <1>0, WrittenRows
  <1> DEFINE n == IF stmt.kind = "insert" THEN Len(Received) ELSE Cardinality(Written)
  <1>7. PICK rows \in {{}, Written}, answer \in {"raise", "null", "negative", "late", "count"} :
          /\ outcome' = [rows |-> rows, answer |-> answer]
          /\ affected' \in {affected, 0, n}
          /\ phase' = "done" /\ answer = "count" => stmt.kind = "insert" \/ n <= Len(sunk)
    <2>1. CASE Throws /\ outcome' = [NoOutcome EXCEPT !.answer = "raise"] /\ UNCHANGED affected
      <3>1. outcome' = [rows |-> {}, answer |-> "raise"] /\ phase' # "done"
        BY <2>1 DEF NoOutcome, Throws
      <3> QED
        BY <2>1, <3>1
    <2>2. CASE outcome' = [rows |-> Written, answer |-> "null"] /\ phase' = "done" /\ affected' = 0
      BY <2>2
    <2>3. CASE Throws /\ outcome' = [rows |-> Written, answer |-> "negative"] /\ UNCHANGED affected
      BY <2>3
    <2>4. CASE Throws /\ outcome' = [rows |-> Written, answer |-> "late"] /\ UNCHANGED affected
      BY <2>4
    <2>5. CASE /\ outcome' = [rows |-> Written, answer |-> "count"]
               /\ \/ /\ stmt.kind = "insert" \/ n <= Len(sunk)
                     /\ phase' = "done" /\ affected' = n
                  \/ Throws /\ UNCHANGED affected
      BY <2>5 DEF Throws
    <2> QED
      BY <2>1, <2>2, <2>3, <2>4, <2>5 DEF WriteUdf, EnsureKeyIsUnique
  <1>8. n \in Nat
    BY <1>6
  <1> HIDE DEF n
  <1>9. TypeOK'
    <2>1. outcome' \in [rows: SUBSET Rows, answer: {None, "raise", "null", "negative", "late", "count"}]
      BY <1>6, <1>7
    <2>2. affected' \in Nat \cup {None}
      BY <1>7, <1>8 DEF IInv, TypeOK
    <2> QED
      BY <1>0, <1>1, <2>1, <2>2 DEF IInv, TypeOK, StreamInv
  <1>10. HiddenRowsAreReported'
    <2> SUFFICES ASSUME phase' = "done", stmt.kind \in {"update", "delete"}, outcome'.answer = "count",
                        IsInjective(passed)
                 PROVE  outcome'.rows \subseteq ToSet(passed)
      BY <1>0 DEF HiddenRowsAreReported
    <2>1. answer = "count" /\ outcome'.rows = rows
      BY <1>7
    <2>2. Cardinality(Written) <= Len(sunk)
      BY <1>7, <2>1 DEF n
    <2> QED
      BY <1>6, <1>7, <2>1, <2>2
  <1> QED
    BY <1>1, <1>2, <1>3, <1>4, <1>5, <1>9, <1>10 DEF IInv

--------------------------------------------------------------------------------
(* The theorems *)

\* The statement starts with every scan and every stream still to come.
LEMMA InitIsSound == Init => IInv
  <1> SUFFICES ASSUME Init PROVE IInv
    OBVIOUS
  <1> USE DEF Init, StreamInit
  <1>1. Cardinality(Scans) \in Nat /\ 0 \in 0..Cardinality(Scans)
    BY StreamAssumption, FS_CardinalityType
  <1>2. NoCall \in Calls
    <2>1. NewDecoder \in Decoders(Rows) /\ <<>> \in Seq(Rows)
      BY DecoderFields
    <2> QED
      BY <2>1 DEF NoCall, Calls
  <1>3. StreamTypeOK
    BY <1>1, <1>2, StreamAssumption DEF StreamTypeOK
  <1>4. Begun = {}
    BY DEF Begun, NoCall
  <1>5. \A s \in Scans : Sound(call[s], gens, counter)
    BY DEF Sound, NoCall, InUse
  <1>6. StreamInv
    <2>1. Cardinality(Begun) = 0
      BY <1>4, FS_EmptySet
    <2> QED
      BY <1>3, <1>4, <1>5, <2>1 DEF StreamInv, HandlesDiffer
  <1>7. NoScan \in TableScan /\ NoScan.batches = <<>> /\ NoScan.emitted = {}
        /\ NoScan.hand \in [Workers -> Seq(Table)]
    BY DEF NoScan, TableScan
  <1>8. /\ \A s \in Scans : scan[s] = NoScan
        /\ scan \in [Scans -> TableScan]
    BY <1>7
  <1>9. TypeOK
    BY <1>3, <1>8 DEF TypeOK, NoOutcome
  <1>10. RowsAreTheTables /\ IdsAreIndexes
    <2>1. <<>> \in Seq(Seq(Table))
      OBVIOUS
    <2> QED
      BY <1>7, <1>8, <2>1 DEF RowsAreTheTables, IdsAreIndexes
  <1>11. SinkHolds /\ SentWhenSettled /\ WrittenLast /\ HiddenRowsAreReported
    BY DEF SinkHolds, SentWhenSettled, WrittenLast, HiddenRowsAreReported, NoOutcome
  <1> QED
    BY <1>4, <1>6, <1>9, <1>10, <1>11 DEF IInv

\* No step breaks the invariant.
LEMMA StepIsSound == IInv /\ [Next]_vars => IInv'
  <1> SUFFICES ASSUME IInv, [Next]_vars PROVE IInv'
    OBVIOUS
  <1>1. CASE Engine
    BY <1>1, StepStream, StepPlan, StepFinalizeEmpty, StepFinalize, StepWriteUdf, StepStartScan,
       StepTakeBatch, StepEmitRow DEF Engine
  <1>2. CASE Host
    BY <1>2, StepHostRegisters DEF Host
  <1>3. CASE Plans
    BY <1>3, StepPassRow, StepPlan, StepStream DEF Plans
  <1>4. CASE UNCHANGED vars
    <2>1. MovesOn /\ affected' \in Nat \cup {None}
      BY <1>4 DEF MovesOn, IInv, TypeOK, vars, writeVars, streamVars
    <2> QED
      BY <1>4, <2>1, OnlyPhase DEF vars, writeVars, streamVars
  <1> QED
    BY <1>1, <1>2, <1>3, <1>4 DEF Next

\* The inductive invariant: every call has a handle and a generator of its own, closed as often as it
\* says, and what it holds is what that generator sent; every row id leads to its row's key; and what
\* goes to the provider is what reached the sink, once every source is at its end.
THEOREM WritesAreSound == Spec => []IInv
  BY InitIsSound, StepIsSound, PTL DEF Spec

\* vcat_stream_function.cpp, provider_scan.cpp: the variables keep their types, whatever the sets of
\* scans, hosts, threads and rows.
THEOREM WriteTypeOK == Spec => []TypeOK
  <1>1. IInv => TypeOK
    BY DEF IInv
  <1> QED
    BY <1>1, WritesAreSound, PTL

\* vcat_stream_function.cpp:93: however many streams a statement reads, no generator is closed twice
\* and no two calls share a handle.
THEOREM StreamsAreClosedOnce == Spec => []ClosedOnce
  <1>1. ASSUME IInv PROVE ClosedOnce
    <2>1. ASSUME NEW n \in Handles, gens[n] # None PROVE gens[n].closes <= 1
      <3>1. PICK s \in Scans : call[s].opened /\ call[s].handle = n
        BY <1>1, <2>1 DEF IInv, StreamInv, Owned
      <3>2. Serves(call[s], gens[n])
        BY <1>1, <3>1 DEF IInv, StreamInv, Sound
      <3> QED
        BY <3>2 DEF Serves
    <2>2. ASSUME NEW s \in Scans, NEW t \in Scans, s # t, call[s].handle # None
          PROVE  call[s].handle # call[t].handle
      <3>1. \A u \in Scans : call[u].handle # None => u \in Begun
        BY <1>1 DEF IInv, StreamInv, Sound, NoCall, Begun
      <3> QED
        BY <1>1, <2>2, <3>1 DEF IInv, StreamInv, HandlesDiffer
    <2> QED
      BY <2>1, <2>2 DEF ClosedOnce
  <1> QED
    BY <1>1, WritesAreSound, PTL

\* vcat_stream_function.cpp:112: whatever frames a host sends, a call delivers the rows of its own
\* generator in order, and all of them if it was read to its end.
THEOREM StreamsDeliver == Spec => []DeliversWhatWasSent
  <1>1. ASSUME IInv PROVE DeliversWhatWasSent
    <2> SUFFICES ASSUME NEW s \in Scans, call[s].opened
                 PROVE  LET c == call[s]
                            g == gens[c.handle]
                        IN  /\ ~c.decoder.failed =>
                                  c.got \o FlattenSeq(c.decoder.batches) = RowsSent(g, g.pos)
                            /\ c.exhausted => /\ c.got = RowsSent(g, g.pos)
                                              /\ g.pos = Len(g.does.answers) \/ c.decoder.done
      BY DEF DeliversWhatWasSent
    <2> DEFINE c == call[s]
               g == gens[c.handle]
    <2>1. Serves(c, g) /\ c.got \in Seq(Rows)
      BY <1>1, OneCall, CallFields DEF IInv, Sound
    <2>2. ~c.decoder.failed => c.got \o FlattenSeq(c.decoder.batches) = RowsSent(g, g.pos)
      BY <2>1 DEF Serves, Glue
    <2>3. ASSUME c.exhausted
          PROVE  c.got = RowsSent(g, g.pos) /\ (g.pos = Len(g.does.answers) \/ c.decoder.done)
      <3>1. /\ c.decoder.batches = <<>> /\ (g.pos = Len(g.does.answers) \/ c.decoder.done)
            /\ Glue(c.got, FlattenSeq(c.decoder.batches)) = RowsSent(g, g.pos)
        BY <2>1, <2>3 DEF Serves
      <3>2. FlattenSeq(<<>>) = <<>>
        <4>1. <<>> \in Seq(Seq(Rows))
          OBVIOUS
        <4> QED
          BY <4>1, FlattenType
      <3> QED
        BY <2>1, <3>1, <3>2, GlueFacts
    <2> QED
      BY <2>2, <2>3
  <1> QED
    BY <1>1, WritesAreSound, PTL

\* vcat_pk_buffer.hpp:20: with any number of scans and threads filling one key buffer, a row's id
\* leads to the key of that row and to no other's.
THEOREM RowIdsName == Spec => []RowIdNamesItsRow
  <1>1. IInv => RowIdNamesItsRow
    BY DEF IInv, IdsAreIndexes, Resolves, RowIdNamesItsRow, TableScans
  <1> QED
    BY <1>1, WritesAreSound, PTL

\* provider_arrow.cpp:287: for every vector size and number of rows, chunking, encoding and decoding
\* give the provider the sunk rows in their order, each with its own key.
THEOREM WritesCarryTheRows == Spec => []WriteCarriesTheRows
  <1>1. IInv => WriteCarriesTheRows
    BY DEF IInv, SentWhenSettled, Expected, WriteCarriesTheRows
  <1> QED
    BY <1>1, WritesAreSound, PTL

\* provider_table_insert.cpp:36: a statement one of whose streams broke off sends nothing.
THEOREM BrokenSourcesWriteNothing == Spec => []NoWriteFromBrokenSource
  <1>1. IInv => NoWriteFromBrokenSource
    BY DEF IInv, SentWhenSettled, Settled, NoWriteFromBrokenSource
  <1> QED
    BY <1>1, WritesAreSound, PTL

\* vcat_key_check.hpp:23: for any table, keys and rows sunk, comparing the count with the keys sent
\* suffices to notice that a row the statement was not shown has been written.
THEOREM HiddenRowsAreNoticed == Spec => []HiddenRowsAreReported
  <1>1. IInv => HiddenRowsAreReported
    BY DEF IInv
  <1> QED
    BY <1>1, WritesAreSound, PTL

================================================================================
