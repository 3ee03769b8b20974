------------------------- MODULE EmbedDispatch_proofs -------------------------
(***************************************************************************)
(* Embedding a workspace: whatever the order in which slices are taken,     *)
(* batches refused, halved or failed and results landed, every chunk ends   *)
(* with the vector of its own text or with none, a slice as a whole, and    *)
(* the repositories counted as failed are those without any vector.         *)
(***************************************************************************)
EXTENDS EmbedDispatch, FiniteSetTheorems, SequenceTheorems, TLAPS

\* Ranges of texts.
Ranges == Int \X Int

\* The ranges todo one after the other, none empty, none touching a later one,
\* and no text between two of them left out.
Chained(todo) ==
    /\ todo \in Seq(Ranges)
    /\ \A k \in 1..Len(todo) : todo[k][1] <= todo[k][2]
    /\ \A k, l \in 1..Len(todo) : k < l => todo[k][2] < todo[l][1]
    /\ \A k \in 1..(Len(todo) - 1) : todo[k][2] + 1 = todo[k + 1][1]

\* P cuts the texts lo..hi into pieces of at most size.
Cut(P, lo, hi, size) ==
    /\ Chained(P) /\ P # << >>
    /\ \A k \in 1..Len(P) : Size(P[k]) <= size /\ lo <= P[k][1] /\ P[k][2] <= hi
    /\ \A j \in lo..hi : LET k == (j - lo) \div size + 1
                         IN  k \in 1..Len(P) /\ P[k][1] <= j /\ j <= P[k][2]

\* vecs are vectors of the texts of repository r from s on.
VectorsOf(r, s, vecs) ==
    /\ vecs \in Seq({ZeroVector} \cup {Vector(r, j) : j \in Int})
    /\ \A i \in 1..Len(vecs) : vecs[i] \in {ZeroVector, Vector(r, s + i - 1)}

\* A thread at work on slice t.slice of repository r.
TaskOK(t, r) ==
    /\ DOMAIN t = {"slice", "todo", "out"}
    /\ Chained(t.todo) /\ t.todo # << >>
    /\ VectorsOf(r, t.slice[1], t.out)
    /\ Texts(RangesOf(t.todo)) = (t.slice[1] + Len(t.out))..t.slice[2]

\* The result of a slice: all its vectors, or none.
FutureOK(f, r) ==
    /\ f = <<f[1], f[2]>>
    /\ f[2] = << >> \/ (Fits(f[1], f[2]) /\ VectorsOf(r, f[1][1], f[2]))

\* Where a slice is before it has landed.
InQueue(s) == \E k \in 1..Len(queue) : queue[k] = s
AtWork(s) == \E w \in Threads : Busy(w) /\ task[w].slice = s
HasArrived(s) == \E f \in arrived : f[1] = s
Waits(s) == InQueue(s) \/ AtWork(s) \/ HasArrived(s)

\* No slice is in two places.
Once ==
    /\ \A k, l \in 1..Len(queue) : queue[k] = queue[l] => k = l
    /\ \A v, w \in Threads : Busy(v) /\ Busy(w) /\ task[v].slice = task[w].slice => v = w
    /\ \A f, g \in arrived : f[1] = g[1] => f = g
    /\ \A s : InQueue(s) => ~AtWork(s) /\ ~HasArrived(s)
    /\ \A s : AtWork(s) => ~HasArrived(s)

\* The slices of the repository at hand.
Count == Len(Slices(next))
IsSlice(s) == \E k \in 1..Count : Slices(next)[k] = s

\* A slice without vectors, and one with all of them.
Blank(s) == \A j \in s[1]..s[2] : vectors[j] = NoVector
Full(s) == \A j \in s[1]..s[2] : vectors[j] # NoVector

\* The slices that failed.
Lost(s) == ~Waits(s) /\ Blank(s)
Failed == {k \in 1..Count : Lost(Slices(next)[k])}

\* The repositories still to come have no vectors.
Fresh == \A r \in next..Len(Sizes) : \A j \in 1..Sizes[r] : emb[r][j] = NoVector

\* What may stand for the vector of a text.
AllVectors == {NoVector, ZeroVector} \cup (Int \X Int)

\* Every variable has its type, and the pool is idle between repositories.
TypeInv ==
    /\ next \in 1..(Len(Sizes) + 1)
    /\ emb \in [1..Len(Sizes) -> Seq(AllVectors)]
    /\ \A r \in 1..Len(Sizes) : DOMAIN emb[r] = 1..Sizes[r]
    /\ stats \in [embedded : Nat, failed : Nat]
    /\ pc \in {"start", "dispatch"}
    /\ queue \in Seq(Ranges) /\ DOMAIN task = Threads
    /\ failures \in Nat
    /\ pc = "start" => AllLanded
    /\ pc = "dispatch" => /\ next \in 1..Len(Sizes) /\ Sizes[next] > 0
                          /\ DOMAIN vectors = 1..Sizes[next]

\* What waits are slices of the repository; tasks and results are in order.
SliceInv ==
    /\ \A s : Waits(s) => IsSlice(s)
    /\ \A w \in Threads : Busy(w) => TaskOK(task[w], next)
    /\ \A f \in arrived : FutureOK(f, next)

\* A slice has all its vectors or none, none while it waits, and the ones
\* without that no longer wait are counted.
LandInv ==
    pc = "dispatch" =>
        /\ \A j \in 1..Sizes[next] : vectors[j] \in {NoVector, ZeroVector, Vector(next, j)}
        /\ \A k \in 1..Count : Blank(Slices(next)[k]) \/ Full(Slices(next)[k])
        /\ \A s : Waits(s) => Blank(s)
        /\ failures = Cardinality(Failed)

\* The inductive invariant.
EmbedInv == TypeInv /\ Once /\ SliceInv /\ LandInv /\ Fresh

-----------------------------------------------------------------------------
(***************************************************************************)
(* Cutting a range into pieces.                                             *)
(***************************************************************************)
\* Division by a positive number, and multiples of it.
LEMMA DivIs ==
    ASSUME NEW a \in Int, NEW b \in Nat \ {0}
    PROVE  /\ a \div b \in Int
           /\ (a \div b) * b <= a /\ a < (a \div b + 1) * b
OBVIOUS

\* A larger factor gives a larger product.
LEMMA TimesGrows ==
    ASSUME NEW a \in Int, NEW b \in Int, a <= b, NEW s \in Nat
    PROVE  a * s \in Int /\ b * s \in Int /\ a * s <= b * s
<1>1. (b - a) * s >= 0
    BY Z3
<1> QED
    BY <1>1

\* The pieces of a range that is not empty.
LEMMA PiecesCut ==
    ASSUME NEW lo \in Int, NEW hi \in Int, lo <= hi, NEW size \in Nat \ {0}
    PROVE  Cut(Pieces(<<lo, hi>>, size), lo, hi, size)
<1> DEFINE P == Pieces(<<lo, hi>>, size)
           n == hi - lo + 1
           L == (n + size - 1) \div size
           at(k) == lo + (k - 1) * size
           to(k) == IF at(k) + size - 1 < hi THEN at(k) + size - 1 ELSE hi
<1>1. L \in Int /\ L * size <= n + size - 1 /\ n + size - 1 < (L + 1) * size
    BY DivIs
<1>2. P = [k \in 1..L |-> <<at(k), to(k)>>]
    BY DEF Pieces, Size
<1> HIDE DEF L, P
<1>3. L \in Nat \ {0}
  <2>1. ASSUME L <= 0 PROVE FALSE
    <3>1. (L + 1) * size <= 1 * size
        BY <1>1, <2>1, TimesGrows
    <3> QED
        BY <1>1, <3>1
  <2> QED
      BY <1>1, <2>1
<1>4. Len(P) = L /\ \A k \in 1..L : P[k] = <<at(k), to(k)>>
    BY <1>2, <1>3
<1>5. ASSUME NEW k \in 1..L
      PROVE  /\ at(k) \in Int /\ to(k) \in Int /\ lo <= at(k) /\ at(k) <= to(k) /\ to(k) <= hi
             /\ to(k) - at(k) + 1 <= size
             /\ k < L => to(k) = lo + k * size - 1
             /\ k = L => to(k) = hi
  <2>1. (k - 1) * size \in Int /\ (L - 1) * size \in Int /\ (k - 1) * size <= (L - 1) * size
      BY <1>3, TimesGrows
  <2>2. (L - 1) * size = L * size - size /\ (k - 1) * size = k * size - size
        /\ (L + 1) * size = L * size + size /\ k * size \in Int /\ L * size \in Int
      BY <1>3
  <2>3. 0 * size <= (k - 1) * size
      BY TimesGrows
  <2>4. k < L => k * size <= (L - 1) * size
      BY <1>3, TimesGrows
  <2> QED
      BY <1>1, <1>3, <2>1, <2>2, <2>3, <2>4
<1>6. ASSUME NEW k \in 1..L, NEW l \in 1..L, k < l PROVE to(k) < at(l)
  <2>1. k * size <= (l - 1) * size /\ k * size \in Int /\ (l - 1) * size \in Int
      BY <1>6, TimesGrows
  <2> QED
      BY <1>3, <1>5, <1>6, <2>1
<1>7. \A k \in 1..(L - 1) : to(k) + 1 = at(k + 1)
    BY <1>3, <1>5
<1>8. ASSUME NEW j \in lo..hi
      PROVE  LET k == (j - lo) \div size + 1 IN k \in 1..L /\ at(k) <= j /\ j <= to(k)
  <2> DEFINE d == (j - lo) \div size
             k == d + 1
  <2>1. d \in Int /\ d * size <= j - lo /\ j - lo < (d + 1) * size
      BY DivIs
  <2> HIDE DEF d
  <2>2. d >= 0
    <3>1. ASSUME d < 0 PROVE FALSE
      <4>1. (d + 1) * size <= 0 * size
          BY <2>1, <3>1, TimesGrows
      <4> QED
          BY <2>1, <4>1
    <3> QED
        BY <2>1, <3>1
  <2>3. k <= L
    <3>1. ASSUME k > L PROVE FALSE
      <4>1. L * size <= d * size /\ L * size \in Int /\ d * size \in Int
          BY <1>3, <2>1, <3>1, TimesGrows
      <4>2. (L + 1) * size = L * size + size
          BY <1>3
      <4> QED
          BY <1>1, <2>1, <4>1, <4>2
    <3> QED
        BY <1>3, <2>1, <3>1
  <2>4. k \in 1..L
      BY <1>3, <2>1, <2>2, <2>3
  <2>5. at(k) <= j
      BY <2>1
  <2>6. j <= to(k)
    <3>1. at(k) + size - 1 >= j
        BY <2>1
    <3> QED
        BY <2>1, <3>1
  <2>7. k \in 1..L /\ at(k) <= j /\ j <= to(k)
      BY <2>4, <2>5, <2>6
  <2> QED
      BY <2>7 DEF d
<1> HIDE DEF at, to
<1>9. \A k \in 1..L : P[k] \in Ranges /\ P[k][1] = at(k) /\ P[k][2] = to(k)
  <2>1. ASSUME NEW k \in 1..L PROVE P[k] \in Ranges /\ P[k][1] = at(k) /\ P[k][2] = to(k)
    <3>1. P[k] = <<at(k), to(k)>>
        BY <1>4
    <3>2. at(k) \in Int /\ to(k) \in Int
        BY <1>5
    <3> QED
        BY <3>1, <3>2 DEF Ranges
  <2> QED
      BY <2>1
<1>10. P \in Seq(Ranges) /\ P # << >>
  <2>1. P = [k \in 1..L |-> P[k]]
      BY <1>2
  <2>2. P \in [1..L -> Ranges]
      BY <1>9, <2>1
  <2> QED
      BY <1>3, <1>4, <2>2
<1>11. Chained(P)
    BY <1>3, <1>4, <1>5, <1>6, <1>7, <1>9, <1>10, SMTT(30) DEF Chained
<1>12. \A k \in 1..Len(P) : Size(P[k]) <= size /\ lo <= P[k][1] /\ P[k][2] <= hi
    BY <1>4, <1>5, <1>9 DEF Size
<1>13. \A j \in lo..hi : LET k == (j - lo) \div size + 1
                         IN  k \in 1..Len(P) /\ P[k][1] <= j /\ j <= P[k][2]
    BY <1>4, <1>8, <1>9
<1>14. Cut(P, lo, hi, size)
    BY <1>10, <1>11, <1>12, <1>13 DEF Cut
<1> QED
    BY <1>14 DEF P

\* A repository's slices, and a slice's batches, are such pieces.
LEMMA SizesPositive == SliceSize \in Nat \ {0} /\ BatchSize \in Nat \ {0}
BY EmbedAssumption DEF SliceSize, BatchSize, AtLeast1

\* The slices of a repository cut its texts 1..Sizes[r].
LEMMA SlicesCut ==
    ASSUME NEW r \in 1..Len(Sizes), Sizes[r] > 0
    PROVE  Sizes[r] \in Nat /\ Cut(Slices(r), 1, Sizes[r], SliceSize)
<1>1. Sizes[r] \in Nat
    BY EmbedAssumption
<1> DEFINE n == Sizes[r]
<1>2. n \in Int /\ 1 <= n
    BY <1>1
<1> HIDE DEF n
<1>3. Cut(Pieces(<<1, n>>, SliceSize), 1, n, SliceSize)
    BY <1>2, SizesPositive, PiecesCut
<1> QED
    BY <1>1, <1>3 DEF n, Slices

\* What a chain of ranges is made of.
LEMMA TextsAre ==
    ASSUME NEW todo, Chained(todo)
    PROVE  \A j : j \in Texts(RangesOf(todo))
                    <=> j \in Int /\ \E k \in 1..Len(todo) : todo[k][1] <= j /\ j <= todo[k][2]
<1>1. DOMAIN todo = 1..Len(todo) /\ \A k \in 1..Len(todo) : todo[k] \in Ranges
    BY DEF Chained
<1>2. \A k \in 1..Len(todo) : todo[k][1] \in Int /\ todo[k][2] \in Int
    BY <1>1 DEF Ranges
<1> QED
    BY <1>1, <1>2, SMTT(30) DEF Texts, RangesOf

\* The first range of a chain that covers a..b, and what is left without it.
LEMMA FirstRange ==
    ASSUME NEW todo, Chained(todo), todo # << >>, NEW a \in Int, NEW b \in Int,
           Texts(RangesOf(todo)) = a..b
    PROVE  /\ Head(todo) = todo[1] /\ Head(todo) \in Ranges
           /\ Head(todo)[1] = a /\ a <= Head(todo)[2] /\ Head(todo)[2] <= b
           /\ Chained(Tail(todo))
           /\ Texts(RangesOf(Tail(todo))) = (Head(todo)[2] + 1)..b
           /\ Tail(todo) = << >> => Head(todo)[2] = b
<1> DEFINE n == Len(todo)
           rest == Tail(todo)
<1>0. todo \in Seq(Ranges) /\ n \in Nat \ {0} /\ \A k \in 1..n : todo[k] \in Ranges
    BY DEF Chained
<1>1. /\ \A k \in 1..n : todo[k][1] \in Int /\ todo[k][2] \in Int /\ todo[k][1] <= todo[k][2]
      /\ \A k, l \in 1..n : k < l => todo[k][2] < todo[l][1]
      /\ \A k \in 1..(n - 1) : todo[k][2] + 1 = todo[k + 1][1]
    BY <1>0 DEF Chained, Ranges
<1>2. rest \in Seq(Ranges) /\ Len(rest) = n - 1 /\ \A k \in 1..(n - 1) : rest[k] = todo[k + 1]
    BY <1>0
<1> HIDE DEF rest
<1>3. Chained(rest)
  <2>1. \A k \in 1..(n - 1) : k + 1 \in 1..n
      BY <1>0
  <2>2. \A k \in 1..(n - 2) : k \in 1..(n - 1) /\ k + 1 \in 1..(n - 1)
      BY <1>0
  <2>3. \A k \in 1..(n - 1) : rest[k][1] <= rest[k][2]
      BY <1>1, <1>2, <2>1
  <2>4. ASSUME NEW k \in 1..(n - 1), NEW l \in 1..(n - 1), k < l
        PROVE  rest[k][2] < rest[l][1]
    <3>1. k + 1 \in 1..n /\ l + 1 \in 1..n /\ k + 1 < l + 1
        BY <2>1, <2>4
    <3>2. todo[k + 1][2] < todo[l + 1][1]
        BY <1>1, <3>1
    <3>3. rest[k] = todo[k + 1] /\ rest[l] = todo[l + 1]
        BY <1>2
    <3> QED
        BY <3>2, <3>3
  <2>5. \A k \in 1..(n - 2) : rest[k][2] + 1 = rest[k + 1][1]
      BY <1>1, <1>2, <2>1, <2>2
  <2> QED
      BY <1>0, <1>2, <2>3, <2>4, <2>5 DEF Chained
<1>4. \A j \in Int : j \in a..b <=> \E k \in 1..n : todo[k][1] <= j /\ j <= todo[k][2]
    BY TextsAre
<1>5. 1 \in 1..n
    BY <1>0
<1>6. todo[1][1] \in a..b /\ todo[1][2] \in a..b
    BY <1>1, <1>4, <1>5, SMTT(30)
<1>7. todo[1][1] = a
  <2>1. a \in a..b
      BY <1>6
  <2>2. PICK k \in 1..n : todo[k][1] <= a
      BY <1>4, <2>1
  <2>3. k # 1 => todo[1][1] < todo[k][1]
      BY <1>1, <1>5
  <2> QED
      BY <1>1, <1>5, <1>6, <2>2, <2>3
<1>8. \A j : j \in Texts(RangesOf(rest))
              <=> j \in Int /\ \E k \in 1..(n - 1) : rest[k][1] <= j /\ j <= rest[k][2]
    BY <1>2, <1>3, TextsAre
<1>9. ASSUME NEW j \in Int
      PROVE  j \in Texts(RangesOf(rest)) <=> j \in (todo[1][2] + 1)..b
  <2>1. ASSUME NEW k \in 1..(n - 1), rest[k][1] <= j, j <= rest[k][2]
        PROVE  j \in (todo[1][2] + 1)..b
    <3>1. k + 1 \in 1..n /\ 1 < k + 1
        BY <1>0
    <3>2. todo[k + 1][1] <= j /\ j <= todo[k + 1][2]
        BY <1>2, <2>1
    <3>3. j \in a..b
        BY <1>4, <3>1, <3>2
    <3>4. todo[1][2] < todo[k + 1][1]
        BY <1>1, <1>5, <3>1
    <3> QED
        BY <1>1, <1>5, <3>1, <3>2, <3>3, <3>4
  <2>2. ASSUME j \in (todo[1][2] + 1)..b
        PROVE  \E k \in 1..(n - 1) : rest[k][1] <= j /\ j <= rest[k][2]
    <3>1. j \in a..b
        BY <1>1, <1>5, <1>6, <2>2
    <3>2. PICK k \in 1..n : todo[k][1] <= j /\ j <= todo[k][2]
        BY <1>4, <3>1
    <3>3. k # 1
        BY <1>1, <1>5, <2>2, <3>2
    <3>4. k - 1 \in 1..(n - 1) /\ rest[k - 1] = todo[k]
        BY <1>0, <1>2, <3>3
    <3> QED
        BY <3>2, <3>4
  <2> QED
      BY <1>8, <2>1, <2>2
<1>10. Texts(RangesOf(rest)) = (todo[1][2] + 1)..b
  <2> DEFINE T == Texts(RangesOf(rest))
             m == todo[1][2] + 1
  <2>1. (\A j \in T : j \in Int) /\ m \in Int
      BY <1>1, <1>5, <1>8
  <2>2. \A j \in Int : j \in T <=> j \in m..b
      BY <1>9
  <2> HIDE DEF T, m
  <2>3. \A j : j \in T <=> j \in m..b
      BY <2>1, <2>2
  <2>4. T = m..b
      BY <2>3
  <2> QED
      BY <2>4 DEF T, m
<1>11. rest = << >> => todo[1][2] = b
  <2>1. ASSUME rest = << >>, todo[1][2] < b PROVE FALSE
    <3>1. b \in (todo[1][2] + 1)..b
        BY <1>1, <1>5, <2>1
    <3>2. b \in Texts(RangesOf(rest))
        BY <1>10, <3>1
    <3>3. Len(rest) = 0
        BY <2>1
    <3>4. PICK k \in 1..(n - 1) : rest[k][1] <= b
        BY <1>8, <3>2
    <3>5. k \in Int /\ n \in Int /\ k >= 1 /\ k < n
        BY <1>0, <3>4
    <3>6. n = 1
        BY <1>0, <1>2, <3>3
    <3> QED
        BY <3>5, <3>6
  <2> QED
      BY <1>1, <1>5, <1>6, <2>1
<1>12. Head(todo) = todo[1]
    BY <1>0
<1>13. todo[1] \in Ranges /\ a <= todo[1][2] /\ todo[1][2] <= b
    BY <1>0, <1>5, <1>6
<1> HIDE DEF n
<1> QED
    BY <1>3, <1>7, <1>10, <1>11, <1>12, <1>13 DEF rest

\* A sequence with two more elements in front.
LEMMA TwoInFront ==
    ASSUME NEW S, NEW a \in S, NEW b \in S, NEW t \in Seq(S)
    PROVE  /\ <<a, b>> \o t \in Seq(S) /\ Len(<<a, b>> \o t) = Len(t) + 2
           /\ (<<a, b>> \o t)[1] = a /\ (<<a, b>> \o t)[2] = b
           /\ \A k \in 3..(Len(t) + 2) : (<<a, b>> \o t)[k] = t[k - 2]
<1> DEFINE h == <<a, b>>
<1>1. h \in Seq(S) /\ Len(h) = 2 /\ h[1] = a /\ h[2] = b /\ Len(t) \in Nat
    OBVIOUS
<1> HIDE DEF h
<1>2. /\ h \o t \in Seq(S) /\ Len(h \o t) = Len(h) + Len(t)
      /\ \A i \in 1..Len(h) + Len(t) : (h \o t)[i] = IF i <= Len(h) THEN h[i] ELSE t[i - Len(h)]
    BY <1>1, ConcatProperties
<1> DEFINE x == h \o t
<1>3. x \in Seq(S) /\ Len(x) = 2 + Len(t)
      /\ \A i \in 1..(2 + Len(t)) : x[i] = IF i <= 2 THEN h[i] ELSE t[i - 2]
    BY <1>1, <1>2
<1> HIDE DEF x
<1>4. x[1] = a /\ x[2] = b /\ \A k \in 3..(Len(t) + 2) : x[k] = t[k - 2]
    BY <1>1, <1>3
<1>5. x \in Seq(S) /\ Len(x) = Len(t) + 2
    BY <1>1, <1>3
<1> QED
    BY <1>4, <1>5 DEF x, h

\* The first range of a chain split in two: the same texts in the same order.
LEMMA SplitFirst ==
    ASSUME NEW todo, Chained(todo), todo # << >>, NEW x \in Seq(Ranges), Len(x) = Len(todo) + 1,
           NEW mid \in Int, todo[1][1] < mid, mid <= todo[1][2],
           x[1] = <<todo[1][1], mid - 1>>, x[2] = <<mid, todo[1][2]>>,
           \A k \in 3..(Len(todo) + 1) : x[k] = todo[k - 1]
    PROVE  Chained(x) /\ x # << >> /\ Texts(RangesOf(x)) = Texts(RangesOf(todo))
<1> DEFINE n == Len(todo)
           rg == todo[1]
<1>0. todo \in Seq(Ranges) /\ n \in Nat \ {0} /\ \A k \in 1..n : todo[k] \in Ranges
    BY DEF Chained
<1>1. /\ \A k \in 1..n : todo[k][1] \in Int /\ todo[k][2] \in Int /\ todo[k][1] <= todo[k][2]
      /\ \A k, l \in 1..n : k < l => todo[k][2] < todo[l][1]
      /\ \A k \in 1..(n - 1) : todo[k][2] + 1 = todo[k + 1][1]
    BY <1>0 DEF Chained, Ranges
<1>2. rg[1] \in Int /\ rg[2] \in Int /\ 1 \in 1..n
    BY <1>0, <1>1
<1>3. mid \in Int /\ rg[1] < mid /\ mid <= rg[2]
    OBVIOUS
<1>8. \A k \in 3..(n + 1) : x[k] = todo[k - 1]
    OBVIOUS
<1>9. x[1][1] = rg[1] /\ x[1][2] = mid - 1 /\ x[2][1] = mid /\ x[2][2] = rg[2]
    OBVIOUS
<1>10. \A k \in 3..(n + 1) : k - 1 \in 2..n /\ k - 1 \in 1..n
    BY <1>0
<1>11. \A k \in 1..(n + 1) : k = 1 \/ k = 2 \/ k \in 3..(n + 1)
    BY <1>0
<1>12. \A k \in 1..(n + 1) : x[k][1] \in Int /\ x[k][2] \in Int /\ x[k][1] <= x[k][2]
    BY <1>1, <1>2, <1>3, <1>8, <1>9, <1>10, <1>11, SMTT(30)
<1>13. ASSUME NEW k \in 1..(n + 1), NEW l \in 1..(n + 1), k < l PROVE x[k][2] < x[l][1]
  <2>1. CASE k = 1 /\ l = 2
      BY <1>3, <1>9, <2>1
  <2>2. CASE k = 1 /\ l \in 3..(n + 1)
    <3>1. l - 1 \in 1..n /\ 1 < l - 1 /\ x[l] = todo[l - 1]
        BY <1>8, <1>10, <2>2
    <3>2. rg[2] < todo[l - 1][1]
        BY <1>1, <1>2, <3>1
    <3> QED
        BY <1>2, <1>3, <1>9, <1>12, <2>2, <3>1, <3>2
  <2>3. CASE k = 2 /\ l \in 3..(n + 1)
    <3>1. l - 1 \in 1..n /\ 1 < l - 1 /\ x[l] = todo[l - 1]
        BY <1>8, <1>10, <2>3
    <3>2. rg[2] < todo[l - 1][1]
        BY <1>1, <1>2, <3>1
    <3> QED
        BY <1>9, <2>3, <3>1, <3>2
  <2>4. CASE k \in 3..(n + 1) /\ l \in 3..(n + 1)
    <3>1. k - 1 < l - 1
        BY <1>13
    <3> QED
        BY <1>1, <1>8, <1>10, <2>4, <3>1
  <2> QED
      BY <1>11, <1>13, <2>1, <2>2, <2>3, <2>4
<1>14. ASSUME NEW k \in 1..n PROVE x[k][2] + 1 = x[k + 1][1]
  <2>1. CASE k = 1
      BY <1>3, <1>9, <2>1
  <2>2. CASE k = 2
    <3>1. 3 \in 3..(n + 1) /\ 1 \in 1..(n - 1)
        BY <1>0, <2>2
    <3>2. x[3] = todo[2] /\ todo[1][2] + 1 = todo[2][1]
        BY <1>1, <1>8, <3>1
    <3> QED
        BY <1>9, <2>2, <3>2
  <2>3. CASE k \in 3..n
    <3>1. k \in 3..(n + 1) /\ k + 1 \in 3..(n + 1) /\ k - 1 \in 1..(n - 1)
        BY <1>0, <2>3
    <3>2. x[k] = todo[k - 1] /\ x[k + 1] = todo[(k - 1) + 1]
        BY <1>8, <3>1
    <3> QED
        BY <1>1, <3>1, <3>2
  <2> QED
      BY <1>0, <2>1, <2>2, <2>3
<1>15. Chained(x)
  <2>1. (n + 1) - 1 = n
      BY <1>0
  <2> QED
      BY <1>8, <1>12, <1>13, <1>14, <2>1 DEF Chained
<1>16. ASSUME NEW j \in Int
       PROVE  (\E k \in 1..(n + 1) : x[k][1] <= j /\ j <= x[k][2])
                 <=> (\E k \in 1..n : todo[k][1] <= j /\ j <= todo[k][2])
  <2>1. ASSUME NEW k \in 1..(n + 1), x[k][1] <= j, j <= x[k][2]
        PROVE  \E l \in 1..n : todo[l][1] <= j /\ j <= todo[l][2]
      BY <1>2, <1>3, <1>8, <1>9, <1>10, <1>11, <2>1, SMTT(30)
  <2>2. ASSUME NEW k \in 1..n, todo[k][1] <= j, j <= todo[k][2]
        PROVE  \E l \in 1..(n + 1) : x[l][1] <= j /\ j <= x[l][2]
    <3>1. CASE k = 1
      <4>1. 1 \in 1..(n + 1) /\ 2 \in 1..(n + 1)
          BY <1>0
      <4> QED
          BY <1>2, <1>3, <1>9, <2>2, <3>1, <4>1
    <3>2. CASE k # 1
      <4>1. k + 1 \in 3..(n + 1) /\ k + 1 \in 1..(n + 1) /\ (k + 1) - 1 = k
          BY <1>0, <3>2
      <4>2. x[k + 1] = todo[k]
          BY <1>8, <4>1
      <4> QED
          BY <2>2, <4>1, <4>2
    <3> QED
        BY <3>1, <3>2
  <2> QED
      BY <2>1, <2>2
<1>17. Texts(RangesOf(x)) = Texts(RangesOf(todo))
  <2>1. \A j : j \in Texts(RangesOf(x)) <=> j \in Int /\ \E k \in 1..(n + 1) : x[k][1] <= j /\ j <= x[k][2]
      BY <1>8, <1>15, TextsAre
  <2>2. \A j : j \in Texts(RangesOf(todo)) <=> j \in Int /\ \E k \in 1..n : todo[k][1] <= j /\ j <= todo[k][2]
      BY TextsAre
  <2> QED
      BY <1>16, <2>1, <2>2
<1>18. x # << >>
    BY <1>0
<1> QED
    BY <1>15, <1>17, <1>18

\* Its halves in place of the first range.
LEMMA HalvedFirst ==
    ASSUME NEW todo, Chained(todo), todo # << >>, Size(todo[1]) > 1
    PROVE  LET x == Halves(todo[1]) \o Tail(todo)
           IN  Chained(x) /\ x # << >> /\ Texts(RangesOf(x)) = Texts(RangesOf(todo))
<1> DEFINE n == Len(todo)
           rg == todo[1]
           mid == rg[1] + Size(rg) \div 2
           a == <<rg[1], mid - 1>>
           b == <<mid, rg[2]>>
           x == <<a, b>> \o Tail(todo)
<1>1. todo \in Seq(Ranges) /\ n \in Nat \ {0} /\ rg \in Ranges
    BY DEF Chained
<1>2. rg[1] \in Int /\ rg[2] \in Int
    BY <1>1 DEF Ranges
<1>3. mid \in Int /\ rg[1] < mid /\ mid <= rg[2]
    BY <1>2 DEF Size
<1>4. Halves(rg) = <<a, b>>
    BY DEF Halves
<1> HIDE DEF mid
<1>5. a \in Ranges /\ b \in Ranges
    BY <1>2, <1>3 DEF Ranges
<1>6. /\ Tail(todo) \in Seq(Ranges) /\ Len(Tail(todo)) = n - 1
      /\ \A k \in 1..(n - 1) : Tail(todo)[k] = todo[k + 1]
    BY <1>1
<1> DEFINE t == Tail(todo)
<1> HIDE DEF a, b, t
<1>7. /\ <<a, b>> \o t \in Seq(Ranges) /\ Len(<<a, b>> \o t) = Len(t) + 2
      /\ (<<a, b>> \o t)[1] = a /\ (<<a, b>> \o t)[2] = b
      /\ \A k \in 3..(Len(t) + 2) : (<<a, b>> \o t)[k] = t[k - 2]
    BY <1>5, <1>6, TwoInFront DEF t
<1>8. /\ x \in Seq(Ranges) /\ Len(x) = (n - 1) + 2 /\ x[1] = a /\ x[2] = b
      /\ \A k \in 3..((n - 1) + 2) : x[k] = t[k - 2]
    BY <1>6, <1>7 DEF t
<1> HIDE DEF x
<1>9. Len(x) = n + 1 /\ \A k \in 3..(n + 1) : x[k] = todo[k - 1]
  <2>1. (n - 1) + 2 = n + 1
      BY <1>1
  <2>2. ASSUME NEW k \in 3..(n + 1) PROVE x[k] = todo[k - 1]
    <3>1. k - 2 \in 1..(n - 1) /\ (k - 2) + 1 = k - 1
        BY <1>1
    <3> QED
        BY <1>6, <1>8, <2>1, <3>1 DEF t
  <2> QED
      BY <1>8, <2>1, <2>2
<1>10. x[1] = <<todo[1][1], mid - 1>> /\ x[2] = <<mid, todo[1][2]>>
    BY <1>8 DEF a, b
<1>11. Chained(x) /\ x # << >> /\ Texts(RangesOf(x)) = Texts(RangesOf(todo))
    BY <1>3, <1>8, <1>9, <1>10, SplitFirst
<1>12. x = Halves(todo[1]) \o Tail(todo)
    BY <1>4 DEF x
<1> QED
    BY <1>11, <1>12

\* The pieces of a range have its texts.
LEMMA CutTexts ==
    ASSUME NEW P, NEW lo \in Int, NEW hi \in Int, NEW size, Cut(P, lo, hi, size)
    PROVE  Texts(RangesOf(P)) = lo..hi
<1>1. Chained(P) /\ \A k \in 1..Len(P) : P[k] \in Ranges /\ lo <= P[k][1] /\ P[k][2] <= hi
    BY DEF Cut, Chained
<1>2. \A k \in 1..Len(P) : P[k][1] \in Int /\ P[k][2] \in Int
    BY <1>1 DEF Ranges
<1>3. \A j : j \in Texts(RangesOf(P)) <=> j \in Int /\ \E k \in 1..Len(P) : P[k][1] <= j /\ j <= P[k][2]
    BY <1>1, TextsAre
<1>4. \A j : j \in Texts(RangesOf(P)) => j \in lo..hi
    BY <1>1, <1>2, <1>3
<1>5. \A j : j \in lo..hi => j \in Texts(RangesOf(P))
    BY <1>3 DEF Cut
<1>6. \A j : j \in Texts(RangesOf(P)) <=> j \in lo..hi
    BY <1>4, <1>5
<1> QED
    BY <1>6

-----------------------------------------------------------------------------
(***************************************************************************)
(* A thread embeds its slice.                                               *)
(***************************************************************************)
\* Vectors of consecutive texts, one group after the other.
LEMMA VectorsConcat ==
    ASSUME NEW r, NEW s \in Int, NEW a, VectorsOf(r, s, a), NEW m, m = s + Len(a),
           NEW b, VectorsOf(r, m, b)
    PROVE  VectorsOf(r, s, a \o b) /\ Len(a \o b) = Len(a) + Len(b)
<1> DEFINE V == {ZeroVector} \cup {Vector(r, j) : j \in Int}
<1>1. a \in Seq(V) /\ b \in Seq(V)
    BY DEF VectorsOf
<1> HIDE DEF V
<1>2. /\ a \o b \in Seq(V) /\ Len(a \o b) = Len(a) + Len(b)
      /\ \A i \in 1..Len(a) + Len(b) : (a \o b)[i] = IF i <= Len(a) THEN a[i] ELSE b[i - Len(a)]
    BY <1>1, ConcatProperties
<1>3. Len(a) \in Nat /\ Len(b) \in Nat
    BY <1>1
<1>4. ASSUME NEW i \in 1..Len(a) + Len(b) PROVE (a \o b)[i] \in {ZeroVector, Vector(r, s + i - 1)}
  <2>1. CASE i <= Len(a)
    <3>1. i \in 1..Len(a)
        BY <1>3, <2>1
    <3>2. a[i] \in {ZeroVector, Vector(r, s + i - 1)}
        BY <3>1 DEF VectorsOf
    <3> QED
        BY <1>2, <2>1, <3>2
  <2>2. CASE i > Len(a)
    <3> DEFINE l == i - Len(a)
    <3>1. l \in 1..Len(b) /\ s + Len(a) + l - 1 = s + i - 1 /\ ~ (i <= Len(a))
        BY <1>3, <2>2
    <3>2. b[l] \in {ZeroVector, Vector(r, m + l - 1)}
        BY <3>1 DEF VectorsOf
    <3>3. (a \o b)[i] = b[l]
        BY <1>2, <3>1
    <3> QED
        BY <3>1, <3>2, <3>3
  <2> QED
      BY <1>3, <2>1, <2>2
<1>5. \A i \in 1..Len(a \o b) : (a \o b)[i] \in {ZeroVector, Vector(r, s + i - 1)}
    BY <1>2, <1>4
<1> QED
    BY <1>2, <1>5 DEF VectorsOf, V

\* A function on 1..n is a sequence of length n.
LEMMA FunctionSeq ==
    ASSUME NEW S, NEW n \in Nat, NEW f \in [1..n -> S]
    PROVE  f \in Seq(S) /\ Len(f) = n
OBVIOUS

\* The vectors a call returns for a range, and the one a refused text gets.
LEMMA CallVectors ==
    ASSUME NEW r, NEW s \in Int, NEW n \in Nat, NEW vecs, vecs = [i \in 1..n |-> Vector(r, s + i - 1)]
    PROVE  VectorsOf(r, s, vecs) /\ Len(vecs) = n
<1> DEFINE V == {ZeroVector} \cup {Vector(r, j) : j \in Int}
<1>1. \A i \in 1..n : Vector(r, s + i - 1) \in V
  <2>1. \A i \in 1..n : s + i - 1 \in Int
      OBVIOUS
  <2> QED
      BY <2>1
<1> HIDE DEF V
<1>2. vecs \in [1..n -> V]
    BY <1>1
<1>3. vecs \in Seq(V) /\ Len(vecs) = n
    BY <1>2, FunctionSeq
<1>4. \A i \in 1..n : vecs[i] = Vector(r, s + i - 1)
    OBVIOUS
<1> QED
    BY <1>3, <1>4 DEF VectorsOf, V

\* The sentinel, and no vector at all, are vectors of any text.
LEMMA RefusedVector == \A r, s : VectorsOf(r, s, <<ZeroVector>>) /\ VectorsOf(r, s, << >>)
BY DEF VectorsOf

\* A task on the same slice.
SameSliceOf(t, u) == DOMAIN u = DOMAIN t /\ u.slice = t.slice

\* How a task goes on, or becomes a result.
LEMMA Onward ==
    ASSUME NEW t, NEW r, TaskOK(t, r), t.slice \in Ranges,
           NEW u, SameSliceOf(t, u),
           Chained(u.todo), VectorsOf(r, t.slice[1], u.out),
           Texts(RangesOf(u.todo)) = (t.slice[1] + Len(u.out))..t.slice[2],
           u.todo = << >> => Len(u.out) = Size(t.slice)
    PROVE  /\ u.todo = << >> => FutureOK(<<t.slice, u.out>>, r)
           /\ u.todo # << >> => TaskOK(u, r)
<1>1. u.todo = << >> => FutureOK(<<t.slice, u.out>>, r)
    BY DEF FutureOK, Fits
<1>2. DOMAIN u = {"slice", "todo", "out"} /\ u.slice = t.slice
    BY DEF TaskOK, SameSliceOf
<1>3. u.todo # << >> => TaskOK(u, r)
    BY <1>2 DEF TaskOK
<1> QED
    BY <1>1, <1>3

\* The range a thread calls the provider with starts where its vectors end.
LEMMA TaskRange ==
    ASSUME NEW t, NEW r, TaskOK(t, r), t.slice \in Ranges
    PROVE  LET rg == Head(t.todo) IN
           /\ rg = t.todo[1] /\ rg \in Ranges /\ Len(t.out) \in Nat
           /\ rg[1] = t.slice[1] + Len(t.out) /\ rg[1] <= rg[2] /\ rg[2] <= t.slice[2]
           /\ Chained(Tail(t.todo)) /\ Texts(RangesOf(Tail(t.todo))) = (rg[2] + 1)..t.slice[2]
           /\ Tail(t.todo) = << >> => rg[2] = t.slice[2]
<1> DEFINE a == t.slice[1] + Len(t.out)
           b == t.slice[2]
           todo == t.todo
<1>1. Len(t.out) \in Nat /\ t.slice[1] \in Int /\ b \in Int
    BY DEF TaskOK, VectorsOf, Ranges
<1>2. a \in Int
    BY <1>1
<1>3. Chained(todo) /\ todo # << >> /\ Texts(RangesOf(todo)) = a..b
    BY DEF TaskOK
<1> HIDE DEF a, b, todo
<1>4. /\ Head(todo) = todo[1] /\ Head(todo) \in Ranges
      /\ Head(todo)[1] = a /\ a <= Head(todo)[2] /\ Head(todo)[2] <= b
      /\ Chained(Tail(todo))
      /\ Texts(RangesOf(Tail(todo))) = (Head(todo)[2] + 1)..b
      /\ Tail(todo) = << >> => Head(todo)[2] = b
    BY <1>1, <1>2, <1>3, FirstRange
<1> QED
    BY <1>1, <1>4 DEF a, b, todo

\* q is the last text of s, s + 1, ... that vecs has a vector of.
EndsAt(q, s, vecs) == q + 1 = s + Len(vecs)

\* The vectors of the texts m..q after those of s..(m - 1).
LEMMA Joined ==
    ASSUME NEW r, NEW s \in Int, NEW a, VectorsOf(r, s, a), NEW m \in Int, m = s + Len(a),
           NEW q \in Int, NEW b, VectorsOf(r, m, b), Len(b) = q - m + 1, NEW c, c = a \o b
    PROVE  VectorsOf(r, s, c) /\ EndsAt(q, s, c)
<1>1. VectorsOf(r, s, a \o b) /\ Len(a \o b) = Len(a) + Len(b)
    BY VectorsConcat
<1>2. Len(a) \in Nat /\ Len(b) \in Nat
    BY DEF VectorsOf
<1> QED
    BY <1>1, <1>2 DEF EndsAt

\* The call for the first range is answered with vectors of all its texts.
LEMMA Answered ==
    ASSUME NEW t, NEW r, TaskOK(t, r), t.slice \in Ranges,
           NEW vecs, VectorsOf(r, Head(t.todo)[1], vecs), Len(vecs) = Size(Head(t.todo)),
           NEW u, SameSliceOf(t, u),
           u.todo = Tail(t.todo), u.out = t.out \o vecs
    PROVE  /\ u.todo = << >> => FutureOK(<<t.slice, u.out>>, r)
           /\ u.todo # << >> => TaskOK(u, r)
<1> DEFINE rg == Head(t.todo)
           s == t.slice[1]
           e == t.slice[2]
           a == t.out
           m == rg[1]
           out == u.out
           rest == u.todo
<1>1. /\ rg \in Ranges /\ Len(a) \in Nat
      /\ m = s + Len(a) /\ m <= rg[2] /\ rg[2] <= e
      /\ Chained(rest) /\ Texts(RangesOf(rest)) = (rg[2] + 1)..e
      /\ rest = << >> => rg[2] = e
    BY TaskRange
<1>2. VectorsOf(r, s, a)
    BY DEF TaskOK
<1>3. s \in Int /\ m \in Int /\ rg[2] \in Int /\ e \in Int
    BY <1>1 DEF Ranges
<1>4. VectorsOf(r, m, vecs) /\ Len(vecs) = rg[2] - m + 1
    BY <1>1 DEF Size
<1>5. Size(t.slice) = e - s + 1 /\ out = a \o vecs
    BY DEF Size
<1> DEFINE q == rg[2]
<1>6. q \in Int /\ Len(vecs) = q - m + 1 /\ (rest = << >> => q = e) /\ Texts(RangesOf(rest)) = (q + 1)..e
    BY <1>1, <1>3, <1>4
<1> HIDE DEF q, rest, s, e, a, m, out
<1>7. VectorsOf(r, s, out) /\ EndsAt(q, s, out)
    BY <1>1, <1>2, <1>3, <1>4, <1>5, <1>6, Joined
<1>8. rest = << >> => Len(out) = Size(t.slice)
  <2>1. Len(out) \in Nat
      BY <1>7 DEF VectorsOf
  <2> QED
      BY <1>3, <1>5, <1>6, <1>7, <2>1 DEF EndsAt
<1>9. Texts(RangesOf(rest)) = (s + Len(out))..e
    BY <1>6, <1>7 DEF EndsAt
<1> QED
    BY <1>1, <1>7, <1>8, <1>9, Onward DEF s, e, out, rest

-----------------------------------------------------------------------------
(***************************************************************************)
(* The slices of the repository at hand.                                    *)
(***************************************************************************)
\* s is a range of texts 1..n, of at most size of them.
Within(s, n, size) ==
    /\ s \in Ranges /\ s[1] \in Int /\ s[2] \in Int
    /\ 1 <= s[1] /\ s[1] <= s[2] /\ s[2] <= n /\ Size(s) \in 1..size

\* Two ranges without a common text.
Apart(s, z) == \A j \in s[1]..s[2] : j \notin z[1]..z[2]

\* Slices are ranges of the repository's texts, one different from the other,
\* and two of them have no text in common.
LEMMA SlicesApart ==
    ASSUME next \in 1..Len(Sizes), Sizes[next] > 0
    PROVE  /\ Sizes[next] \in Nat /\ Count \in Nat \ {0} /\ Slices(next) \in Seq(Ranges)
           /\ \A k \in 1..Count : IsSlice(Slices(next)[k])
           /\ \A s : IsSlice(s) => Within(s, Sizes[next], SliceSize)
           /\ \A k, l \in 1..Count : Slices(next)[k] = Slices(next)[l] => k = l
           /\ \A s, z : IsSlice(s) /\ IsSlice(z) /\ s # z => Apart(s, z)
<1> DEFINE S == Slices(next)
           n == Sizes[next]
<1>1. n \in Nat /\ Cut(S, 1, n, SliceSize)
    BY SlicesCut
<1> HIDE DEF n
<1>2. /\ S \in Seq(Ranges) /\ Count = Len(S) /\ S # << >>
      /\ \A k \in 1..Count : S[k][1] <= S[k][2] /\ Size(S[k]) <= SliceSize /\ 1 <= S[k][1] /\ S[k][2] <= n
      /\ \A k, l \in 1..Count : k < l => S[k][2] < S[l][1]
    BY <1>1 DEF Cut, Chained, Count
<1> HIDE DEF S
<1>3. Count \in Nat \ {0} /\ \A k \in 1..Count : S[k] \in Ranges
    BY <1>2
<1>4. \A k \in 1..Count : S[k][1] \in Int /\ S[k][2] \in Int
    BY <1>3 DEF Ranges
<1>5. \A k \in 1..Count : Within(S[k], n, SliceSize)
    BY <1>2, <1>3, <1>4, SizesPositive DEF Within, Size
<1>6. \A s : IsSlice(s) <=> \E k \in 1..Count : S[k] = s
    BY DEF IsSlice, S
<1>7. \A k, l \in 1..Count : S[k] = S[l] => k = l
    BY <1>2, <1>3, <1>4
<1>8. ASSUME NEW k \in 1..Count, NEW l \in 1..Count, k # l PROVE Apart(S[k], S[l])
  <2>1. k < l \/ l < k
      BY <1>3, <1>8
  <2>2. S[k][2] < S[l][1] \/ S[l][2] < S[k][1]
      BY <1>2, <2>1
  <2> QED
      BY <1>4, <2>2, SMTT(30) DEF Apart
<1>9. \A s, z : IsSlice(s) /\ IsSlice(z) /\ s # z => Apart(s, z)
    BY <1>6, <1>8
<1>10. \A s : IsSlice(s) => Within(s, n, SliceSize)
    BY <1>5, <1>6
<1>11. \A k \in 1..Count : IsSlice(S[k])
    BY <1>6
<1> QED
    BY <1>1, <1>2, <1>3, <1>7, <1>9, <1>10, <1>11 DEF S, n

\* Something waits only while the pool is at work.
LEMMA AtWorkOnly ==
    ASSUME TypeInv, NEW s, Waits(s)
    PROVE  pc = "dispatch" /\ next \in 1..Len(Sizes) /\ Sizes[next] > 0
<1>1. pc = "start" => AllLanded
    BY DEF TypeInv
<1>2. ~AllLanded
    BY DEF AllLanded, Waits, InQueue, AtWork, HasArrived
<1> QED
    BY <1>1, <1>2 DEF TypeInv

\* A busy thread's slice, a result's slice, the slice at the head of the queue.
LEMMA WhoWaits ==
    /\ \A w \in Threads : Busy(w) => Waits(task[w].slice)
    /\ \A f \in arrived : Waits(f[1])
    /\ TypeInv /\ queue # << >> => Waits(Head(queue)) /\ InQueue(Head(queue))
<1>1. TypeInv /\ queue # << >> => Waits(Head(queue)) /\ InQueue(Head(queue))
  <2>1. TypeInv /\ queue # << >> => Len(queue) \in Nat \ {0} /\ queue[1] = Head(queue)
      BY DEF TypeInv
  <2> QED
      BY <2>1 DEF Waits, InQueue
<1> QED
    BY <1>1 DEF Waits, AtWork, HasArrived

-----------------------------------------------------------------------------
(***************************************************************************)
(* Where slices are, step by step.                                          *)
(***************************************************************************)
\* A slice taken from the queue is in the hands of one thread.
LEMMA TakePlaces ==
    ASSUME TypeInv, Once, NEW w \in Threads, TakeSlice(w), Pieces(Head(queue), BatchSize) # << >>
    PROVE  /\ Once' /\ \A s : Waits(s)' <=> Waits(s)
           /\ \A v \in Threads : v # w => task'[v] = task[v]
           /\ task'[w].slice = Head(queue) /\ task'[w].todo = Pieces(Head(queue), BatchSize)
           /\ task'[w].out = << >> /\ DOMAIN task'[w] = {"slice", "todo", "out"}
<1> DEFINE h == Head(queue)
           n == Len(queue)
<1>1. queue # << >> /\ ~Busy(w) /\ queue' = Tail(queue) /\ arrived' = arrived
    BY DEF TakeSlice
<1>2. queue \in Seq(Ranges) /\ n \in Nat \ {0} /\ queue[1] = h /\ DOMAIN task = Threads
    BY <1>1 DEF TypeInv
<1>3. Len(queue') = n - 1 /\ \A k \in 1..(n - 1) : queue'[k] = queue[k + 1]
    BY <1>1, <1>2
<1>4. /\ \A v \in Threads : v # w => task'[v] = task[v]
      /\ task'[w] = [slice |-> h, todo |-> Pieces(h, BatchSize), out |-> << >>]
    BY <1>2 DEF TakeSlice
<1> HIDE DEF h, n
<1>5. task'[w].slice = h /\ task'[w].todo = Pieces(h, BatchSize) /\ task'[w].out = << >>
      /\ DOMAIN task'[w] = {"slice", "todo", "out"}
    BY <1>4
<1>6. task'[w] # NoTask
    BY <1>5 DEF NoTask, h
<1>7. \A v \in Threads : Busy(v)' <=> v = w \/ Busy(v)
    BY <1>4, <1>6 DEF Busy
<1>8. \A s : AtWork(s)' <=> AtWork(s) \/ s = h
    BY <1>1, <1>4, <1>5, <1>7 DEF AtWork
<1>9. \A k \in 1..(n - 1) : k + 1 \in 1..n /\ k + 1 # 1
    BY <1>2
<1>10. \A k \in 1..n : k # 1 => k - 1 \in 1..(n - 1) /\ queue'[k - 1] = queue[k]
  <2>1. ASSUME NEW k \in 1..n, k # 1 PROVE k - 1 \in 1..(n - 1) /\ (k - 1) + 1 = k
      BY <1>2, <2>1
  <2> QED
      BY <1>3, <2>1
<1>11. 1 \in 1..n /\ \A k, l \in 1..n : queue[k] = queue[l] => k = l
    BY <1>2 DEF Once, n
<1>12. \A s : InQueue(s)' <=> InQueue(s) /\ s # h
  <2>1. ASSUME NEW s, InQueue(s)' PROVE InQueue(s) /\ s # h
    <3>1. PICK k \in 1..(n - 1) : queue'[k] = s
        BY <1>3, <2>1 DEF InQueue
    <3>2. queue[k + 1] = s /\ k + 1 \in 1..n /\ k + 1 # 1
        BY <1>3, <1>9, <3>1
    <3> QED
        BY <1>2, <1>11, <3>2 DEF InQueue, n
  <2>2. ASSUME NEW s, InQueue(s), s # h PROVE InQueue(s)'
    <3>1. PICK k \in 1..n : queue[k] = s
        BY <2>2 DEF InQueue, n
    <3>2. k # 1
        BY <1>2, <2>2, <3>1
    <3>3. k - 1 \in 1..(n - 1) /\ queue'[k - 1] = s
        BY <1>10, <3>1, <3>2
    <3> QED
        BY <1>3, <3>3 DEF InQueue
  <2> QED
      BY <2>1, <2>2
<1>13. \A s : HasArrived(s)' <=> HasArrived(s)
    BY <1>1 DEF HasArrived
<1>14. InQueue(h) /\ ~AtWork(h) /\ ~HasArrived(h)
    BY <1>2, <1>11 DEF InQueue, n, Once
<1>15. \A s : Waits(s)' <=> Waits(s)
    BY <1>8, <1>12, <1>13, <1>14 DEF Waits
<1>16. \A k, l \in 1..Len(queue') : queue'[k] = queue'[l] => k = l
  <2>1. ASSUME NEW k \in 1..(n - 1), NEW l \in 1..(n - 1), queue'[k] = queue'[l] PROVE k = l
    <3>1. queue[k + 1] = queue[l + 1]
        BY <1>3, <2>1
    <3>2. k + 1 = l + 1
        BY <1>9, <1>11, <3>1
    <3> QED
        BY <3>2
  <2> QED
      BY <1>3, <2>1
<1>17. \A u, v \in Threads : Busy(u)' /\ Busy(v)' /\ task'[u].slice = task'[v].slice => u = v
  <2>1. \A v \in Threads : v # w /\ Busy(v)' => task'[v].slice # h
      BY <1>4, <1>7, <1>14 DEF AtWork
  <2> QED
      BY <1>4, <1>5, <1>7, <2>1 DEF Once
<1>18. Once'
  <2>1. \A f, g \in arrived' : f[1] = g[1] => f = g
      BY <1>1 DEF Once
  <2>2. \A s : (InQueue(s)' => ~AtWork(s)' /\ ~HasArrived(s)') /\ (AtWork(s)' => ~HasArrived(s)')
      BY <1>8, <1>12, <1>13, <1>14 DEF Once
  <2> QED
      BY <1>16, <1>17, <2>1, <2>2 DEF Once
<1> QED
    BY <1>4, <1>5, <1>15, <1>18 DEF h

\* A thread goes on with its slice, or the slice has arrived.
LEMMA ProceedPlaces ==
    ASSUME TypeInv, Once, NEW w \in Threads, Busy(w), NEW todo, NEW out,
           Proceed(w, todo, out), queue' = queue, TaskOK(task[w], next)
    PROVE  /\ Once' /\ \A s : Waits(s)' <=> Waits(s)
           /\ \A v \in Threads : v # w => task'[v] = task[v]
           /\ todo = << >> => /\ ~Busy(w)' /\ arrived' = arrived \cup {<<task[w].slice, out>>}
           /\ todo # << >> => /\ arrived' = arrived /\ task'[w].slice = task[w].slice
                              /\ task'[w].todo = todo /\ task'[w].out = out
                              /\ DOMAIN task'[w] = DOMAIN task[w]
<1> DEFINE z == task[w].slice
<1>1. DOMAIN task = Threads /\ DOMAIN task[w] = {"slice", "todo", "out"}
    BY DEF TypeInv, TaskOK
<1>2. \A v \in Threads : v # w => task'[v] = task[v]
    BY <1>1 DEF Proceed
<1>3. AtWork(z) /\ ~InQueue(z) /\ ~HasArrived(z)
    BY DEF AtWork, Once
<1>4. /\ \A s : InQueue(s)' <=> InQueue(s)
      /\ \A k, l \in 1..Len(queue') : queue'[k] = queue'[l] => k = l
    BY DEF InQueue, Once
<1> HIDE DEF z
<1>5. CASE todo = << >>
  <2>1. task'[w] = NoTask /\ arrived' = arrived \cup {<<z, out>>}
      BY <1>1, <1>5 DEF Proceed, z
  <2>2. \A v \in Threads : Busy(v)' <=> v # w /\ Busy(v)
      BY <1>2, <2>1 DEF Busy
  <2>3. \A s : AtWork(s)' <=> AtWork(s) /\ s # z
    <3>1. \A v \in Threads : Busy(v) /\ task[v].slice = z => v = w
        BY DEF Once, z
    <3> QED
        BY <1>2, <2>2, <3>1 DEF AtWork, z
  <2>4. \A s : HasArrived(s)' <=> HasArrived(s) \/ s = z
    <3> DEFINE g == <<z, out>>
    <3>1. g[1] = z /\ arrived' = arrived \cup {g}
        BY <2>1
    <3> HIDE DEF g
    <3>2. \A f : f \in arrived' <=> f \in arrived \/ f = g
        BY <3>1
    <3> QED
        BY <3>1, <3>2 DEF HasArrived
  <2>5. \A s : Waits(s)' <=> Waits(s)
      BY <1>3, <1>4, <2>3, <2>4 DEF Waits
  <2>6. \A u, v \in Threads : Busy(u)' /\ Busy(v)' /\ task'[u].slice = task'[v].slice => u = v
      BY <1>2, <2>2 DEF Once
  <2>7. \A f, g \in arrived' : f[1] = g[1] => f = g
      BY <1>3, <2>1 DEF Once, HasArrived
  <2>8. \A s : (InQueue(s)' => ~AtWork(s)' /\ ~HasArrived(s)') /\ (AtWork(s)' => ~HasArrived(s)')
      BY <1>3, <1>4, <2>3, <2>4 DEF Once
  <2>9. Once'
      BY <1>4, <2>6, <2>7, <2>8 DEF Once
  <2> QED
      BY <1>2, <1>5, <2>1, <2>2, <2>5, <2>9 DEF z
<1>6. CASE todo # << >>
  <2>1. arrived' = arrived /\ task' = [task EXCEPT ![w] = [@ EXCEPT !.todo = todo, !.out = out]]
      BY <1>6 DEF Proceed
  <2>2. task'[w] = [task[w] EXCEPT !.todo = todo, !.out = out]
      BY <1>1, <2>1
  <2>3. /\ task'[w].slice = z /\ task'[w].todo = todo /\ task'[w].out = out
        /\ DOMAIN task'[w] = DOMAIN task[w]
      BY <1>1, <2>2 DEF z
  <2>4. task'[w] # NoTask
      BY <1>6, <2>3 DEF NoTask
  <2>5. \A v \in Threads : (Busy(v)' <=> Busy(v)) /\ task'[v].slice = task[v].slice
      BY <1>2, <2>3, <2>4 DEF Busy, z
  <2>6. \A s : (AtWork(s)' <=> AtWork(s)) /\ (HasArrived(s)' <=> HasArrived(s))
      BY <2>1, <2>5 DEF AtWork, HasArrived
  <2>7. \A s : Waits(s)' <=> Waits(s)
      BY <1>4, <2>6 DEF Waits
  <2>8. Once'
      BY <1>4, <2>1, <2>5, <2>6 DEF Once
  <2> QED
      BY <1>2, <1>6, <2>1, <2>3, <2>7, <2>8 DEF z
<1> QED
    BY <1>5, <1>6

\* A result that has landed waits no longer.
LEMMA LandPlaces ==
    ASSUME TypeInv, Once, NEW f \in arrived, NEW s, s = f[1], NEW vecs, f = <<s, vecs>>, Land(s, vecs)
    PROVE  /\ Once' /\ arrived' = arrived \ {f} /\ queue' = queue /\ task' = task
           /\ Waits(s) /\ \A x : Waits(x)' <=> Waits(x) /\ x # s
<1>1. arrived' = arrived \ {f} /\ queue' = queue /\ task' = task
    BY DEF Land
<1>2. HasArrived(s) /\ ~InQueue(s) /\ ~AtWork(s)
    BY DEF HasArrived, Once
<1>3. \A g \in arrived : g[1] = s => g = f
    BY DEF Once
<1>4. \A x : (InQueue(x)' <=> InQueue(x)) /\ (AtWork(x)' <=> AtWork(x))
    BY <1>1 DEF InQueue, AtWork, Busy
<1>5. \A x : HasArrived(x)' <=> HasArrived(x) /\ x # s
    BY <1>1, <1>3 DEF HasArrived
<1>6. Waits(s) /\ \A x : Waits(x)' <=> Waits(x) /\ x # s
    BY <1>2, <1>4, <1>5 DEF Waits
<1>7. /\ \A k, l \in 1..Len(queue') : queue'[k] = queue'[l] => k = l
      /\ \A u, v \in Threads : Busy(u)' /\ Busy(v)' /\ task'[u].slice = task'[v].slice => u = v
    BY <1>1 DEF Once, Busy
<1>8. \A g, h \in arrived' : g[1] = h[1] => g = h
    BY <1>1 DEF Once
<1>9. \A x : (InQueue(x)' => ~AtWork(x)' /\ ~HasArrived(x)') /\ (AtWork(x)' => ~HasArrived(x)')
    BY <1>4, <1>5 DEF Once
<1>10. Once'
    BY <1>7, <1>8, <1>9 DEF Once
<1> QED
    BY <1>1, <1>6, <1>10

\* A slice just taken is a task, cut into batches.
LEMMA NewTask ==
    ASSUME NEW h \in Ranges, h[1] <= h[2], NEW r, NEW t, DOMAIN t = {"slice", "todo", "out"},
           t.slice = h, t.todo = Pieces(h, BatchSize), t.out = << >>
    PROVE  TaskOK(t, r)
<1>1. h[1] \in Int /\ h[2] \in Int /\ h = <<h[1], h[2]>>
    BY DEF Ranges
<1> DEFINE lo == h[1]
           hi == h[2]
           P == Pieces(<<lo, hi>>, BatchSize)
<1>2. lo \in Int /\ hi \in Int /\ lo <= hi
    BY <1>1
<1> HIDE DEF lo, hi
<1>3. Cut(P, lo, hi, BatchSize)
    BY <1>2, SizesPositive, PiecesCut
<1> HIDE DEF P
<1>4. Texts(RangesOf(P)) = lo..hi
    BY <1>2, <1>3, CutTexts
<1>5. Chained(P) /\ P # << >>
    BY <1>3 DEF Cut
<1>6. t.todo = P
    BY <1>1 DEF P, lo, hi
<1>7. VectorsOf(r, lo, t.out) /\ Len(t.out) = 0
    BY RefusedVector
<1>8. t.slice[1] = lo /\ t.slice[2] = hi
    BY DEF lo, hi
<1>9. lo + Len(t.out) = lo
    BY <1>2, <1>7
<1> HIDE DEF P, lo, hi
<1> QED
    BY <1>4, <1>5, <1>6, <1>7, <1>8, <1>9 DEF TaskOK

-----------------------------------------------------------------------------
(***************************************************************************)
(* The invariant, action by action.                                         *)
(***************************************************************************)
\* While only places change, what has landed stays as it is.
LEMMA LandQuiet ==
    ASSUME LandInv, \A s : Waits(s)' <=> Waits(s),
           UNCHANGED <<next, pc, vectors, failures>>
    PROVE  LandInv'
<1>1. Count' = Count /\ Slices(next)' = Slices(next)
    BY DEF Count, Slices
<1>2. \A s : (Blank(s)' <=> Blank(s)) /\ (Full(s)' <=> Full(s))
    BY DEF Blank, Full
<1>3. \A s : Lost(s)' <=> Lost(s)
    BY <1>2 DEF Lost
<1>4. Failed' = Failed
    BY <1>1, <1>3 DEF Failed
<1> QED
    BY <1>1, <1>2, <1>4 DEF LandInv

\* A slice of the repository stays one.
LEMMA SameSlices ==
    ASSUME next' = next
    PROVE  /\ Count' = Count /\ Slices(next)' = Slices(next)
           /\ \A s : IsSlice(s)' <=> IsSlice(s)
BY DEF Count, Slices, IsSlice

\* A thread takes a slice.
LEMMA TakeKeeps ==
    ASSUME EmbedInv, NEW w \in Threads, TakeSlice(w)
    PROVE  EmbedInv'
<1> DEFINE h == Head(queue)
<1>1. TypeInv /\ Once /\ SliceInv /\ LandInv /\ Fresh
    BY DEF EmbedInv
<1>2. /\ queue # << >> /\ ~Busy(w) /\ queue' = Tail(queue) /\ arrived' = arrived
      /\ UNCHANGED <<emb, next, stats, pc, vectors, failures>>
    BY DEF TakeSlice
<1>3. Waits(h) /\ IsSlice(h)
    BY <1>1, <1>2, WhoWaits DEF SliceInv
<1>4. pc = "dispatch" /\ next \in 1..Len(Sizes) /\ Sizes[next] > 0
    BY <1>1, <1>3, AtWorkOnly
<1>5. Within(h, Sizes[next], SliceSize)
    BY <1>3, <1>4, SlicesApart
<1> HIDE DEF h
<1>6. h \in Ranges /\ h[1] <= h[2]
    BY <1>5 DEF Within
<1>7. Pieces(h, BatchSize) # << >>
  <2> DEFINE t == [slice |-> h, todo |-> Pieces(h, BatchSize), out |-> << >>]
  <2>1. /\ DOMAIN t = {"slice", "todo", "out"} /\ t.slice = h
        /\ t.todo = Pieces(h, BatchSize) /\ t.out = << >>
      OBVIOUS
  <2> HIDE DEF t
  <2>2. TaskOK(t, next)
      BY <1>6, <2>1, NewTask
  <2> QED
      BY <2>1, <2>2 DEF TaskOK
<1>8. /\ Once' /\ \A s : Waits(s)' <=> Waits(s)
      /\ \A v \in Threads : v # w => task'[v] = task[v]
      /\ task'[w].slice = h /\ task'[w].todo = Pieces(h, BatchSize)
      /\ task'[w].out = << >> /\ DOMAIN task'[w] = {"slice", "todo", "out"}
    BY <1>1, <1>7, TakePlaces DEF h
<1>9. TaskOK(task'[w], next)
    BY <1>6, <1>8, NewTask
<1>10. TypeInv'
  <2>1. queue' \in Seq(Ranges) /\ DOMAIN task' = Threads
    <3>1. DOMAIN task' = DOMAIN task
        BY DEF TakeSlice
    <3> QED
        BY <1>1, <1>2, <3>1 DEF TypeInv
  <2> QED
      BY <1>1, <1>2, <1>4, <2>1 DEF TypeInv
<1>11. SliceInv'
  <2>1. \A s : Waits(s)' => IsSlice(s)'
      BY <1>1, <1>2, <1>8, SameSlices DEF SliceInv
  <2>2. \A v \in Threads : Busy(v)' => TaskOK(task'[v], next)
      BY <1>1, <1>8, <1>9 DEF SliceInv, Busy
  <2>3. \A f \in arrived' : FutureOK(f, next)
      BY <1>1, <1>2 DEF SliceInv
  <2> QED
      BY <1>2, <2>1, <2>2, <2>3 DEF SliceInv
<1>12. LandInv'
    BY <1>1, <1>2, <1>8, LandQuiet
<1>13. Fresh'
    BY <1>1, <1>2 DEF Fresh
<1> QED
    BY <1>8, <1>10, <1>11, <1>12, <1>13 DEF EmbedInv

\* A thread goes on with a task that is in order, or with a result that is.
LEMMA ProceedKeeps ==
    ASSUME EmbedInv, NEW w \in Threads, Busy(w), NEW todo, NEW out, Proceed(w, todo, out),
           UNCHANGED <<emb, next, stats, pc, queue, vectors, failures>>,
           todo = << >> => FutureOK(<<task[w].slice, out>>, next),
           todo # << >> => \A u : SameSliceOf(task[w], u) /\ u.todo = todo /\ u.out = out
                                    => TaskOK(u, next)
    PROVE  EmbedInv'
<1>1. TypeInv /\ Once /\ SliceInv /\ LandInv /\ Fresh
    BY DEF EmbedInv
<1>2. pc = "dispatch" /\ next \in 1..Len(Sizes) /\ Sizes[next] > 0
    BY <1>1, WhoWaits, AtWorkOnly
<1>3. /\ Once' /\ \A s : Waits(s)' <=> Waits(s)
      /\ \A v \in Threads : v # w => task'[v] = task[v]
      /\ todo = << >> => /\ ~Busy(w)' /\ arrived' = arrived \cup {<<task[w].slice, out>>}
      /\ todo # << >> => /\ arrived' = arrived /\ task'[w].slice = task[w].slice
                         /\ task'[w].todo = todo /\ task'[w].out = out
                         /\ DOMAIN task'[w] = DOMAIN task[w]
  <2>1. TaskOK(task[w], next)
      BY <1>1 DEF SliceInv
  <2> QED
      BY <1>1, <2>1, ProceedPlaces
<1>4. TypeInv'
  <2>1. DOMAIN task' = DOMAIN task
      BY DEF Proceed
  <2> QED
      BY <1>1, <1>2, <2>1 DEF TypeInv
<1>5. SliceInv'
  <2>1. \A s : Waits(s)' => IsSlice(s)'
      BY <1>1, <1>3, SameSlices DEF SliceInv
  <2>2. Busy(w)' => TaskOK(task'[w], next)
      BY <1>3 DEF SameSliceOf
  <2>3. \A v \in Threads : v # w /\ Busy(v)' => TaskOK(task'[v], next)
      BY <1>1, <1>3 DEF SliceInv, Busy
  <2>4. \A f \in arrived' : FutureOK(f, next)
      BY <1>1, <1>3 DEF SliceInv
  <2> QED
      BY <2>1, <2>2, <2>3, <2>4 DEF SliceInv
<1>6. LandInv'
    BY <1>1, <1>3, LandQuiet
<1>7. Fresh'
    BY <1>1 DEF Fresh
<1> QED
    BY <1>3, <1>4, <1>5, <1>6, <1>7 DEF EmbedInv

\* What Answered says of a task that is written out.
LEMMA AnsweredTask ==
    ASSUME NEW t, NEW r, TaskOK(t, r), t.slice \in Ranges,
           NEW vecs, VectorsOf(r, Head(t.todo)[1], vecs), Len(vecs) = Size(Head(t.todo)),
           NEW todo, NEW out, todo = Tail(t.todo), out = t.out \o vecs
    PROVE  /\ todo = << >> => FutureOK(<<t.slice, out>>, r)
           /\ todo # << >> => \A u : SameSliceOf(t, u) /\ u.todo = todo /\ u.out = out => TaskOK(u, r)
<1>1. ASSUME NEW u, SameSliceOf(t, u), u.todo = todo, u.out = out
      PROVE  /\ todo = << >> => FutureOK(<<t.slice, out>>, r)
             /\ todo # << >> => TaskOK(u, r)
  <2>1. u.todo = Tail(t.todo) /\ u.out = t.out \o vecs
      BY <1>1
  <2>2. /\ u.todo = << >> => FutureOK(<<t.slice, u.out>>, r)
        /\ u.todo # << >> => TaskOK(u, r)
      BY <1>1, <2>1, Answered
  <2> QED
      BY <1>1, <2>2
<1> DEFINE z == t.slice
           x == [slice |-> z, todo |-> todo, out |-> out]
<1>2. SameSliceOf(t, x) /\ x.todo = todo /\ x.out = out
    BY DEF SameSliceOf, TaskOK
<1> HIDE DEF x
<1>3. todo = << >> => FutureOK(<<t.slice, out>>, r)
    BY <1>1, <1>2
<1> QED
    BY <1>1, <1>3

\* A busy thread has a task on a slice of the repository.
LEMMA BusyTask ==
    ASSUME EmbedInv, NEW w \in Threads, Busy(w)
    PROVE  TaskOK(task[w], next) /\ task[w].slice \in Ranges
<1>1. IsSlice(task[w].slice) /\ TaskOK(task[w], next)
    BY WhoWaits DEF EmbedInv, SliceInv
<1>2. next \in 1..Len(Sizes) /\ Sizes[next] > 0
    BY WhoWaits, AtWorkOnly DEF EmbedInv
<1> QED
    BY <1>1, <1>2, SlicesApart DEF Within

\* The provider answers.
LEMMA CallSucceedsKeeps ==
    ASSUME EmbedInv, NEW w \in Threads, CallSucceeds(w)
    PROVE  EmbedInv'
<1> DEFINE t == task[w]
           rg == Head(t.todo)
           n == Size(rg)
           m == rg[1]
           vecs == [i \in 1..n |-> Vector(next, m + i - 1)]
           todo == Tail(t.todo)
           out == t.out \o vecs
<1>1. Busy(w) /\ Proceed(w, todo, out) /\ UNCHANGED <<emb, next, stats, pc, queue, vectors, failures>>
    BY DEF CallSucceeds
<1>2. TaskOK(t, next) /\ t.slice \in Ranges
    BY <1>1, BusyTask
<1> HIDE DEF t
<1>3. rg \in Ranges /\ m \in Int /\ rg[2] \in Int /\ m <= rg[2]
    BY <1>2, TaskRange DEF Ranges
<1>4. n \in Nat
    BY <1>3 DEF Size
<1> HIDE DEF n, m
<1>5. VectorsOf(next, m, vecs) /\ Len(vecs) = n
    BY <1>3, <1>4, CallVectors
<1> HIDE DEF vecs
<1>6. VectorsOf(next, Head(t.todo)[1], vecs) /\ Len(vecs) = Size(Head(t.todo))
    BY <1>5 DEF m, n
<1> HIDE DEF todo, out
<1>7. todo = Tail(t.todo) /\ out = t.out \o vecs
    BY DEF todo, out
<1>8. /\ todo = << >> => FutureOK(<<t.slice, out>>, next)
      /\ todo # << >> => \A u : SameSliceOf(t, u) /\ u.todo = todo /\ u.out = out => TaskOK(u, next)
    BY <1>2, <1>6, <1>7, AnsweredTask
<1> QED
    BY <1>1, <1>8, ProceedKeeps DEF t

\* The provider fails, and with it the slice.
LEMMA CallRaisesKeeps ==
    ASSUME EmbedInv, NEW w \in Threads, CallRaises(w)
    PROVE  EmbedInv'
<1>1. /\ Busy(w) /\ Proceed(w, << >>, << >>)
      /\ UNCHANGED <<emb, next, stats, pc, queue, vectors, failures>>
    BY DEF CallRaises
<1>2. FutureOK(<<task[w].slice, << >>>>, next)
    BY DEF FutureOK
<1> DEFINE todo == << >>
<1>3. todo = << >>
    OBVIOUS
<1> HIDE DEF todo
<1> QED
    BY <1>1, <1>2, <1>3, ProceedKeeps

\* The provider refuses a payload: it is halved, or its one text gets the sentinel.
LEMMA CallTooLargeKeeps ==
    ASSUME EmbedInv, NEW w \in Threads, CallTooLarge(w)
    PROVE  EmbedInv'
<1> DEFINE t == task[w]
           rg == Head(t.todo)
           todo == Halves(rg) \o Tail(t.todo)
           out == IF Halves(rg) = << >> THEN Append(t.out, ZeroVector) ELSE t.out
<1>1. Busy(w) /\ Proceed(w, todo, out) /\ UNCHANGED <<emb, next, stats, pc, queue, vectors, failures>>
    BY DEF CallTooLarge
<1>2. TaskOK(t, next) /\ t.slice \in Ranges
    BY <1>1, BusyTask
<1> HIDE DEF t
<1>3. /\ rg = t.todo[1] /\ rg \in Ranges /\ rg[1] <= rg[2]
    BY <1>2, TaskRange
<1>4. rg[1] \in Int /\ rg[2] \in Int /\ Size(rg) \in Nat \ {0}
    BY <1>3 DEF Ranges, Size
<1>5. Chained(t.todo) /\ t.todo # << >> /\ VectorsOf(next, t.slice[1], t.out)
      /\ Texts(RangesOf(t.todo)) = (t.slice[1] + Len(t.out))..t.slice[2]
    BY <1>2 DEF TaskOK
<1>6. CASE Size(rg) > 1
  <2>1. Chained(todo) /\ todo # << >> /\ Texts(RangesOf(todo)) = Texts(RangesOf(t.todo))
      BY <1>3, <1>5, <1>6, HalvedFirst
  <2>2. Halves(rg) # << >>
      BY <1>6 DEF Halves
  <2>3. out = t.out
      BY <2>2
  <2> HIDE DEF todo, out
  <2>4. \A u : SameSliceOf(t, u) /\ u.todo = todo /\ u.out = out => TaskOK(u, next)
    <3>1. ASSUME NEW u, SameSliceOf(t, u), u.todo = todo, u.out = out PROVE TaskOK(u, next)
        BY <1>2, <1>5, <2>1, <2>3, <3>1 DEF TaskOK, SameSliceOf
    <3> QED
        BY <3>1
  <2> QED
      BY <1>1, <2>1, <2>4, ProceedKeeps DEF t
<1>7. CASE ~(Size(rg) > 1)
  <2> DEFINE one == <<ZeroVector>>
  <2>1. Halves(rg) = << >>
      BY <1>7 DEF Halves
  <2>2. VectorsOf(next, rg[1], one) /\ Len(one) = 1 /\ Size(rg) = 1
      BY <1>4, <1>7, RefusedVector
  <2>3. todo = Tail(t.todo)
    <3>1. Tail(t.todo) \in Seq(Ranges)
        BY <1>5 DEF Chained
    <3>2. << >> \o Tail(t.todo) = Tail(t.todo)
        BY <3>1, ConcatEmptySeq
    <3> QED
        BY <2>1, <3>2
  <2>4. out = t.out \o one
    <3> DEFINE V == {ZeroVector} \cup {Vector(next, j) : j \in Int}
    <3>1. t.out \in Seq(V) /\ ZeroVector \in V
        BY <1>5 DEF VectorsOf
    <3> HIDE DEF V
    <3>2. Append(t.out, ZeroVector) = t.out \o <<ZeroVector>>
        BY <3>1, AppendIsConcat
    <3> QED
        BY <2>1, <3>2
  <2> HIDE DEF todo, out, one
  <2>5. VectorsOf(next, Head(t.todo)[1], one) /\ Len(one) = Size(Head(t.todo))
      BY <2>2
  <2>6. /\ todo = << >> => FutureOK(<<t.slice, out>>, next)
        /\ todo # << >> => \A u : SameSliceOf(t, u) /\ u.todo = todo /\ u.out = out => TaskOK(u, next)
      BY <1>2, <2>3, <2>4, <2>5, AnsweredTask
  <2> QED
      BY <1>1, <2>6, ProceedKeeps DEF t
<1> QED
    BY <1>6, <1>7

\* The vectors of a slice landed: the slice is full, its texts have their own
\* vectors, and every other slice is as it was.
LEMMA LandedFull ==
    ASSUME next \in 1..Len(Sizes), Sizes[next] > 0, DOMAIN vectors = 1..Sizes[next],
           NEW s, IsSlice(s), NEW vecs, Fits(s, vecs), VectorsOf(next, s[1], vecs),
           vectors' = Landed(s, vecs), next' = next
    PROVE  /\ DOMAIN vectors' = 1..Sizes[next] /\ Full(s)' /\ ~Blank(s)'
           /\ \A j \in 1..Sizes[next] :
                 vectors'[j] = vectors[j] \/ vectors'[j] \in {ZeroVector, Vector(next, j)}
           /\ \A x : IsSlice(x) /\ x # s => (Blank(x)' <=> Blank(x)) /\ (Full(x)' <=> Full(x))
<1> DEFINE n == Sizes[next]
           lo == s[1]
           hi == s[2]
<1>1. n \in Nat /\ Within(s, n, SliceSize)
    BY SlicesApart
<1>2. lo \in Int /\ hi \in Int /\ 1 <= lo /\ lo <= hi /\ hi <= n /\ Len(vecs) = hi - lo + 1
    BY <1>1 DEF Within, Fits, Size
<1>3. \A i \in 1..Len(vecs) : vecs[i] \in {ZeroVector, Vector(next, lo + i - 1)}
    BY DEF VectorsOf
<1>4. /\ DOMAIN vectors' = 1..n
      /\ \A j \in 1..n : vectors'[j] = IF j \in lo..hi THEN vecs[j - lo + 1] ELSE vectors[j]
    BY DEF Landed
<1> HIDE DEF n, lo, hi
<1>5. ASSUME NEW j \in lo..hi
      PROVE  j \in 1..n /\ vectors'[j] \in {ZeroVector, Vector(next, j)} /\ vectors'[j] # NoVector
  <2> DEFINE i == j - lo + 1
  <2>1. i \in 1..Len(vecs) /\ lo + i - 1 = j /\ j \in 1..n
      BY <1>1, <1>2
  <2>2. vectors'[j] = vecs[i]
      BY <1>4, <2>1
  <2> HIDE DEF i
  <2>3. vecs[i] \in {ZeroVector, Vector(next, lo + i - 1)}
      BY <1>3, <2>1
  <2>4. vectors'[j] \in {ZeroVector, Vector(next, j)}
      BY <2>1, <2>2, <2>3
  <2>5. ZeroVector # NoVector /\ Vector(next, j) # NoVector
    <3>1. j \in Nat
        BY <1>1, <2>1
    <3>2. <<next, j>> \in (1..Len(Sizes)) \X Nat
        BY <3>1
    <3> QED
        BY <3>2, EmbedAssumption DEF Vector
  <2> QED
      BY <2>1, <2>4, <2>5
<1>6. \A j \in 1..n : vectors'[j] = vectors[j] \/ vectors'[j] \in {ZeroVector, Vector(next, j)}
    BY <1>4, <1>5
<1>7. Full(s)' /\ ~Blank(s)'
  <2>1. Full(s)'
      BY <1>5 DEF Full, lo, hi
  <2>2. lo \in lo..hi
      BY <1>2
  <2> QED
      BY <1>5, <2>1, <2>2 DEF Blank, lo, hi
<1>8. ASSUME NEW x, IsSlice(x), x # s
      PROVE  (Blank(x)' <=> Blank(x)) /\ (Full(x)' <=> Full(x))
  <2>1. Apart(x, s) /\ Within(x, n, SliceSize)
      BY <1>8, SlicesApart DEF n
  <2>2. \A j \in x[1]..x[2] : j \in 1..n
      BY <1>1, <2>1 DEF Within
  <2>3. \A j \in x[1]..x[2] : vectors'[j] = vectors[j]
      BY <1>4, <2>1, <2>2 DEF Apart, lo, hi
  <2> QED
      BY <2>3 DEF Blank, Full
<1>9. \A x : IsSlice(x) /\ x # s => (Blank(x)' <=> Blank(x)) /\ (Full(x)' <=> Full(x))
    BY <1>8
<1> QED
    BY <1>4, <1>6, <1>7, <1>9 DEF n

\* One more slice of the repository failed.
LEMMA OneMoreFailed ==
    ASSUME next \in 1..Len(Sizes), Sizes[next] > 0, NEW s, IsSlice(s), ~Lost(s), next' = next,
           \A x : IsSlice(x) => (Lost(x)' <=> Lost(x) \/ x = s)
    PROVE  Cardinality(Failed)' = Cardinality(Failed) + 1
<1> DEFINE S == Slices(next)
<1>1. /\ Count \in Nat \ {0} /\ \A k \in 1..Count : IsSlice(S[k])
      /\ \A k, l \in 1..Count : S[k] = S[l] => k = l
    BY SlicesApart
<1>2. Count' = Count /\ Slices(next)' = S
    BY SameSlices
<1>3. PICK k \in 1..Count : S[k] = s
    BY DEF IsSlice
<1>4. Failed = {l \in 1..Count : Lost(S[l])}
    BY DEF Failed
<1>5. Failed' = {l \in 1..Count : Lost(S[l])'}
    BY <1>2 DEF Failed
<1>6. IsFiniteSet(Failed)
  <2>1. 1 \in Int /\ Count \in Int /\ Failed \subseteq 1..Count
      BY <1>1, <1>4
  <2>2. IsFiniteSet(1..Count)
      BY <2>1, FS_Interval
  <2> QED
      BY <2>1, <2>2, FS_Subset
<1>7. k \notin Failed
    BY <1>3, <1>4
<1>8. Failed' = Failed \cup {k}
  <2>1. \A l \in 1..Count : Lost(S[l])' <=> Lost(S[l]) \/ l = k
      BY <1>1, <1>3
  <2> QED
      BY <1>3, <1>4, <1>5, <2>1
<1>9. Cardinality(Failed \cup {k}) = Cardinality(Failed) + 1
    BY <1>6, <1>7, FS_AddElement
<1> QED
    BY <1>8, <1>9

\* A result lands.
LEMMA LandKeeps ==
    ASSUME EmbedInv, NEW f \in arrived, Land(f[1], f[2])
    PROVE  EmbedInv'
<1> DEFINE s == f[1]
           vecs == f[2]
           n == Sizes[next]
<1>1. TypeInv /\ Once /\ SliceInv /\ LandInv /\ Fresh
    BY DEF EmbedInv
<1>2. f = <<s, vecs>> /\ (vecs = << >> \/ (Fits(s, vecs) /\ VectorsOf(next, s[1], vecs)))
    BY <1>1 DEF SliceInv, FutureOK
<1>3. Waits(s) /\ IsSlice(s)
    BY <1>1, WhoWaits DEF SliceInv
<1>4. pc = "dispatch" /\ next \in 1..Len(Sizes) /\ n > 0 /\ DOMAIN vectors = 1..n
    BY <1>1, <1>3, AtWorkOnly DEF TypeInv
<1>5. /\ UNCHANGED <<emb, next, stats, pc, queue, task>>
      /\ \/ Fits(s, vecs) /\ vectors' = Landed(s, vecs) /\ failures' = failures
         \/ ~Fits(s, vecs) /\ vectors' = vectors /\ failures' = failures + 1
    BY DEF Land
<1> HIDE DEF s, vecs
<1>6. Land(s, vecs)
    BY DEF s, vecs
<1>7. /\ Once' /\ arrived' = arrived \ {f}
      /\ \A x : Waits(x)' <=> Waits(x) /\ x # s
  <2>1. s = f[1]
      BY DEF s
  <2> QED
      BY <1>1, <1>2, <1>6, <2>1, LandPlaces
<1>8. Within(s, n, SliceSize)
    BY <1>3, <1>4, SlicesApart
<1>9. Count' = Count /\ Slices(next)' = Slices(next) /\ \A x : IsSlice(x)' <=> IsSlice(x)
    BY <1>5, SameSlices
<1>10. \A k \in 1..Count : IsSlice(Slices(next)[k])
    BY DEF IsSlice
<1>11. SliceInv'
  <2>1. \A x : Waits(x)' => IsSlice(x)'
      BY <1>1, <1>7, <1>9 DEF SliceInv
  <2>2. \A v \in Threads : Busy(v)' => TaskOK(task'[v], next)
      BY <1>1, <1>5 DEF SliceInv, Busy
  <2>3. \A g \in arrived' : FutureOK(g, next)
      BY <1>1, <1>7 DEF SliceInv
  <2> QED
      BY <1>5, <2>1, <2>2, <2>3 DEF SliceInv
<1>12. Fresh'
    BY <1>1, <1>5 DEF Fresh
<1>13. /\ \A j \in 1..n : vectors[j] \in {NoVector, ZeroVector, Vector(next, j)}
       /\ \A x : IsSlice(x) => Blank(x) \/ Full(x)
       /\ \A x : Waits(x) => Blank(x)
       /\ failures = Cardinality(Failed)
    BY <1>1, <1>4 DEF LandInv, IsSlice
<1>14. CASE Fits(s, vecs)
  <2>1. vectors' = Landed(s, vecs) /\ failures' = failures
      BY <1>5, <1>14
  <2>2. VectorsOf(next, s[1], vecs)
    <3>1. Size(s) \in Nat \ {0}
        BY <1>8, SizesPositive DEF Within
    <3>2. vecs # << >>
        BY <1>14, <3>1 DEF Fits
    <3> QED
        BY <1>2, <3>2
  <2>3. /\ DOMAIN vectors' = 1..n /\ Full(s)' /\ ~Blank(s)'
        /\ \A j \in 1..n : vectors'[j] = vectors[j] \/ vectors'[j] \in {ZeroVector, Vector(next, j)}
        /\ \A x : IsSlice(x) /\ x # s => (Blank(x)' <=> Blank(x)) /\ (Full(x)' <=> Full(x))
      BY <1>3, <1>4, <1>5, <1>14, <2>1, <2>2, LandedFull
  <2>4. \A x : IsSlice(x) => (Lost(x)' <=> Lost(x))
      BY <1>3, <1>7, <2>3 DEF Lost
  <2>5. Failed' = Failed
      BY <1>9, <1>10, <2>4 DEF Failed
  <2>6. \A j \in 1..n : vectors'[j] \in {NoVector, ZeroVector, Vector(next, j)}
      BY <1>13, <2>3
  <2>7. \A x : IsSlice(x) => Blank(x)' \/ Full(x)'
      BY <1>13, <2>3
  <2>8. \A x : Waits(x)' => Blank(x)'
      BY <1>1, <1>7, <1>13, <2>3 DEF SliceInv
  <2>9. LandInv'
      BY <1>5, <1>9, <1>10, <1>13, <2>1, <2>5, <2>6, <2>7, <2>8 DEF LandInv
  <2>10. TypeInv'
      BY <1>1, <1>4, <1>5, <2>1, <2>3 DEF TypeInv
  <2> QED
      BY <1>7, <1>11, <1>12, <2>9, <2>10 DEF EmbedInv
<1>15. CASE ~Fits(s, vecs)
  <2>1. vectors' = vectors /\ failures' = failures + 1
      BY <1>5, <1>15
  <2>2. \A x : (Blank(x)' <=> Blank(x)) /\ (Full(x)' <=> Full(x))
      BY <2>1 DEF Blank, Full
  <2>3. Blank(s) /\ ~Lost(s)
      BY <1>3, <1>13 DEF Lost
  <2>4. \A x : IsSlice(x) => (Lost(x)' <=> Lost(x) \/ x = s)
      BY <1>7, <2>2, <2>3 DEF Lost
  <2>5. Cardinality(Failed)' = Cardinality(Failed) + 1
      BY <1>3, <1>4, <1>5, <2>3, <2>4, OneMoreFailed
  <2>6. \A x : Waits(x)' => Blank(x)'
      BY <1>7, <1>13, <2>2
  <2>7. \A x : IsSlice(x) => Blank(x)' \/ Full(x)'
      BY <1>13, <2>2
  <2>8. LandInv'
      BY <1>5, <1>9, <1>10, <1>13, <2>1, <2>5, <2>6, <2>7 DEF LandInv
  <2>9. TypeInv'
      BY <1>1, <1>4, <1>5, <2>1 DEF TypeInv
  <2> QED
      BY <1>7, <1>11, <1>12, <2>8, <2>9 DEF EmbedInv
<1> QED
    BY <1>14, <1>15

-----------------------------------------------------------------------------
(***************************************************************************)
(* The main thread between repositories.                                    *)
(***************************************************************************)
\* Between repositories there is nothing to be in order.
LEMMA IdleNext ==
    ASSUME AllLanded', pc' = "start"
    PROVE  Once' /\ SliceInv' /\ LandInv'
<1>1. queue' = << >> /\ arrived' = {} /\ \A w \in Threads : ~Busy(w)'
    BY DEF AllLanded
<1>2. \A s : ~InQueue(s)' /\ ~AtWork(s)' /\ ~HasArrived(s)'
  <2>1. Len(queue') = 0
      BY <1>1
  <2> QED
      BY <1>1, <2>1 DEF InQueue, AtWork, HasArrived
<1>3. Once'
  <2>1. Len(queue') = 0
      BY <1>1
  <2> QED
      BY <1>1, <1>2, <2>1 DEF Once
<1> QED
    BY <1>1, <1>2, <1>3 DEF SliceInv, LandInv, Waits

\* The first state.
LEMMA InitHolds == Init => EmbedInv
<1> SUFFICES ASSUME Init PROVE EmbedInv
    OBVIOUS
<1>1. Len(queue) = 0 /\ arrived = {} /\ \A w \in Threads : ~Busy(w)
    BY DEF Init, Busy
<1>2. AllLanded /\ pc = "start"
    BY <1>1 DEF Init, AllLanded
<1>3. \A s : ~InQueue(s) /\ ~AtWork(s) /\ ~HasArrived(s)
    BY <1>1 DEF InQueue, AtWork, HasArrived
<1>4. Once
    BY <1>1, <1>3 DEF Once
<1>5. SliceInv /\ LandInv
    BY <1>1, <1>2, <1>3 DEF SliceInv, LandInv, Waits
<1>6. Sizes \in Seq(Nat) /\ Len(Sizes) \in Nat /\ \A r \in 1..Len(Sizes) : Sizes[r] \in Nat
    BY EmbedAssumption
<1>7. emb = [r \in 1..Len(Sizes) |-> [j \in 1..Sizes[r] |-> NoVector]]
    BY DEF Init
<1>8. \A r \in 1..Len(Sizes) : emb[r] = [j \in 1..Sizes[r] |-> NoVector]
    BY <1>7
<1>9. \A r \in 1..Len(Sizes) : emb[r] \in Seq(AllVectors) /\ DOMAIN emb[r] = 1..Sizes[r]
  <2>1. ASSUME NEW r \in 1..Len(Sizes) PROVE emb[r] \in Seq(AllVectors) /\ DOMAIN emb[r] = 1..Sizes[r]
    <3> DEFINE e == emb[r]
               n == Sizes[r]
    <3>1. n \in Nat /\ e = [j \in 1..n |-> NoVector]
        BY <1>6, <1>8
    <3> HIDE DEF e, n
    <3>2. e \in [1..n -> AllVectors]
        BY <3>1 DEF AllVectors
    <3>3. e \in Seq(AllVectors)
        BY <3>1, <3>2, FunctionSeq
    <3>4. DOMAIN e = 1..n
        BY <3>1
    <3> QED
        BY <3>3, <3>4 DEF e, n
  <2> QED
      BY <2>1
<1>10. emb \in [1..Len(Sizes) -> Seq(AllVectors)]
    BY <1>7, <1>9
<1>11. TypeInv
    BY <1>2, <1>6, <1>9, <1>10 DEF Init, TypeInv
<1>12. Fresh
    BY <1>6, <1>8 DEF Init, Fresh
<1> QED
    BY <1>4, <1>5, <1>11, <1>12 DEF EmbedInv

\* Every text is in a slice, the texts of one quotient in the same one.
LEMMA SlicesCover ==
    ASSUME next \in 1..Len(Sizes), Sizes[next] > 0,
           NEW i \in 1..Sizes[next], NEW j \in 1..Sizes[next],
           (i - 1) \div SliceSize = (j - 1) \div SliceSize
    PROVE  \E s : IsSlice(s) /\ i \in s[1]..s[2] /\ j \in s[1]..s[2]
<1> DEFINE S == Slices(next)
           n == Sizes[next]
           k == (i - 1) \div SliceSize + 1
           l == (j - 1) \div SliceSize + 1
<1>1. n \in Nat /\ Cut(S, 1, n, SliceSize)
    BY SlicesCut
<1>2. \A x \in 1..n : LET q == (x - 1) \div SliceSize + 1
                      IN  q \in 1..Len(S) /\ S[q][1] <= x /\ x <= S[q][2]
    BY <1>1 DEF Cut
<1>3. /\ k \in 1..Len(S) /\ S[k][1] <= i /\ i <= S[k][2]
      /\ l \in 1..Len(S) /\ S[l][1] <= j /\ j <= S[l][2]
    BY <1>2
<1>4. k = l
    OBVIOUS
<1> HIDE DEF k, l, n
<1>5. IsSlice(S[k])
    BY <1>3 DEF IsSlice, Count
<1> HIDE DEF S
<1>6. Within(S[k], n, SliceSize)
    BY <1>5, SlicesApart DEF n
<1>7. S[k][1] \in Int /\ S[k][2] \in Int /\ i \in Int /\ j \in Int
    BY <1>1, <1>6 DEF Within, n
<1>8. i \in S[k][1]..S[k][2] /\ j \in S[k][1]..S[k][2]
    BY <1>3, <1>4, <1>7
<1> QED
    BY <1>5, <1>8

\* A repository is cut into slices.
LEMMA StartKeeps ==
    ASSUME EmbedInv, StartRepo
    PROVE  EmbedInv'
<1> DEFINE n == Sizes[next]
           S == Slices(next)
<1>1. TypeInv /\ Fresh
    BY DEF EmbedInv
<1>2. /\ pc = "start" /\ next <= Len(Sizes) /\ n > 0 /\ pc' = "dispatch" /\ queue' = S
      /\ vectors' = [j \in 1..n |-> NoVector] /\ failures' = 0
      /\ UNCHANGED <<emb, next, stats, task, arrived>>
    BY DEF StartRepo
<1>3. arrived = {} /\ \A w \in Threads : ~Busy(w)
    BY <1>1, <1>2 DEF TypeInv, AllLanded
<1>4. next \in 1..Len(Sizes)
    BY <1>1, <1>2, EmbedAssumption DEF TypeInv
<1>5. /\ n \in Nat /\ Count \in Nat \ {0} /\ S \in Seq(Ranges)
      /\ \A k \in 1..Count : IsSlice(S[k])
      /\ \A s : IsSlice(s) => Within(s, n, SliceSize)
      /\ \A k, l \in 1..Count : S[k] = S[l] => k = l
    BY <1>2, <1>4, SlicesApart
<1>6. Count' = Count /\ S' = S /\ \A s : IsSlice(s)' <=> IsSlice(s)
    BY <1>2, SameSlices
<1>7. Count = Len(queue')
    BY <1>2 DEF Count
<1>8. \A s : (InQueue(s)' <=> IsSlice(s)) /\ ~AtWork(s)' /\ ~HasArrived(s)'
    BY <1>2, <1>3 DEF InQueue, AtWork, HasArrived, Busy, IsSlice, Count
<1>9. Once'
  <2>1. \A k, l \in 1..Len(queue') : queue'[k] = queue'[l] => k = l
      BY <1>2, <1>5, <1>7
  <2>2. (\A w \in Threads : ~Busy(w)') /\ arrived' = {}
      BY <1>2, <1>3 DEF Busy
  <2> QED
      BY <1>8, <2>1, <2>2 DEF Once
<1>10. \A s : Waits(s)' <=> IsSlice(s)
    BY <1>8 DEF Waits
<1>11. TypeInv'
    BY <1>1, <1>2, <1>4, <1>5 DEF TypeInv
<1>12. SliceInv'
  <2>1. (\A w \in Threads : ~Busy(w)') /\ arrived' = {}
      BY <1>2, <1>3 DEF Busy
  <2> QED
      BY <1>6, <1>10, <2>1 DEF SliceInv
<1>13. \A s : IsSlice(s) => Blank(s)'
  <2>1. ASSUME NEW s, IsSlice(s) PROVE Blank(s)'
    <3>1. Within(s, n, SliceSize)
        BY <1>5, <2>1
    <3>2. \A j \in s[1]..s[2] : j \in 1..n
        BY <1>5, <3>1 DEF Within
    <3> QED
        BY <1>2, <3>2 DEF Blank
  <2> QED
      BY <2>1
<1>14. Failed' = {}
    BY <1>5, <1>6, <1>10 DEF Failed, Lost
<1>15. LandInv'
  <2>1. \A j \in 1..n : vectors'[j] = NoVector
      BY <1>2
  <2>2. Cardinality(Failed') = 0
      BY <1>14, FS_EmptySet
  <2> QED
      BY <1>2, <1>5, <1>6, <1>10, <1>13, <2>1, <2>2 DEF LandInv
<1>16. Fresh'
    BY <1>1, <1>2 DEF Fresh
<1> QED
    BY <1>9, <1>11, <1>12, <1>15, <1>16 DEF EmbedInv

\* A repository without chunks.
LEMMA SkipKeeps ==
    ASSUME EmbedInv, SkipEmptyRepo
    PROVE  EmbedInv'
<1>1. TypeInv /\ Fresh
    BY DEF EmbedInv
<1>2. /\ pc = "start" /\ next <= Len(Sizes) /\ next' = next + 1
      /\ UNCHANGED <<emb, stats, pc, queue, task, arrived, vectors, failures>>
    BY DEF SkipEmptyRepo
<1>3. AllLanded'
    BY <1>1, <1>2 DEF TypeInv, AllLanded, Busy
<1>4. next' \in 1..(Len(Sizes) + 1) /\ \A r \in next'..Len(Sizes) : r \in next..Len(Sizes)
    BY <1>1, <1>2, EmbedAssumption DEF TypeInv
<1>5. TypeInv'
    BY <1>1, <1>2, <1>3, <1>4 DEF TypeInv
<1>6. Fresh'
    BY <1>1, <1>2, <1>4 DEF Fresh
<1> QED
    BY <1>2, <1>3, <1>5, <1>6, IdleNext DEF EmbedInv

\* When everything has landed, every slice failed exactly when no text has a
\* vector.
LEMMA AllFailed ==
    ASSUME EmbedInv, pc = "dispatch", AllLanded
    PROVE  failures = Count <=> \A j \in 1..Sizes[next] : vectors[j] = NoVector
<1> DEFINE S == Slices(next)
           n == Sizes[next]
<1>1. next \in 1..Len(Sizes) /\ Sizes[next] > 0
    BY DEF EmbedInv, TypeInv
<1>2. /\ Count \in Nat \ {0} /\ \A k \in 1..Count : IsSlice(S[k])
      /\ \A s : IsSlice(s) => Within(s, n, SliceSize)
      /\ n \in Nat
    BY <1>1, SlicesApart
<1>3. \A s : ~Waits(s)
  <2>1. queue = << >> /\ arrived = {} /\ \A w \in Threads : ~Busy(w)
      BY DEF AllLanded
  <2>2. Len(queue) = 0
      BY <2>1
  <2> QED
      BY <2>1, <2>2 DEF Waits, InQueue, AtWork, HasArrived
<1>4. Failed = {k \in 1..Count : Blank(S[k])} /\ failures = Cardinality(Failed)
    BY <1>3 DEF Failed, Lost, EmbedInv, LandInv
<1> HIDE DEF S, n
<1>5. IsFiniteSet(1..Count) /\ Cardinality(1..Count) = Count
  <2>1. 1 \in Int /\ Count \in Int /\ ~(1 > Count) /\ Count - 1 + 1 = Count
      BY <1>2
  <2>2. IsFiniteSet(1..Count) /\ Cardinality(1..Count) = IF 1 > Count THEN 0 ELSE Count - 1 + 1
      BY <2>1, FS_Interval
  <2> QED
      BY <2>1, <2>2
<1>6. failures = Count <=> Failed = 1..Count
  <2>1. Failed \in SUBSET (1..Count)
      BY <1>4
  <2>2. Cardinality(1..Count) = Cardinality(Failed) => 1..Count = Failed
      BY <1>5, <2>1, FS_Subset
  <2> QED
      BY <1>4, <1>5, <2>2
<1>7. Failed = 1..Count <=> \A k \in 1..Count : Blank(S[k])
    BY <1>4
<1>8. (\A k \in 1..Count : Blank(S[k])) <=> \A s : IsSlice(s) => Blank(s)
    BY <1>2 DEF IsSlice, S
<1>9. ASSUME \A s : IsSlice(s) => Blank(s), NEW j \in 1..n PROVE vectors[j] = NoVector
  <2>1. PICK s : IsSlice(s) /\ j \in s[1]..s[2]
      BY <1>1, SlicesCover DEF n
  <2> QED
      BY <1>9, <2>1 DEF Blank
<1>10. ASSUME \A j \in 1..n : vectors[j] = NoVector, NEW s, IsSlice(s) PROVE Blank(s)
  <2>1. Within(s, n, SliceSize)
      BY <1>2, <1>10
  <2>2. \A j \in s[1]..s[2] : j \in 1..n
      BY <1>2, <2>1 DEF Within
  <2> QED
      BY <1>10, <2>2 DEF Blank
<1>11. (\A s : IsSlice(s) => Blank(s)) <=> \A j \in 1..n : vectors[j] = NoVector
    BY <1>9, <1>10
<1> QED
    BY <1>6, <1>7, <1>8, <1>11 DEF n

\* What finishing a repository leaves: its chunks have what had landed.
LEMMA Applied ==
    ASSUME EmbedInv, FinishRepo
    PROVE  LET have == {j \in 1..Sizes[next] : emb'[next][j] # NoVector} IN
           /\ next \in 1..Len(Sizes) /\ Sizes[next] > 0 /\ next' = next + 1
           /\ emb' = [emb EXCEPT ![next] = emb'[next]]
           /\ emb'[next] \in Seq(AllVectors) /\ DOMAIN emb'[next] = 1..Sizes[next]
           /\ \A j \in 1..Sizes[next] : emb'[next][j] = vectors[j]
           /\ Cardinality(have) \in Nat
           /\ stats' = [embedded |-> stats.embedded + Cardinality(have),
                        failed |-> stats.failed + IF have = {} THEN 1 ELSE 0]
<1> DEFINE n == Sizes[next]
           landed == {j \in DOMAIN vectors : vectors[j] # NoVector}
           row == emb[next]
           new == [j \in DOMAIN row |-> IF j \in landed THEN vectors[j] ELSE row[j]]
           have == {j \in 1..Sizes[next] : emb'[next][j] # NoVector}
<1>1. TypeInv /\ LandInv /\ Fresh
    BY DEF EmbedInv
<1>2. pc = "dispatch" /\ AllLanded /\ next' = next + 1
    BY DEF FinishRepo
<1>3. next \in 1..Len(Sizes) /\ n > 0 /\ DOMAIN vectors = 1..n
    BY <1>1, <1>2 DEF TypeInv
<1>4. n \in Nat /\ Count = Len(Slices(next))
    BY <1>3, EmbedAssumption DEF Count
<1>5. /\ emb \in [1..Len(Sizes) -> Seq(AllVectors)] /\ DOMAIN row = 1..n
      /\ stats \in [embedded : Nat, failed : Nat]
    BY <1>1, <1>3 DEF TypeInv
<1>6. \A j \in 1..n : row[j] = NoVector
    BY <1>1, <1>3 DEF Fresh
<1>7. landed = {j \in 1..n : vectors[j] # NoVector}
    BY <1>3
<1>8. IsFiniteSet(landed) /\ Cardinality(landed) \in Nat /\ Cardinality({}) = 0
  <2>1. 1 \in Int /\ n \in Int
      BY <1>4
  <2>2. IsFiniteSet(1..n)
      BY <2>1, FS_Interval
  <2>3. landed \in SUBSET (1..n)
      BY <1>7
  <2> HIDE DEF landed
  <2>4. IsFiniteSet(landed)
      BY <2>2, <2>3, FS_Subset
  <2> QED
      BY <2>4, FS_CardinalityType, FS_EmptySet
<1>9. failures = Count <=> landed = {}
    BY <1>2, <1>7, AllFailed
<1>10. \A j \in 1..n : vectors[j] \in AllVectors
  <2>1. \A j \in 1..n : vectors[j] \in {NoVector, ZeroVector, Vector(next, j)}
      BY <1>1, <1>2 DEF LandInv
  <2>2. \A j \in 1..n : Vector(next, j) \in AllVectors
      BY <1>3, <1>4 DEF Vector, AllVectors
  <2> QED
      BY <2>1, <2>2 DEF AllVectors
<1>11. CASE landed = {}
  <2>1. emb' = emb /\ stats' = [stats EXCEPT !.failed = @ + 1]
      BY <1>4, <1>9, <1>11 DEF FinishRepo
  <2>2. \A j \in 1..n : emb'[next][j] = vectors[j]
      BY <1>6, <1>7, <1>11, <2>1
  <2>3. have = {}
      BY <1>7, <1>11, <2>2
  <2>4. emb' = [emb EXCEPT ![next] = emb'[next]]
      BY <1>3, <1>5, <2>1
  <2>5. stats' = [embedded |-> stats.embedded + 0, failed |-> stats.failed + 1]
      BY <1>5, <2>1
  <2>6. emb'[next] \in Seq(AllVectors) /\ DOMAIN emb'[next] = 1..n
      BY <1>3, <1>5, <2>1
  <2> HIDE DEF have
  <2>7. Cardinality(have) = 0
      BY <1>8, <2>3
  <2>8. Cardinality(have) \in Nat
        /\ stats' = [embedded |-> stats.embedded + Cardinality(have),
                     failed |-> stats.failed + IF have = {} THEN 1 ELSE 0]
      BY <2>3, <2>5, <2>7
  <2> QED
      BY <1>2, <1>3, <2>2, <2>4, <2>6, <2>8 DEF have
<1>12. CASE landed # {}
  <2>1. /\ emb' = [emb EXCEPT ![next] = new]
        /\ stats' = [stats EXCEPT !.embedded = @ + Cardinality(landed)]
    <3>1. failures # Len(Slices(next))
        BY <1>4, <1>9, <1>12
    <3> QED
        BY <1>3, <1>5, <3>1 DEF FinishRepo
  <2>2. DOMAIN new = 1..n /\ \A j \in 1..n : new[j] = vectors[j]
      BY <1>5, <1>6, <1>7
  <2>3. new = [j \in 1..n |-> new[j]]
      BY <1>5
  <2> HIDE DEF new
  <2>4. new \in [1..n -> AllVectors]
      BY <1>10, <2>2, <2>3
  <2>5. new \in Seq(AllVectors)
      BY <1>4, <2>4, FunctionSeq
  <2>6. emb'[next] = new
      BY <1>3, <1>5, <2>1
  <2>7. have = landed
      BY <1>7, <2>2, <2>6
  <2> HIDE DEF have, landed
  <2>8. stats' = [embedded |-> stats.embedded + Cardinality(landed), failed |-> stats.failed + 0]
      BY <1>5, <1>8, <2>1
  <2>9. Cardinality(have) \in Nat
        /\ stats' = [embedded |-> stats.embedded + Cardinality(have),
                     failed |-> stats.failed + IF have = {} THEN 1 ELSE 0]
      BY <1>8, <1>12, <2>7, <2>8
  <2>10. \A j \in 1..n : emb'[next][j] = vectors[j]
      BY <2>2, <2>6
  <2>11. emb'[next] \in Seq(AllVectors) /\ DOMAIN emb'[next] = 1..n
      BY <2>2, <2>5, <2>6
  <2>12. emb' = [emb EXCEPT ![next] = emb'[next]]
      BY <2>1, <2>6
  <2> QED
      BY <1>2, <1>3, <2>9, <2>10, <2>11, <2>12 DEF have
<1> QED
    BY <1>11, <1>12

\* A repository is finished.
LEMMA FinishKeeps ==
    ASSUME EmbedInv, FinishRepo
    PROVE  EmbedInv'
<1> DEFINE new == emb'[next]
           got == {j \in 1..Sizes[next] : emb'[next][j] # NoVector}
<1>1. TypeInv /\ Fresh
    BY DEF EmbedInv
<1>2. /\ next \in 1..Len(Sizes) /\ next' = next + 1
      /\ emb' = [emb EXCEPT ![next] = emb'[next]]
      /\ new \in Seq(AllVectors) /\ DOMAIN new = 1..Sizes[next]
      /\ Cardinality(got) \in Nat
      /\ stats' = [embedded |-> stats.embedded + Cardinality(got),
                   failed |-> stats.failed + IF got = {} THEN 1 ELSE 0]
    BY Applied
<1>3. AllLanded /\ pc' = "start" /\ failures' = 0 /\ UNCHANGED <<queue, task, arrived>>
    BY DEF FinishRepo
<1>4. AllLanded'
    BY <1>3 DEF AllLanded, Busy
<1> HIDE DEF new, got
<1>5. /\ DOMAIN emb = 1..Len(Sizes) /\ DOMAIN emb' = 1..Len(Sizes)
      /\ emb' = [emb EXCEPT ![next] = new] /\ next \in 1..Len(Sizes)
    BY <1>1, <1>2 DEF TypeInv, new
<1>6. emb'[next] = new /\ \A r \in 1..Len(Sizes) : r # next => emb'[r] = emb[r]
    BY <1>5
<1>7. /\ emb' \in [1..Len(Sizes) -> Seq(AllVectors)]
      /\ \A r \in 1..Len(Sizes) : DOMAIN emb'[r] = 1..Sizes[r]
    BY <1>1, <1>2, <1>5, <1>6 DEF TypeInv
<1>8. stats' \in [embedded : Nat, failed : Nat]
    BY <1>1, <1>2 DEF TypeInv
<1>9. /\ next' \in 1..(Len(Sizes) + 1)
      /\ \A r \in next'..Len(Sizes) : r \in next..Len(Sizes) /\ r # next /\ r \in 1..Len(Sizes)
    BY <1>2, EmbedAssumption
<1>10. TypeInv'
    BY <1>1, <1>3, <1>4, <1>7, <1>8, <1>9 DEF TypeInv
<1>11. Fresh'
    BY <1>1, <1>6, <1>9 DEF Fresh
<1> QED
    BY <1>3, <1>4, <1>10, <1>11, IdleNext DEF EmbedInv

\* The invariant holds in every state.
LEMMA NextKeeps == EmbedInv /\ [Next]_vars => EmbedInv'
<1> SUFFICES ASSUME EmbedInv, [Next]_vars PROVE EmbedInv'
    OBVIOUS
<1>1. CASE SkipEmptyRepo
    BY <1>1, SkipKeeps
<1>2. CASE StartRepo
    BY <1>2, StartKeeps
<1>3. CASE \E w \in Threads : TakeSlice(w)
    BY <1>3, TakeKeeps
<1>4. CASE \E w \in Threads : CallSucceeds(w)
    BY <1>4, CallSucceedsKeeps
<1>5. CASE \E w \in Threads : CallTooLarge(w)
    BY <1>5, CallTooLargeKeeps
<1>6. CASE \E w \in Threads : CallRaises(w)
    BY <1>6, CallRaisesKeeps
<1>7. CASE \E f \in arrived : Land(f[1], f[2])
    BY <1>7, LandKeeps
<1>8. CASE FinishRepo
    BY <1>8, FinishKeeps
<1>9. CASE UNCHANGED vars
  <2>1. TypeInv' /\ Fresh'
      BY <1>9 DEF vars, EmbedInv, TypeInv, Fresh, AllLanded, Busy
  <2>2. \A s : Waits(s)' <=> Waits(s)
      BY <1>9 DEF vars, Waits, InQueue, AtWork, HasArrived, Busy
  <2>3. LandInv'
      BY <1>9, <2>2, LandQuiet DEF vars, EmbedInv
  <2>4. SliceInv'
      BY <1>9, <2>2, SameSlices DEF vars, EmbedInv, SliceInv, Busy
  <2>5. Once'
      BY <1>9 DEF vars, EmbedInv, Once, Busy, InQueue, AtWork, HasArrived
  <2> QED
      BY <2>1, <2>3, <2>4, <2>5 DEF EmbedInv
<1> QED
    BY <1>1, <1>2, <1>3, <1>4, <1>5, <1>6, <1>7, <1>8, <1>9 DEF Next

\* So the invariant holds in every state.
LEMMA Inductive == Spec => []EmbedInv
BY InitHolds, NextKeeps, PTL DEF Spec

-----------------------------------------------------------------------------
(***************************************************************************)
(* The theorems.                                                            *)
(***************************************************************************)
\* Types, and no thread is left with an empty range: the batches to call the
\* provider with are ranges of the slice (_embed_workspace, embed_batch).
LEMMA TypeImplied == EmbedInv => TypeOK
<1> SUFFICES ASSUME EmbedInv PROVE TypeOK
    OBVIOUS
<1>1. TypeInv /\ SliceInv
    BY DEF EmbedInv
<1>2. \A k \in DOMAIN queue : Size(queue[k]) \in 1..SliceSize
  <2>1. ASSUME NEW k \in DOMAIN queue PROVE Size(queue[k]) \in 1..SliceSize
    <3> DEFINE s == queue[k]
    <3>1. k \in 1..Len(queue)
        BY <1>1 DEF TypeInv
    <3>2. Waits(s)
        BY <3>1 DEF Waits, InQueue
    <3>3. next \in 1..Len(Sizes) /\ Sizes[next] > 0 /\ IsSlice(s)
        BY <1>1, <3>2, AtWorkOnly DEF SliceInv
    <3> HIDE DEF s
    <3>4. Within(s, Sizes[next], SliceSize)
        BY <3>3, SlicesApart
    <3> QED
        BY <3>4 DEF Within, s
  <2> QED
      BY <2>1
<1>3. ASSUME NEW w \in Threads, Busy(w)
      PROVE  /\ task[w].todo # << >>
             /\ \A rg \in RangesOf(task[w].todo) :
                   task[w].slice[1] <= rg[1] /\ rg[1] <= rg[2] /\ rg[2] <= task[w].slice[2]
  <2> DEFINE t == task[w]
  <2>1. TaskOK(t, next) /\ t.slice \in Ranges
      BY <1>3, BusyTask
  <2> HIDE DEF t
  <2>2. /\ Chained(t.todo) /\ t.todo # << >> /\ Len(t.out) \in Nat
        /\ Texts(RangesOf(t.todo)) = (t.slice[1] + Len(t.out))..t.slice[2]
        /\ t.slice[1] \in Int /\ t.slice[2] \in Int
      BY <2>1 DEF TaskOK, VectorsOf, Ranges
  <2>3. \A j : j \in Texts(RangesOf(t.todo))
                 <=> j \in Int /\ \E k \in 1..Len(t.todo) : t.todo[k][1] <= j /\ j <= t.todo[k][2]
      BY <2>2, TextsAre
  <2>4. DOMAIN t.todo = 1..Len(t.todo)
        /\ \A k \in 1..Len(t.todo) : t.todo[k] \in Ranges /\ t.todo[k][1] <= t.todo[k][2]
      BY <2>2 DEF Chained
  <2>5. \A k \in 1..Len(t.todo) : t.todo[k][1] \in Int /\ t.todo[k][2] \in Int
      BY <2>4 DEF Ranges
  <2>6. \A k \in 1..Len(t.todo) : t.todo[k][1] \in Texts(RangesOf(t.todo))
                                  /\ t.todo[k][2] \in Texts(RangesOf(t.todo))
      BY <2>3, <2>4, <2>5
  <2>7. \A k \in 1..Len(t.todo) : t.slice[1] <= t.todo[k][1] /\ t.todo[k][2] <= t.slice[2]
      BY <2>2, <2>5, <2>6
  <2>8. \A rg \in RangesOf(t.todo) :
           t.slice[1] <= rg[1] /\ rg[1] <= rg[2] /\ rg[2] <= t.slice[2]
      BY <2>4, <2>7 DEF RangesOf
  <2> QED
      BY <2>2, <2>8 DEF t
<1> QED
    BY <1>1, <1>2, <1>3 DEF TypeOK, TypeInv

\* Every variable has its type, in every state, for every number and size of
\* repositories, slices, batches and workers (_embed_workspace, embed_batch).
THEOREM TypeCorrect == Spec => []TypeOK
BY Inductive, TypeImplied, PTL

\* A thread at work has its slice in order.
LEMMA OrderImplied == EmbedInv => SliceInOrder
<1> SUFFICES ASSUME EmbedInv, NEW w \in Threads, Busy(w)
             PROVE  LET t == task[w]
                        done == Len(t.out)
                    IN  /\ \A i \in 1..done : t.out[i] \in {ZeroVector, Vector(next, t.slice[1] + i - 1)}
                        /\ Texts(RangesOf(t.todo)) = (t.slice[1] + done)..t.slice[2]
                        /\ \A k \in 1..(Len(t.todo) - 1) : t.todo[k][2] + 1 = t.todo[k + 1][1]
    BY DEF SliceInOrder
<1>1. TaskOK(task[w], next)
    BY BusyTask
<1> QED
    BY <1>1 DEF TaskOK, VectorsOf, Chained

\* However slices are taken, refused, halved and completed, a thread's vectors
\* followed by its ranges are its slice, in order: a result of the right length
\* is a result for the right texts (embed_batch, _embed_batch_with_halving).
THEOREM InOrder == Spec => []SliceInOrder
BY Inductive, OrderImplied, PTL

\* The promise counts as this module does.
LEMMA SameCount == \A S : Promise!Cardinality(S) = Cardinality(S)
BY DEF Promise!Cardinality, Cardinality

\* What the promise says of a repository that the pool finished.
LEMMA FinishPromised == EmbedInv /\ FinishRepo => Promise!EmbedRepo
<1> SUFFICES ASSUME EmbedInv, FinishRepo PROVE Promise!EmbedRepo
    OBVIOUS
<1> DEFINE new == emb'[next]
           n == Sizes[next]
           have == {j \in 1..Sizes[next] : emb'[next][j] # NoVector}
<1>1. /\ next \in 1..Len(Sizes) /\ n > 0 /\ next' = next + 1
      /\ emb' = [emb EXCEPT ![next] = emb'[next]]
      /\ DOMAIN new = 1..n /\ \A j \in 1..n : new[j] = vectors[j]
      /\ stats' = [embedded |-> stats.embedded + Cardinality(have),
                   failed |-> stats.failed + IF have = {} THEN 1 ELSE 0]
    BY Applied
<1>2. next <= Len(Sizes) /\ n \in Nat
    BY <1>1, EmbedAssumption
<1>3. /\ \A j \in 1..n : vectors[j] \in {NoVector, ZeroVector, Vector(next, j)}
      /\ \A s : IsSlice(s) => Blank(s) \/ Full(s)
    BY DEF EmbedInv, LandInv, FinishRepo, IsSlice
<1> HIDE DEF new, n, have
<1>4. \A j \in 1..n : new[j] \in {NoVector, ZeroVector, <<next, j>>}
    BY <1>1, <1>3 DEF Vector
<1>5. ASSUME NEW i \in 1..n, NEW j \in 1..n, Promise!SameSlice(i, j), new[i] = NoVector
      PROVE  new[j] = NoVector
  <2>1. (i - 1) \div SliceSize = (j - 1) \div SliceSize
      BY <1>5 DEF Promise!SameSlice
  <2>2. PICK s : IsSlice(s) /\ i \in s[1]..s[2] /\ j \in s[1]..s[2]
      BY <1>1, <2>1, SlicesCover DEF n
  <2>3. vectors[i] = NoVector
      BY <1>1, <1>5
  <2>4. Blank(s)
      BY <1>3, <2>2, <2>3 DEF Full
  <2> QED
      BY <1>1, <2>2, <2>4 DEF Blank
<1>6. Promise!Outcome(new)
    BY <1>1, <1>4, <1>5 DEF Promise!Outcome, Promise!Vector, n
<1>7. stats' = [embedded |-> stats.embedded + Cardinality(have),
                failed |-> stats.failed + IF Sizes[next] > 0 /\ have = {} THEN 1 ELSE 0]
    BY <1>1 DEF n
<1>8. Promise!Outcome(emb'[next])
    BY <1>6 DEF new
<1>9. LET h == {j \in 1..Sizes[next] : emb'[next][j] # NoVector}
      IN  stats' = [embedded |-> stats.embedded + Cardinality(h),
                    failed |-> stats.failed + IF Sizes[next] > 0 /\ h = {} THEN 1 ELSE 0]
    BY <1>7 DEF have
<1> QED
    BY <1>1, <1>2, <1>8, <1>9, SameCount, Zenon DEF Promise!EmbedRepo

\* A repository without chunks is done at once.
LEMMA SkipPromised == EmbedInv /\ SkipEmptyRepo => Promise!EmbedRepo
<1> SUFFICES ASSUME EmbedInv, SkipEmptyRepo PROVE Promise!EmbedRepo
    OBVIOUS
<1> DEFINE have == {j \in 1..Sizes[next] : emb'[next][j] # NoVector}
<1>1. /\ next <= Len(Sizes) /\ Sizes[next] = 0 /\ next' = next + 1
      /\ emb' = emb /\ stats' = stats
    BY DEF SkipEmptyRepo
<1>2. /\ next \in 1..Len(Sizes) /\ emb \in [1..Len(Sizes) -> Seq(AllVectors)]
      /\ DOMAIN emb[next] = 1..Sizes[next] /\ stats \in [embedded : Nat, failed : Nat]
    BY <1>1, EmbedAssumption DEF EmbedInv, TypeInv
<1>3. DOMAIN emb'[next] = {} /\ 1..Sizes[next] = {}
    BY <1>1, <1>2
<1>4. have = {}
    BY <1>3
<1> HIDE DEF have
<1>5. Cardinality(have) = 0
    BY <1>4, FS_EmptySet
<1>6. stats' = [embedded |-> stats.embedded + 0, failed |-> stats.failed + 0]
    BY <1>1, <1>2
<1>7. stats' = [embedded |-> stats.embedded + Cardinality(have),
                failed |-> stats.failed + IF Sizes[next] > 0 /\ have = {} THEN 1 ELSE 0]
    BY <1>1, <1>5, <1>6
<1>8. emb' = [emb EXCEPT ![next] = emb'[next]]
    BY <1>1, <1>2
<1>9. Promise!Outcome(emb'[next])
    BY <1>3 DEF Promise!Outcome
<1>10. LET h == {j \in 1..Sizes[next] : emb'[next][j] # NoVector}
      IN  stats' = [embedded |-> stats.embedded + Cardinality(h),
                    failed |-> stats.failed + IF Sizes[next] > 0 /\ h = {} THEN 1 ELSE 0]
    BY <1>7 DEF have
<1> QED
    BY <1>1, <1>8, <1>9, <1>10, SameCount, Zenon DEF Promise!EmbedRepo

\* The pool of threads implements the promise, step by step: a repository is
\* finished in one step of the promise, everything else is invisible
\* (_embed_workspace).  That every repository is finished in the end is
\* liveness and not part of it.
THEOREM Implements == Spec => Promise!Init /\ [][Promise!EmbedRepo]_(Promise!pvars)
<1>1. Init => Promise!Init
    BY DEF Init, Promise!Init
<1>2. EmbedInv /\ [Next]_vars => [Promise!EmbedRepo]_(Promise!pvars)
  <2> SUFFICES ASSUME EmbedInv, [Next]_vars PROVE [Promise!EmbedRepo]_(Promise!pvars)
      OBVIOUS
  <2>1. CASE SkipEmptyRepo
      BY <2>1, SkipPromised
  <2>2. CASE FinishRepo
      BY <2>2, FinishPromised
  <2>3. CASE UNCHANGED <<emb, next, stats>>
      BY <2>3 DEF Promise!pvars
  <2>4. CASE StartRepo \/ \E w \in Threads : TakeSlice(w) \/ CallSucceeds(w) \/ CallTooLarge(w) \/ CallRaises(w)
    <3>1. UNCHANGED <<emb, next, stats>>
        BY <2>4 DEF StartRepo, TakeSlice, CallSucceeds, CallTooLarge, CallRaises
    <3> QED
        BY <2>3, <3>1
  <2>5. CASE \E f \in arrived : Land(f[1], f[2])
      BY <2>3, <2>5 DEF Land
  <2> QED
      BY <2>1, <2>2, <2>3, <2>4, <2>5 DEF Next, vars
<1> QED
    BY <1>1, <1>2, Inductive, PTL DEF Spec
=============================================================================
