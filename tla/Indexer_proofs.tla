---------------------------- MODULE Indexer_proofs ----------------------------
(***************************************************************************)
(* What any number of refreshes of a workspace keep, whatever the order in *)
(* which their statements, errors, retries and crashes fall: no edge is    *)
(* left dangling, a run stays within its scope, and clearing reaches every *)
(* File, Symbol and Chunk.                                                 *)
(*                                                                         *)
(* First come facts about sequences (the induction that FlattenSeq needs   *)
(* is made from the well-foundedness of <: were a claim false for some     *)
(* length, there would be a least one) and about the plan of a writing     *)
(* run: the order of its statements is what the safety of the write rests  *)
(* on, since each runs in a transaction of its own and any of them may be  *)
(* the last.                                                               *)
(*                                                                         *)
(* That clearing reaches every node is not inductive: between two          *)
(* statements a node may be out of clearing's reach because its commit or  *)
(* its file is still to come.  What is kept instead is that some run has   *)
(* it in hand: a run that will write the missing edges (Holder), or has    *)
(* (Settled).  Every step is one of five (Moves): a run reads, begins to   *)
(* write, writes, returns, or dies.                                        *)
(***************************************************************************)
EXTENDS Indexer, WorkspaceGraph_proofs, WellFoundedInduction, SequenceTheorems,
        FiniteSetTheorems, TLAPS

-----------------------------------------------------------------------------
(***************************************************************************)
(* Natural numbers and sequences.                                          *)
(***************************************************************************)
\* A set of natural numbers that is not empty has a least element.
LEMMA LeastNat == ASSUME NEW T \in SUBSET Nat, T # {} PROVE \E n \in T : \A m \in T : n <= m
<1> DEFINE R == OpToRel(<, Nat)
<1>1. IsWellFoundedOn(R, Nat)
    BY NatLessThanWellFounded
<1>2. \A x, y \in Nat : x < y => <<x, y>> \in R
    BY DEF OpToRel
<1> HIDE DEF R
<1>3. PICK x \in T : \A y \in T : ~ (<<y, x>> \in R)
    BY <1>1, WFMin
<1>4. ASSUME NEW m \in T PROVE x <= m
  <2>1. x \in Nat /\ m \in Nat /\ <<m, x>> \notin R
      BY <1>3
  <2>2. ~ (m < x)
      BY <1>2, <2>1
  <2> QED
      BY <2>1, <2>2
<1> QED
    BY <1>4

\* Where what a counter steps through goes wrong, it goes wrong a first time.
LEMMA FirstFailure ==
    ASSUME NEW n \in Nat, NEW Bad \in SUBSET (1..n), Bad # {}
    PROVE  \E m \in Bad : m = 1 \/ (m - 1 \in 1..n /\ m - 1 \notin Bad)
<1>1. PICK m \in Bad : \A k \in Bad : m <= k
    BY LeastNat
<1>2. m # 1 => m - 1 \in 1..n /\ m - 1 \notin Bad
    BY <1>1
<1> QED
    BY <1>2

\* f gives the flattening of every prefix of seqs.
Flattens(f, seqs, n) ==
    f = [i \in 1..n |-> IF i = 1 THEN seqs[i] ELSE f[i - 1] \o seqs[i]]

\* The recursion of FlattenSeq defines a function.
LEMMA FlattenDefined ==
    ASSUME NEW seqs, NEW n \in Nat
    PROVE  \A m \in 1..n : \E f : Flattens(f, seqs, m)
<1> DEFINE Bad == {m \in 1..n : ~ \E f : Flattens(f, seqs, m)}
<1>1. SUFFICES ASSUME Bad # {} PROVE FALSE
    OBVIOUS
<1>2. PICK m \in Bad : m = 1 \/ (m - 1 \in 1..n /\ m - 1 \notin Bad)
  <2> HIDE DEF Bad
  <2>1. Bad \in SUBSET (1..n)
      BY DEF Bad
  <2> QED
      BY <1>1, <2>1, FirstFailure
<1>3. m # 1
  <2>1. Flattens([i \in 1..1 |-> seqs[i]], seqs, 1)
      BY DEF Flattens
  <2> QED
      BY <2>1
<1>4. PICK f : Flattens(f, seqs, m - 1)
    BY <1>2, <1>3
<1> DEFINE g == [i \in 1..m |-> IF i < m THEN f[i] ELSE f[m - 1] \o seqs[m]]
<1>5. Flattens(g, seqs, m)
  <2>1. ASSUME NEW i \in 1..m PROVE g[i] = IF i = 1 THEN seqs[i] ELSE g[i - 1] \o seqs[i]
    <3>1. CASE i < m
      <4>1. i \in 1..(m - 1) /\ (i # 1 => i - 1 \in 1..(m - 1) /\ i - 1 < m /\ i - 1 \in 1..m)
          BY <3>1
      <4>2. f[i] = IF i = 1 THEN seqs[i] ELSE f[i - 1] \o seqs[i]
          BY <1>4, <4>1 DEF Flattens
      <4> QED
          BY <3>1, <4>1, <4>2
    <3>2. CASE i = m
      <4>1. m - 1 \in 1..m /\ m - 1 < m /\ i # 1 /\ ~ (i < m)
          BY <1>2, <1>3, <3>2
      <4>2. g[i] = f[m - 1] \o seqs[m] /\ g[i - 1] = f[m - 1]
          BY <3>2, <4>1
      <4> QED
          BY <3>2, <4>1, <4>2
    <3> QED
        BY <3>1, <3>2
  <2> HIDE DEF g
  <2>2. g = [i \in 1..m |-> g[i]]
      BY DEF g
  <2> QED
      BY <2>1, <2>2 DEF Flattens
<1> QED
    BY <1>5

\* flat is made of the first n of seqs one after another: at[l] is where the
\* l-th begins, and there is nothing else.
Blocks(flat, seqs, n, at) ==
    /\ at \in [1..n -> Nat]
    /\ \A l \in 1..n : \A j \in 1..Len(seqs[l]) :
          at[l] + j \in 1..Len(flat) /\ flat[at[l] + j] = seqs[l][j]
    /\ \A k \in 1..Len(flat) : \E l \in 1..n : \E j \in 1..Len(seqs[l]) : k = at[l] + j

\* One more block.
LEMMA AnotherBlock ==
    ASSUME NEW S, NEW seqs \in Seq(Seq(S)), NEW n \in Nat, n + 1 \in 1..Len(seqs),
           NEW flat \in Seq(S), NEW at, Blocks(flat, seqs, n, at)
    PROVE  \E new : Blocks(flat \o seqs[n + 1], seqs, n + 1, new)
<1> DEFINE new == [l \in 1..(n + 1) |-> IF l = n + 1 THEN Len(flat) ELSE at[l]]
           s == seqs[n + 1]
           out == flat \o s
<1>1. /\ s \in Seq(S) /\ Len(s) \in Nat /\ Len(flat) \in Nat /\ Len(out) = Len(flat) + Len(s)
      /\ \A k \in 1..Len(flat) : out[k] = flat[k]
      /\ \A k \in 1..Len(s) : out[Len(flat) + k] = s[k]
    BY ConcatProperties
<1>2. new \in [1..(n + 1) -> Nat]
    BY <1>1 DEF Blocks
<1> HIDE DEF out
<1>3. ASSUME NEW l \in 1..(n + 1), NEW j \in 1..Len(seqs[l])
      PROVE  new[l] + j \in 1..Len(out) /\ out[new[l] + j] = seqs[l][j]
  <2>1. CASE l = n + 1
      BY <1>1, <2>1
  <2>2. CASE l # n + 1
    <3>1. l \in 1..n /\ new[l] = at[l] /\ at[l] + j \in 1..Len(flat) /\ flat[at[l] + j] = seqs[l][j]
        BY <2>2 DEF Blocks
    <3> HIDE DEF new
    <3>2. new[l] + j \in 1..Len(flat) /\ out[new[l] + j] = flat[new[l] + j]
        BY <1>1, <3>1
    <3>3. new[l] + j \in 1..Len(out)
        BY <1>1, <3>2
    <3> QED
        BY <3>1, <3>2, <3>3
  <2> QED
      BY <2>1, <2>2
<1>4. ASSUME NEW k \in 1..Len(out) PROVE \E l \in 1..(n + 1) : \E j \in 1..Len(seqs[l]) : k = new[l] + j
  <2>1. CASE k <= Len(flat)
    <3>1. PICK l \in 1..n : \E j \in 1..Len(seqs[l]) : k = at[l] + j
        BY <1>1, <2>1 DEF Blocks
    <3>2. l \in 1..(n + 1) /\ new[l] = at[l]
        BY <3>1
    <3> QED
        BY <3>1, <3>2
  <2>2. CASE k > Len(flat)
    <3>1. k - Len(flat) \in 1..Len(s) /\ k = new[n + 1] + (k - Len(flat)) /\ n + 1 \in 1..(n + 1)
        BY <1>1, <2>2
    <3> QED
        BY <3>1
  <2> QED
      BY <1>1, <2>1, <2>2
<1> HIDE DEF new
<1>5. Blocks(out, seqs, n + 1, new)
    BY <1>2, <1>3, <1>4 DEF Blocks
<1> QED
    BY <1>5 DEF out

\* FlattenSeq puts the sequences of seqs one after another.
LEMMA FlattenIs ==
    ASSUME NEW S, NEW seqs \in Seq(Seq(S))
    PROVE  /\ FlattenSeq(seqs) \in Seq(S)
           /\ \E at : Blocks(FlattenSeq(seqs), seqs, Len(seqs), at)
<1> DEFINE L == Len(seqs)
<1>1. L \in Nat /\ DOMAIN seqs = 1..L /\ \A l \in 1..L : seqs[l] \in Seq(S)
    OBVIOUS
<1>2. CASE L = 0
  <2>1. FlattenSeq(seqs) = << >> /\ seqs = << >>
      BY <1>1, <1>2 DEF FlattenSeq
  <2>2. Blocks(<< >>, seqs, 0, << >>)
      BY DEF Blocks
  <2> QED
      BY <1>2, <2>1, <2>2
<1>3. CASE L # 0
  <2> DEFINE chosen == CHOOSE f : Flattens(f, seqs, L)
  <2>1. \E f : Flattens(f, seqs, L)
    <3> HIDE DEF L
    <3>1. L \in 1..L
        BY <1>1, <1>3
    <3> QED
        BY <1>1, <3>1, FlattenDefined
  <2>2. Flattens(chosen, seqs, L)
      BY <2>1
  <2>3. FlattenSeq(seqs) = chosen[L]
      BY <1>3 DEF FlattenSeq, Flattens
  <2> HIDE DEF chosen
  <2> DEFINE Good(m) == chosen[m] \in Seq(S) /\ \E at : Blocks(chosen[m], seqs, m, at)
             Bad == {m \in 1..L : ~ Good(m)}
  <2>4. Bad = {}
    <3>1. SUFFICES ASSUME Bad # {} PROVE FALSE
        OBVIOUS
    <3>2. Bad \in SUBSET (1..L)
        OBVIOUS
    <3>3. PICK m \in Bad : m = 1 \/ (m - 1 \in 1..L /\ m - 1 \notin Bad)
      <4> HIDE DEF Bad
      <4> QED
          BY <1>1, <3>1, <3>2, FirstFailure
    <3>4. m \in 1..L
        OBVIOUS
    <3>5. CASE m = 1
      <4>1. chosen[1] = seqs[1]
          BY <2>2, <3>4, <3>5 DEF Flattens
      <4>2. Blocks(<< >>, seqs, 0, << >>)
          BY DEF Blocks
      <4>3. \E at : Blocks(<< >> \o seqs[0 + 1], seqs, 0 + 1, at)
        <5> HIDE DEF Bad
        <5>1. 0 \in Nat /\ 0 + 1 \in 1..Len(seqs) /\ << >> \in Seq(S)
            BY <1>1, <3>4, <3>5
        <5> QED
            BY <4>2, <5>1, AnotherBlock
      <4>4. << >> \o seqs[1] = seqs[1] /\ 0 + 1 = 1
          BY <1>1, <3>4, <3>5
      <4> QED
          BY <1>1, <3>4, <3>5, <4>1, <4>3, <4>4
    <3>6. CASE m # 1
      <4>1. m - 1 \in 1..L /\ Good(m - 1)
          BY <3>3, <3>6
      <4>2. chosen[m] = chosen[m - 1] \o seqs[m]
          BY <2>2, <3>4, <3>6 DEF Flattens
      <4>3. PICK at : Blocks(chosen[m - 1], seqs, m - 1, at)
          BY <4>1
      <4>4. (m - 1) + 1 = m /\ m - 1 \in Nat
          BY <3>4, <4>1
      <4>5. \E new : Blocks(chosen[m - 1] \o seqs[(m - 1) + 1], seqs, (m - 1) + 1, new)
        <5> HIDE DEF Bad
        <5> QED
          BY <3>4, <4>1, <4>3, <4>4, AnotherBlock
      <4>6. chosen[m] \in Seq(S)
          BY <1>1, <3>4, <4>1, <4>2
      <4> QED
          BY <4>2, <4>4, <4>5, <4>6
    <3> QED
        BY <3>5, <3>6
  <2>5. Good(L)
      BY <1>1, <1>3, <2>4
  <2> QED
      BY <2>3, <2>5
<1> QED
    BY <1>2, <1>3

-----------------------------------------------------------------------------
(***************************************************************************)
(* The plan of a run.                                                      *)
(***************************************************************************)
\* The statements that clear or delete, those that write what a repository
\* owns, and those that link what is written.
ClearOps == {"ClearRepo", "ClearModules", "ClearFeatures"}
Destructive == ClearOps \cup DeleteOps
ContentOps == {"Repo", "Commit", "Files", "Modules", "Symbols", "Chunks"} \cup FeatureLabels
OwnOps == Destructive \cup ContentOps
LinkOps == {"Calls", "Imports"}
FlowOps == {"ClearHttpFlows", "ClearKafkaFlows", "HttpFlows", "KafkaFlows"}

\* The place of a statement among those of its repository.
Rank(op) ==
    CASE op \in {"ClearRepo", "DeleteFeatures"} -> 1
      [] op \in {"ClearModules", "DeleteModules"} -> 2
      [] op \in {"ClearFeatures", "DeleteFiles"} -> 3
      [] op = "Repo" -> 4
      [] op = "Commit" -> 5
      [] op = "Files" -> 6
      [] op = "Modules" -> 7
      [] op = "Symbols" -> 8
      [] op = "Route" -> 9
      [] op = "HttpClientCall" -> 10
      [] op = "KafkaProducer" -> 11
      [] op = "KafkaConsumer" -> 12
      [] op = "Chunks" -> 13

\* The statements of repository r, and all that a run on R may plan.
OwnStmts(r) == [op : OwnOps, repo : {r}]
Statements(R) == [op : OwnOps \cup LinkOps, repo : R] \cup [op : FlowOps, repo : {""}]

\* Statement x is one of the plan s.
Holds(s, x) == \E k \in 1..Len(s) : s[k] = x

\* A sequence of statements of repository r, in rank order, with ranks from a to b.
Rising(s, r, a, b) ==
    /\ s \in Seq(OwnStmts(r))
    /\ \A j \in 1..Len(s) : a <= Rank(s[j].op) /\ Rank(s[j].op) <= b
    /\ \A j, k \in 1..Len(s) : j < k => Rank(s[j].op) < Rank(s[k].op)

\* The plan of run p for repository r has this statement.
PlannedOp(p, r, op) ==
    \/ op \in ClearOps /\ p.mode = "full"
    \/ op \in DeleteOps /\ p.mode # "full" /\ DeletedIn(p, r) # {}
    \/ op \in {"Repo", "Commit"}
    \/ op \in {"Files", "Modules"} /\ InRepo(p.files, r) # {}
    \/ op = "Symbols" /\ SymbolsOf(p.files, r) # {}
    \/ op \in FeatureLabels /\ {x \in FeaturesOf(p.files, {op}) : RepoOf[x[1]] = r} # {}
    \/ op = "Chunks" /\ ChunksOf(p.files, r) # {}

\* What every plan satisfies.
Planned(plan, p) ==
    /\ plan \in Seq(Statements(Range(p.scope)))
    /\ \A j, k \in 1..Len(plan) :
          j < k /\ plan[k].op \in OwnOps /\ plan[j].repo = plan[k].repo
              => plan[j].op \in OwnOps /\ Rank(plan[j].op) < Rank(plan[k].op)
    /\ \A k \in 1..Len(plan) :
          plan[k].op \in OwnOps => Holds(RepoPlan(p, plan[k].repo), plan[k])
    /\ \A r \in Range(p.scope) : \A x : Holds(RepoPlan(p, r), x) => Holds(plan, x)

-----------------------------------------------------------------------------
\* Every statement of a repository has a place.
LEMMA RankType == \A op \in OwnOps : Rank(op) \in 1..13
BY DEF Rank, OwnOps, Destructive, ClearOps, DeleteOps, ContentOps, FeatureLabels, HttpLabels, KafkaLabels

\* Ranks from c to d come after those from a to b.
Above(a, b, c, d) == {a, b, c, d} \subseteq Nat /\ b < c /\ a <= c /\ b <= d

\* Two rising sequences, the second above the first, make one.
LEMMA RisingConcat ==
    ASSUME NEW r, NEW s, NEW t, NEW a, NEW b, NEW c, NEW d,
           Rising(s, r, a, b), Rising(t, r, c, d), Above(a, b, c, d)
    PROVE  Rising(s \o t, r, a, d)
<1> DEFINE u == s \o t
<1>0. a \in Nat /\ b \in Nat /\ c \in Nat /\ d \in Nat /\ b < c /\ a <= c /\ b <= d
    BY DEF Above
<1>1. /\ s \in Seq(OwnStmts(r)) /\ t \in Seq(OwnStmts(r)) /\ u \in Seq(OwnStmts(r))
      /\ Len(s) \in Nat /\ Len(t) \in Nat /\ Len(u) = Len(s) + Len(t)
      /\ \A k \in 1..Len(s) : u[k] = s[k]
      /\ \A k \in 1..Len(u) : k > Len(s) => u[k] = t[k - Len(s)]
    BY ConcatProperties DEF Rising
<1>3. \A k \in 1..Len(u) : u[k] \in OwnStmts(r) /\ Rank(u[k].op) \in 1..13
  <2>1. ASSUME NEW k \in 1..Len(u) PROVE u[k] \in OwnStmts(r)
      BY <1>1, <2>1, ElementOfSeq
  <2> QED
      BY <2>1, RankType DEF OwnStmts
<1> HIDE DEF u
<1>4. \A k \in 1..Len(u) :
        \/ k \in 1..Len(s) /\ u[k] = s[k]
        \/ k - Len(s) \in 1..Len(t) /\ k > Len(s) /\ u[k] = t[k - Len(s)]
    BY <1>1
<1>r. /\ \A k \in 1..Len(s) : a <= Rank(s[k].op) /\ Rank(s[k].op) <= b
      /\ \A k \in 1..Len(t) : c <= Rank(t[k].op) /\ Rank(t[k].op) <= d
    BY DEF Rising
<1>5. ASSUME NEW k \in 1..Len(u) PROVE a <= Rank(u[k].op) /\ Rank(u[k].op) <= d
  <2> DEFINE n == Rank(u[k].op)
  <2>1. n \in Nat
      BY <1>3
  <2>2. \/ a <= n /\ n <= b
        \/ c <= n /\ n <= d
      BY <1>4, <1>r
  <2> HIDE DEF n
  <2>3. a <= n /\ n <= d
      BY <1>0, <2>1, <2>2
  <2> QED
      BY <2>3 DEF n
<1>6. ASSUME NEW j \in 1..Len(u), NEW k \in 1..Len(u), j < k
      PROVE  Rank(u[j].op) < Rank(u[k].op)
  <2>1. CASE j \in 1..Len(s) /\ k \in 1..Len(s)
      BY <1>1, <1>6, <2>1 DEF Rising
  <2>2. CASE j \in 1..Len(s) /\ k > Len(s)
    <3>1. Rank(u[j].op) <= b
        BY <1>1, <2>2 DEF Rising
    <3>2. c <= Rank(u[k].op)
      <4>1. k - Len(s) \in 1..Len(t) /\ u[k] = t[k - Len(s)]
          BY <1>1, <1>4, <2>2
      <4> QED
          BY <1>r, <4>1
    <3> DEFINE x == Rank(u[j].op)
               y == Rank(u[k].op)
    <3>3. x \in 1..13 /\ y \in 1..13
        BY <1>3
    <3>4. x <= b /\ c <= y
        BY <3>1, <3>2
    <3> HIDE DEF x, y
    <3>5. x < y
        BY <1>0, <3>3, <3>4
    <3> QED
        BY <3>5 DEF x, y
  <2>3. CASE j > Len(s) /\ k > Len(s)
    <3>1. /\ j - Len(s) \in 1..Len(t) /\ k - Len(s) \in 1..Len(t) /\ j - Len(s) < k - Len(s)
          /\ u[j] = t[j - Len(s)] /\ u[k] = t[k - Len(s)]
        BY <1>1, <1>6, <2>3
    <3> QED
        BY <3>1 DEF Rising
  <2> QED
      BY <1>1, <1>6, <2>1, <2>2, <2>3
<1>7. Rising(u, r, a, d)
    BY <1>1, <1>5, <1>6 DEF Rising
<1> QED
    BY <1>7 DEF u

\* What one plan after another holds.
LEMMA HoldsConcat ==
    ASSUME NEW r, NEW s \in Seq(OwnStmts(r)), NEW t \in Seq(OwnStmts(r)), NEW x
    PROVE  Holds(s \o t, x) <=> Holds(s, x) \/ Holds(t, x)
<1> DEFINE u == s \o t
<1>1. /\ Len(s) \in Nat /\ Len(t) \in Nat /\ Len(u) = Len(s) + Len(t)
      /\ \A k \in 1..Len(s) : u[k] = s[k]
      /\ \A k \in 1..Len(t) : u[Len(s) + k] = t[k]
    BY ConcatProperties
<1> HIDE DEF u
<1>2. ASSUME NEW k \in 1..Len(s) PROVE k \in 1..Len(u) /\ u[k] = s[k]
    BY <1>1
<1>3. ASSUME NEW k \in 1..Len(t) PROVE Len(s) + k \in 1..Len(u) /\ u[Len(s) + k] = t[k]
    BY <1>1
<1>4. ASSUME NEW k \in 1..Len(u)
      PROVE  k \in 1..Len(s) \/ (k - Len(s) \in 1..Len(t) /\ k = Len(s) + (k - Len(s)))
    BY <1>1
<1>5. ASSUME Holds(u, x) PROVE Holds(s, x) \/ Holds(t, x)
  <2>1. PICK k \in 1..Len(u) : u[k] = x
      BY <1>5 DEF Holds
  <2>2. CASE k \in 1..Len(s)
      BY <1>2, <2>1, <2>2 DEF Holds
  <2>3. CASE k - Len(s) \in 1..Len(t) /\ k = Len(s) + (k - Len(s))
    <3>1. t[k - Len(s)] = x
        BY <1>3, <2>1, <2>3
    <3> QED
        BY <2>3, <3>1 DEF Holds
  <2> QED
      BY <1>4, <2>2, <2>3
<1>6. ASSUME Holds(s, x) PROVE Holds(u, x)
  <2>1. PICK k \in 1..Len(s) : s[k] = x
      BY <1>6 DEF Holds
  <2> QED
      BY <1>2, <2>1 DEF Holds
<1>7. ASSUME Holds(t, x) PROVE Holds(u, x)
  <2>1. PICK k \in 1..Len(t) : t[k] = x
      BY <1>7 DEF Holds
  <2> QED
      BY <1>3, <2>1 DEF Holds
<1> QED
    BY <1>5, <1>6, <1>7 DEF u

\* when(X # {}, op) of ContentPlan: a statement if it has a payload.
When(X, op, r) == IF X # {} THEN <<Stmt(op, r)>> ELSE << >>

\* A plan of one statement.
LEMMA RisingOne ==
    ASSUME NEW r, NEW op \in OwnOps
    PROVE  /\ Rising(<<Stmt(op, r)>>, r, Rank(op), Rank(op))
           /\ \A x : Holds(<<Stmt(op, r)>>, x) <=> x = Stmt(op, r)
<1>1. /\ Rank(op) \in 1..13 /\ Stmt(op, r) \in OwnStmts(r)
      /\ Stmt(op, r).op = op
    BY RankType DEF Stmt, OwnStmts
<1> QED
    BY <1>1 DEF Rising, Holds

\* A statement that is planned if it has a payload.
LEMMA RisingWhen ==
    ASSUME NEW r, NEW op \in OwnOps, NEW X
    PROVE  /\ Rising(When(X, op, r), r, Rank(op), Rank(op))
           /\ \A x : Holds(When(X, op, r), x) <=> X # {} /\ x = Stmt(op, r)
<1>1. Rising(<< >>, r, Rank(op), Rank(op)) /\ \A x : ~ Holds(<< >>, x)
    BY DEF Rising, Holds
<1>2. CASE X # {}
    BY <1>2, RisingOne DEF When
<1>3. CASE X = {}
    BY <1>1, <1>3 DEF When
<1> QED
    BY <1>2, <1>3

\* Two statements in rank order, as clearing and deleting plan them.
LEMMA RisingPair ==
    ASSUME NEW r, NEW a \in OwnOps, NEW b \in OwnOps, Rank(a) < Rank(b)
    PROVE  /\ Rising(<<Stmt(a, r), Stmt(b, r)>>, r, Rank(a), Rank(b))
           /\ \A x : Holds(<<Stmt(a, r), Stmt(b, r)>>, x) <=> x \in {Stmt(a, r), Stmt(b, r)}
<1> DEFINE s == <<Stmt(a, r)>>
           t == <<Stmt(b, r)>>
           na == Rank(a)
           nb == Rank(b)
<1>1. <<Stmt(a, r), Stmt(b, r)>> = s \o t
    OBVIOUS
<1>2. Above(na, na, nb, nb)
    BY RankType DEF Above
<1>3. Rising(s, r, na, na) /\ Rising(t, r, nb, nb)
    BY RisingOne
<1>4. \A x : (Holds(s, x) <=> x = Stmt(a, r)) /\ (Holds(t, x) <=> x = Stmt(b, r))
    BY RisingOne
<1> HIDE DEF s, t, na, nb
<1>5. Rising(s \o t, r, na, nb)
    BY <1>2, <1>3, RisingConcat
<1>6. s \in Seq(OwnStmts(r)) /\ t \in Seq(OwnStmts(r))
    BY <1>3 DEF Rising
<1>7. \A x : Holds(s \o t, x) <=> x \in {Stmt(a, r), Stmt(b, r)}
    BY <1>4, <1>6, HoldsConcat
<1> QED
    BY <1>1, <1>5, <1>7 DEF na, nb

\* Three statements in rank order.
LEMMA RisingTriple ==
    ASSUME NEW r, NEW a \in OwnOps, NEW b \in OwnOps, NEW c \in OwnOps,
           Rank(a) < Rank(b), Rank(b) < Rank(c)
    PROVE  /\ Rising(<<Stmt(a, r), Stmt(b, r), Stmt(c, r)>>, r, Rank(a), Rank(c))
           /\ \A x : Holds(<<Stmt(a, r), Stmt(b, r), Stmt(c, r)>>, x) <=> x \in {Stmt(a, r), Stmt(b, r), Stmt(c, r)}
<1> DEFINE s == <<Stmt(a, r), Stmt(b, r)>>
           t == <<Stmt(c, r)>>
           na == Rank(a)
           nb == Rank(b)
           nc == Rank(c)
<1>1. <<Stmt(a, r), Stmt(b, r), Stmt(c, r)>> = s \o t
    OBVIOUS
<1>2. Above(na, nb, nc, nc)
    BY RankType DEF Above
<1>3. Rising(s, r, na, nb) /\ Rising(t, r, nc, nc)
    BY RisingOne, RisingPair
<1>4. \A x : (Holds(s, x) <=> x \in {Stmt(a, r), Stmt(b, r)}) /\ (Holds(t, x) <=> x = Stmt(c, r))
    BY RisingOne, RisingPair
<1> HIDE DEF s, t, na, nb, nc
<1>5. Rising(s \o t, r, na, nc)
    BY <1>2, <1>3, RisingConcat
<1>6. s \in Seq(OwnStmts(r)) /\ t \in Seq(OwnStmts(r))
    BY <1>3 DEF Rising
<1>7. \A x : Holds(s \o t, x) <=> x \in {Stmt(a, r), Stmt(b, r), Stmt(c, r)}
    BY <1>4, <1>6, HoldsConcat
<1> QED
    BY <1>1, <1>5, <1>7 DEF na, nb, nc

\* The statements of one repository.
LEMMA RepoPlanIs ==
    ASSUME NEW p, NEW r
    PROVE  /\ Rising(RepoPlan(p, r), r, Rank("ClearRepo"), Rank("Chunks"))
           /\ \A op : Holds(RepoPlan(p, r), Stmt(op, r)) <=> PlannedOp(p, r, op)
<1> DEFINE feature(kind) == {x \in FeaturesOf(p.files, {kind}) : RepoOf[x[1]] = r}
           files == InRepo(p.files, r)
           symbols == SymbolsOf(p.files, r)
           chunks == ChunksOf(p.files, r)
           s0 == IF p.mode = "full"
                 THEN <<Stmt("ClearRepo", r), Stmt("ClearModules", r), Stmt("ClearFeatures", r)>>
                 ELSE IF DeletedIn(p, r) # {}
                 THEN <<Stmt("DeleteFeatures", r), Stmt("DeleteModules", r), Stmt("DeleteFiles", r)>>
                 ELSE << >>
           s1 == <<Stmt("Repo", r), Stmt("Commit", r)>>
           s2 == When(files, "Files", r)
           s3 == When(files, "Modules", r)
           s4 == When(symbols, "Symbols", r)
           s5 == When(feature("Route"), "Route", r)
           s6 == When(feature("HttpClientCall"), "HttpClientCall", r)
           s7 == When(feature("KafkaProducer"), "KafkaProducer", r)
           s8 == When(feature("KafkaConsumer"), "KafkaConsumer", r)
           s9 == When(chunks, "Chunks", r)
           all == {"Files", "Modules", "Symbols", "Chunks"} \cup FeatureLabels
<1>0. RepoPlan(p, r) = s0 \o (s1 \o s2 \o s3 \o s4 \o s5 \o s6 \o s7 \o s8 \o s9)
    BY DEF RepoPlan, ContentPlan, When
<1>s. \A a, b : Stmt(a, r) = Stmt(b, r) <=> a = b
    BY DEF Stmt
<1>1. Rising(s0, r, Rank("ClearRepo"), Rank("ClearFeatures")) /\ \A op : Holds(s0, Stmt(op, r)) <=>
            \/ op \in ClearOps /\ p.mode = "full"
            \/ op \in DeleteOps /\ p.mode # "full" /\ DeletedIn(p, r) # {}
  <2>1. /\ ClearOps \cup DeleteOps \subseteq OwnOps
        /\ Rank("ClearRepo") = 1 /\ Rank("ClearModules") = 2 /\ Rank("ClearFeatures") = 3
        /\ Rank("DeleteFeatures") = 1 /\ Rank("DeleteModules") = 2 /\ Rank("DeleteFiles") = 3
      BY DEF OwnOps, Destructive, ClearOps, DeleteOps, Rank
  <2>2. CASE p.mode = "full"
    <3>1. Rising(s0, r, Rank("ClearRepo"), Rank("ClearFeatures")) /\ \A x : Holds(s0, x) <=> x \in {Stmt("ClearRepo", r), Stmt("ClearModules", r), Stmt("ClearFeatures", r)}
        BY <2>1, <2>2, RisingTriple DEF ClearOps
    <3> QED
        BY <1>s, <2>2, <3>1 DEF ClearOps
  <2>3. CASE p.mode # "full" /\ DeletedIn(p, r) # {}
    <3>1. Rising(s0, r, Rank("ClearRepo"), Rank("ClearFeatures")) /\ \A x : Holds(s0, x) <=> x \in {Stmt("DeleteFeatures", r), Stmt("DeleteModules", r), Stmt("DeleteFiles", r)}
        BY <2>1, <2>3, RisingTriple DEF DeleteOps
    <3> QED
        BY <1>s, <2>3, <3>1 DEF DeleteOps
  <2>4. CASE p.mode # "full" /\ DeletedIn(p, r) = {}
      BY <2>4 DEF Rising, Holds
  <2> QED
      BY <2>2, <2>3, <2>4
<1>2. Rising(s1, r, Rank("Repo"), Rank("Commit")) /\ \A op : Holds(s1, Stmt(op, r)) <=> op \in {"Repo", "Commit"}
  <2>1. {"Repo", "Commit"} \subseteq OwnOps /\ Rank("Repo") = 4 /\ Rank("Commit") = 5
      BY DEF OwnOps, ContentOps, Rank
  <2>2. Rising(s1, r, Rank("Repo"), Rank("Commit")) /\ \A x : Holds(s1, x) <=> x \in {Stmt("Repo", r), Stmt("Commit", r)}
      BY <2>1, RisingPair
  <2> QED
      BY <1>s, <2>2
<1>3. /\ Rank("ClearRepo") = 1 /\ Rank("ClearFeatures") = 3 /\ Rank("Repo") = 4 /\ Rank("Commit") = 5
      /\ Rank("Files") = 6 /\ Rank("Modules") = 7 /\ Rank("Symbols") = 8
      /\ Rank("Route") = 9 /\ Rank("HttpClientCall") = 10
      /\ Rank("KafkaProducer") = 11 /\ Rank("KafkaConsumer") = 12 /\ Rank("Chunks") = 13
    BY DEF Rank
<1>4. all \subseteq OwnOps /\ FeatureLabels = {"Route", "HttpClientCall", "KafkaProducer", "KafkaConsumer"}
    BY DEF OwnOps, ContentOps, FeatureLabels, HttpLabels, KafkaLabels
<1> HIDE DEF s0, s1, files, feature, symbols, chunks
<1>r2. Rising(s2, r, Rank("Files"), Rank("Files"))
    BY <1>4, RisingWhen
<1>r3. Rising(s3, r, Rank("Modules"), Rank("Modules"))
    BY <1>4, RisingWhen
<1>r4. Rising(s4, r, Rank("Symbols"), Rank("Symbols"))
    BY <1>4, RisingWhen
<1>r5. Rising(s5, r, Rank("Route"), Rank("Route"))
    BY <1>4, RisingWhen
<1>r6. Rising(s6, r, Rank("HttpClientCall"), Rank("HttpClientCall"))
    BY <1>4, RisingWhen
<1>r7. Rising(s7, r, Rank("KafkaProducer"), Rank("KafkaProducer"))
    BY <1>4, RisingWhen
<1>r8. Rising(s8, r, Rank("KafkaConsumer"), Rank("KafkaConsumer"))
    BY <1>4, RisingWhen
<1>r9. Rising(s9, r, Rank("Chunks"), Rank("Chunks"))
    BY <1>4, RisingWhen
<1>h2. \A x : Holds(s2, x) <=> files # {} /\ x = Stmt("Files", r)
    BY <1>4, RisingWhen
<1>h3. \A x : Holds(s3, x) <=> files # {} /\ x = Stmt("Modules", r)
    BY <1>4, RisingWhen
<1>h4. \A x : Holds(s4, x) <=> symbols # {} /\ x = Stmt("Symbols", r)
    BY <1>4, RisingWhen
<1>h5. \A x : Holds(s5, x) <=> feature("Route") # {} /\ x = Stmt("Route", r)
    BY <1>4, RisingWhen
<1>h6. \A x : Holds(s6, x) <=> feature("HttpClientCall") # {} /\ x = Stmt("HttpClientCall", r)
    BY <1>4, RisingWhen
<1>h7. \A x : Holds(s7, x) <=> feature("KafkaProducer") # {} /\ x = Stmt("KafkaProducer", r)
    BY <1>4, RisingWhen
<1>h8. \A x : Holds(s8, x) <=> feature("KafkaConsumer") # {} /\ x = Stmt("KafkaConsumer", r)
    BY <1>4, RisingWhen
<1>h9. \A x : Holds(s9, x) <=> chunks # {} /\ x = Stmt("Chunks", r)
    BY <1>4, RisingWhen
<1> HIDE DEF s2, s3, s4, s5, s6, s7, s8, s9, all
<1>7. Rising(s0, r, Rank("ClearRepo"), Rank("ClearFeatures"))
    BY <1>1
<1>8. Rising(s1, r, Rank("Repo"), Rank("Commit"))
    BY <1>2
<1> DEFINE c2 == s1 \o s2
           c3 == c2 \o s3
           c4 == c3 \o s4
           c5 == c4 \o s5
           c6 == c5 \o s6
           c7 == c6 \o s7
           c8 == c7 \o s8
           c9 == c8 \o s9
<1>a2. Above(Rank("Repo"), Rank("Commit"), Rank("Files"), Rank("Files"))
    BY <1>3 DEF Above
<1>c2. Rising(c2, r, Rank("Repo"), Rank("Files"))
    BY <1>8, <1>r2, <1>a2, RisingConcat
<1> HIDE DEF c2
<1>a3. Above(Rank("Repo"), Rank("Files"), Rank("Modules"), Rank("Modules"))
    BY <1>3 DEF Above
<1>c3. Rising(c3, r, Rank("Repo"), Rank("Modules"))
    BY <1>c2, <1>r3, <1>a3, RisingConcat
<1> HIDE DEF c3
<1>a4. Above(Rank("Repo"), Rank("Modules"), Rank("Symbols"), Rank("Symbols"))
    BY <1>3 DEF Above
<1>c4. Rising(c4, r, Rank("Repo"), Rank("Symbols"))
    BY <1>c3, <1>r4, <1>a4, RisingConcat
<1> HIDE DEF c4
<1>a5. Above(Rank("Repo"), Rank("Symbols"), Rank("Route"), Rank("Route"))
    BY <1>3 DEF Above
<1>c5. Rising(c5, r, Rank("Repo"), Rank("Route"))
    BY <1>c4, <1>r5, <1>a5, RisingConcat
<1> HIDE DEF c5
<1>a6. Above(Rank("Repo"), Rank("Route"), Rank("HttpClientCall"), Rank("HttpClientCall"))
    BY <1>3 DEF Above
<1>c6. Rising(c6, r, Rank("Repo"), Rank("HttpClientCall"))
    BY <1>c5, <1>r6, <1>a6, RisingConcat
<1> HIDE DEF c6
<1>a7. Above(Rank("Repo"), Rank("HttpClientCall"), Rank("KafkaProducer"), Rank("KafkaProducer"))
    BY <1>3 DEF Above
<1>c7. Rising(c7, r, Rank("Repo"), Rank("KafkaProducer"))
    BY <1>c6, <1>r7, <1>a7, RisingConcat
<1> HIDE DEF c7
<1>a8. Above(Rank("Repo"), Rank("KafkaProducer"), Rank("KafkaConsumer"), Rank("KafkaConsumer"))
    BY <1>3 DEF Above
<1>c8. Rising(c8, r, Rank("Repo"), Rank("KafkaConsumer"))
    BY <1>c7, <1>r8, <1>a8, RisingConcat
<1> HIDE DEF c8
<1>a9. Above(Rank("Repo"), Rank("KafkaConsumer"), Rank("Chunks"), Rank("Chunks"))
    BY <1>3 DEF Above
<1>c9. Rising(c9, r, Rank("Repo"), Rank("Chunks"))
    BY <1>c8, <1>r9, <1>a9, RisingConcat
<1> HIDE DEF c9
<1>16. Above(Rank("ClearRepo"), Rank("ClearFeatures"), Rank("Repo"), Rank("Chunks"))
    BY <1>3 DEF Above
<1>17. Rising(s0 \o c9, r, Rank("ClearRepo"), Rank("Chunks"))
    BY <1>7, <1>c9, <1>16, RisingConcat
<1>18. RepoPlan(p, r) = s0 \o c9
    BY <1>0 DEF c9, c8, c7, c6, c5, c4, c3, c2
<1>t. /\ {s0, s1, s2, s3, s4, s5, s6, s7, s8, s9} \subseteq Seq(OwnStmts(r))
      /\ {c2, c3, c4, c5, c6, c7, c8, c9} \subseteq Seq(OwnStmts(r))
    BY <1>7, <1>8, <1>r2, <1>r3, <1>r4, <1>r5, <1>r6, <1>r7, <1>r8, <1>r9,
       <1>c2, <1>c3, <1>c4, <1>c5, <1>c6, <1>c7, <1>c8, <1>c9 DEF Rising
<1>19. ASSUME NEW x
       PROVE  Holds(c9, x) <=> \/ Holds(s1, x) \/ Holds(s2, x) \/ Holds(s3, x) \/ Holds(s4, x)
                               \/ Holds(s5, x) \/ Holds(s6, x) \/ Holds(s7, x) \/ Holds(s8, x)
                               \/ Holds(s9, x)
  <2>1. Holds(c2, x) <=> Holds(s1, x) \/ Holds(s2, x)
      BY <1>t, HoldsConcat DEF c2
  <2>2. Holds(c3, x) <=> Holds(c2, x) \/ Holds(s3, x)
      BY <1>t, HoldsConcat DEF c3
  <2>3. Holds(c4, x) <=> Holds(c3, x) \/ Holds(s4, x)
      BY <1>t, HoldsConcat DEF c4
  <2>4. Holds(c5, x) <=> Holds(c4, x) \/ Holds(s5, x)
      BY <1>t, HoldsConcat DEF c5
  <2>5. Holds(c6, x) <=> Holds(c5, x) \/ Holds(s6, x)
      BY <1>t, HoldsConcat DEF c6
  <2>6. Holds(c7, x) <=> Holds(c6, x) \/ Holds(s7, x)
      BY <1>t, HoldsConcat DEF c7
  <2>7. Holds(c8, x) <=> Holds(c7, x) \/ Holds(s8, x)
      BY <1>t, HoldsConcat DEF c8
  <2>8. Holds(c9, x) <=> Holds(c8, x) \/ Holds(s9, x)
      BY <1>t, HoldsConcat DEF c9
  <2> QED
      BY <2>1, <2>2, <2>3, <2>4, <2>5, <2>6, <2>7, <2>8
<1>20. ASSUME NEW op PROVE Holds(RepoPlan(p, r), Stmt(op, r)) <=> PlannedOp(p, r, op)
  <2>1. \A o : Stmt(op, r) = Stmt(o, r) <=> op = o
      BY DEF Stmt
  <2>2. Holds(RepoPlan(p, r), Stmt(op, r)) <=> Holds(s0, Stmt(op, r)) \/ Holds(c9, Stmt(op, r))
      BY <1>t, <1>18, HoldsConcat, SMTT(30)
  <2> HIDE DEF c9
  <2>3. Holds(c9, Stmt(op, r)) <=>
            \/ op \in {"Repo", "Commit"}
            \/ op = "Files" /\ files # {}
            \/ op = "Modules" /\ files # {}
            \/ op = "Symbols" /\ symbols # {}
            \/ op = "Route" /\ feature("Route") # {}
            \/ op = "HttpClientCall" /\ feature("HttpClientCall") # {}
            \/ op = "KafkaProducer" /\ feature("KafkaProducer") # {}
            \/ op = "KafkaConsumer" /\ feature("KafkaConsumer") # {}
            \/ op = "Chunks" /\ chunks # {}
      BY <1>2, <1>h2, <1>h3, <1>h4, <1>h5, <1>h6, <1>h7, <1>h8, <1>h9, <1>19, <2>1
  <2>4. op \in FeatureLabels /\ feature(op) # {} <=>
            \/ op = "Route" /\ feature("Route") # {}
            \/ op = "HttpClientCall" /\ feature("HttpClientCall") # {}
            \/ op = "KafkaProducer" /\ feature("KafkaProducer") # {}
            \/ op = "KafkaConsumer" /\ feature("KafkaConsumer") # {}
      BY <1>4
  <2> QED
      BY <1>1, <2>2, <2>3, <2>4 DEF PlannedOp, feature, files, symbols, chunks
<1>21. Rising(RepoPlan(p, r), r, Rank("ClearRepo"), Rank("Chunks"))
    BY <1>17, <1>18
<1> QED
    BY <1>20, <1>21

\* The statements that come after those of the repositories.
Later(R) == [op : LinkOps, repo : R] \cup [op : FlowOps, repo : {""}]

\* Links and flows are no statements of one repository.
LEMMA OpsDisjoint == \A op \in LinkOps \cup FlowOps : op \notin OwnOps
BY DEF LinkOps, FlowOps, OwnOps, Destructive, ClearOps, DeleteOps, ContentOps, FeatureLabels,
       HttpLabels, KafkaLabels

\* Where the statements of the repositories are.
LEMMA HeadIs ==
    ASSUME NEW p, NEW R, p.scope \in Seq(R), Range(p.scope) = R, IsInjective(p.scope)
    PROVE  Planned(FlattenSeq([j \in 1..Len(p.scope) |-> RepoPlan(p, p.scope[j])]), p)
<1> DEFINE L == Len(p.scope)
           seqs == [j \in 1..L |-> RepoPlan(p, p.scope[j])]
           S == [op : OwnOps, repo : R]
           head == FlattenSeq(seqs)
<1>1. L \in Nat /\ DOMAIN p.scope = 1..L /\ \A j \in 1..L : p.scope[j] \in R
    OBVIOUS
<1>2. \A r \in R : \E j \in 1..L : p.scope[j] = r
    BY <1>1 DEF Range
<1>3. \A i, j \in 1..L : p.scope[i] = p.scope[j] => i = j
    BY <1>1 DEF IsInjective
<1>4. \A j \in 1..L : /\ seqs[j] \in Seq(OwnStmts(p.scope[j])) /\ seqs[j] \in Seq(S)
                      /\ \A a, b \in 1..Len(seqs[j]) : a < b => Rank(seqs[j][a].op) < Rank(seqs[j][b].op)
  <2>1. ASSUME NEW j \in 1..L
        PROVE  /\ seqs[j] \in Seq(OwnStmts(p.scope[j])) /\ seqs[j] \in Seq(S)
               /\ \A a, b \in 1..Len(seqs[j]) : a < b => Rank(seqs[j][a].op) < Rank(seqs[j][b].op)
    <3>1. seqs[j] = RepoPlan(p, p.scope[j])
        OBVIOUS
    <3> HIDE DEF seqs
    <3>2. Rising(seqs[j], p.scope[j], Rank("ClearRepo"), Rank("Chunks"))
        BY <3>1, RepoPlanIs
    <3>3. OwnStmts(p.scope[j]) \subseteq S
        BY <1>1 DEF OwnStmts
    <3>4. seqs[j] \in Seq(OwnStmts(p.scope[j]))
        BY <3>2 DEF Rising
    <3> HIDE DEF S
    <3>5. seqs[j] \in Seq(S)
        BY <3>3, <3>4, SeqMonotonic
    <3> QED
        BY <3>2, <3>4, <3>5 DEF Rising
  <2> QED
      BY <2>1
<1> HIDE DEF S
<1>5. seqs \in Seq(Seq(S)) /\ Len(seqs) = L
  <2>1. seqs = [j \in 1..L |-> seqs[j]] /\ \A j \in 1..L : seqs[j] \in Seq(S)
      BY <1>4
  <2> HIDE DEF seqs
  <2> QED
      BY <1>1, <2>1
<1> HIDE DEF seqs
<1>6. head \in Seq(S)
    BY <1>5, FlattenIs
<1>7. PICK at : Blocks(head, seqs, L, at)
    BY <1>5, FlattenIs
<1> HIDE DEF head
<1>8. /\ at \in [1..L -> Nat]
      /\ \A l \in 1..L : \A j \in 1..Len(seqs[l]) :
            at[l] + j \in 1..Len(head) /\ head[at[l] + j] = seqs[l][j]
      /\ \A k \in 1..Len(head) : \E l \in 1..L : \E j \in 1..Len(seqs[l]) : k = at[l] + j
    BY <1>7 DEF Blocks
<1>9. ASSUME NEW l \in 1..L, NEW j \in 1..Len(seqs[l]) PROVE seqs[l][j].repo = p.scope[l]
  <2>1. seqs[l][j] \in OwnStmts(p.scope[l])
    <3>1. seqs[l] \in Seq(OwnStmts(p.scope[l]))
        BY <1>4
    <3> QED
        BY <3>1, ElementOfSeq
  <2> QED
      BY <2>1 DEF OwnStmts
<1>10. ASSUME NEW j \in 1..Len(head), NEW k \in 1..Len(head), j < k, head[j].repo = head[k].repo
       PROVE  head[j].op \in OwnOps /\ Rank(head[j].op) < Rank(head[k].op)
  <2>1. PICK l \in 1..L : \E b \in 1..Len(seqs[l]) : k = at[l] + b
      BY <1>8
  <2>b. PICK b \in 1..Len(seqs[l]) : k = at[l] + b
      BY <2>1
  <2>2. PICK m \in 1..L : \E a \in 1..Len(seqs[m]) : j = at[m] + a
      BY <1>8
  <2>a. PICK a \in 1..Len(seqs[m]) : j = at[m] + a
      BY <2>2
  <2>3. head[k] = seqs[l][b] /\ head[j] = seqs[m][a]
      BY <1>8, <2>a, <2>b
  <2>4. l = m
    <3>1. head[k].repo = p.scope[l] /\ head[j].repo = p.scope[m]
        BY <1>9, <2>3
    <3> QED
        BY <1>3, <1>10, <3>1
  <2>5. at[l] \in Nat /\ a \in Nat /\ b \in Nat
    <3>1. Len(seqs[l]) \in Nat /\ Len(seqs[m]) \in Nat
        BY <1>4, LenProperties
    <3>2. a \in Nat /\ b \in Nat
        BY <3>1
    <3>3. at[l] \in Nat
        BY <1>8
    <3> QED
        BY <3>2, <3>3
  <2>6. a < b
      BY <1>10, <2>a, <2>b, <2>4, <2>5
  <2>7. Rank(head[j].op) < Rank(head[k].op)
      BY <1>4, <2>3, <2>4, <2>6
  <2>8. head[j] \in S
      BY <1>6, ElementOfSeq
  <2> QED
      BY <2>7, <2>8 DEF S
<1>11. ASSUME NEW k \in 1..Len(head) PROVE Holds(RepoPlan(p, head[k].repo), head[k])
  <2>1. PICK l \in 1..L : \E b \in 1..Len(seqs[l]) : k = at[l] + b
      BY <1>8
  <2>b. PICK b \in 1..Len(seqs[l]) : k = at[l] + b
      BY <2>1
  <2>2. head[k] = seqs[l][b] /\ head[k].repo = p.scope[l] /\ seqs[l] = RepoPlan(p, p.scope[l])
    <3>1. head[k] = seqs[l][b]
        BY <1>8, <2>b
    <3>2. seqs[l][b].repo = p.scope[l]
        BY <1>9
    <3>3. seqs[l] = RepoPlan(p, p.scope[l])
        BY DEF seqs
    <3> QED
        BY <3>1, <3>2, <3>3
  <2> QED
      BY <2>2 DEF Holds
<1>12. ASSUME NEW r \in R, NEW x, Holds(RepoPlan(p, r), x) PROVE Holds(head, x)
  <2>1. PICK l \in 1..L : p.scope[l] = r
      BY <1>2
  <2>2. seqs[l] = RepoPlan(p, r)
      BY <2>1 DEF seqs
  <2>3. PICK b \in 1..Len(seqs[l]) : seqs[l][b] = x
      BY <1>12, <2>2 DEF Holds
  <2> QED
      BY <1>8, <2>3 DEF Holds
<1>13. head \in Seq(Statements(R))
  <2>1. S \subseteq Statements(R)
      BY DEF Statements, S
  <2> QED
      BY <1>6, <2>1, SeqMonotonic
<1>14. Planned(head, p)
    BY <1>10, <1>11, <1>12, <1>13 DEF Planned
<1> QED
    BY <1>14 DEF head, seqs

\* What comes later changes nothing for the statements of the repositories.
LEMMA PlanLater ==
    ASSUME NEW p, NEW plan, Planned(plan, p), NEW t \in Seq(Later(Range(p.scope)))
    PROVE  Planned(plan \o t, p)
<1> DEFINE R == Range(p.scope)
           u == plan \o t
<1>1. plan \in Seq(Statements(R)) /\ t \in Seq(Statements(R))
  <2>1. Later(R) \subseteq Statements(R)
      BY DEF Later, Statements
  <2>2. t \in Seq(Statements(R))
    <3> HIDE DEF R
    <3> QED
      BY <2>1, SeqMonotonic DEF R
  <2> QED
      BY <2>2 DEF Planned
<1>2. /\ u \in Seq(Statements(R))
      /\ Len(plan) \in Nat /\ Len(t) \in Nat /\ Len(u) = Len(plan) + Len(t)
      /\ \A k \in 1..Len(plan) : u[k] = plan[k]
      /\ \A k \in 1..Len(t) : u[Len(plan) + k] = t[k]
    BY <1>1, ConcatProperties
<1>3. \A k \in 1..Len(t) : t[k].op \notin OwnOps
  <2>1. ASSUME NEW k \in 1..Len(t) PROVE t[k].op \in LinkOps \cup FlowOps
    <3>1. t[k] \in Later(R)
        BY ElementOfSeq
    <3> QED
        BY <3>1 DEF Later
  <2> QED
      BY <2>1, OpsDisjoint
<1> HIDE DEF u
<1>4. ASSUME NEW k \in 1..Len(u), u[k].op \in OwnOps PROVE k \in 1..Len(plan) /\ u[k] = plan[k]
  <2>1. CASE k > Len(plan)
    <3>1. k - Len(plan) \in 1..Len(t) /\ k = Len(plan) + (k - Len(plan))
        BY <1>2, <2>1
    <3> QED
        BY <1>2, <1>3, <1>4, <3>1
  <2> QED
      BY <1>2, <2>1
<1>5. ASSUME NEW j \in 1..Len(u), NEW k \in 1..Len(u), j < k, u[k].op \in OwnOps, u[j].repo = u[k].repo
      PROVE  u[j].op \in OwnOps /\ Rank(u[j].op) < Rank(u[k].op)
  <2>1. k \in 1..Len(plan) /\ u[k] = plan[k]
      BY <1>4, <1>5
  <2>2. j \in 1..Len(plan) /\ u[j] = plan[j]
      BY <1>2, <1>5, <2>1
  <2> QED
      BY <1>5, <2>1, <2>2 DEF Planned
<1>6. ASSUME NEW k \in 1..Len(u), u[k].op \in OwnOps PROVE Holds(RepoPlan(p, u[k].repo), u[k])
    BY <1>4, <1>6 DEF Planned
<1>7. ASSUME NEW x, Holds(plan, x) PROVE Holds(u, x)
  <2>1. PICK k \in 1..Len(plan) : plan[k] = x
      BY <1>7 DEF Holds
  <2>2. k \in 1..Len(u) /\ u[k] = x
      BY <1>2, <2>1
  <2> QED
      BY <2>2 DEF Holds
<1>8. Planned(u, p)
    BY <1>2, <1>5, <1>6, <1>7 DEF Planned
<1> QED
    BY <1>8 DEF u

\* perRepo(op, nonempty) of Plan: one statement for some of the repositories.
LEMMA LinksAre ==
    ASSUME NEW scope, scope \in Seq(Range(scope)), NEW op \in LinkOps, NEW X
    PROVE  FlattenSeq([j \in 1..Len(scope) |->
               IF scope[j] \in X THEN <<Stmt(op, scope[j])>> ELSE << >>]) \in Seq(Later(Range(scope)))
<1> DEFINE seqs == [j \in 1..Len(scope) |-> IF scope[j] \in X THEN <<Stmt(op, scope[j])>> ELSE << >>]
           S == Later(Range(scope))
<1>1. Len(scope) \in Nat /\ \A j \in 1..Len(scope) : scope[j] \in Range(scope)
    BY LenProperties, ElementOfSeq
<1>2. ASSUME NEW j \in 1..Len(scope) PROVE seqs[j] \in Seq(S)
  <2>1. Stmt(op, scope[j]) \in S
      BY <1>1 DEF Stmt, Later
  <2> HIDE DEF S
  <2> QED
      BY <2>1
<1> HIDE DEF S
<1>3. seqs \in Seq(Seq(S))
    BY <1>1, <1>2
<1> HIDE DEF seqs
<1>4. FlattenSeq(seqs) \in Seq(S)
    BY <1>3, FlattenIs
<1> QED
    BY <1>4 DEF seqs, S

\* The plan of a run on a list of repositories, none twice: the statements of a
\* repository are all there, clearing and deleting before writing, a node before
\* what is matched through it.
LEMMA PlanIs ==
    ASSUME NEW p, p.scope \in Seq(Range(p.scope)), IsInjective(p.scope)
    PROVE  Planned(Plan(p), p)
<1> DEFINE R == Range(p.scope)
           calls(r) == ResolvedCalls(p.files, r) # {}
           imports(r) == \E q \in InRepo(p.files, r) :
               Rec(p.files, q).imports \cap UNION {SymbolsOf(p.files, s) : s \in Repos} # {}
           head == FlattenSeq([j \in 1..Len(p.scope) |-> RepoPlan(p, p.scope[j])])
           t1 == <<Stmt("ClearHttpFlows", ""), Stmt("ClearKafkaFlows", "")>>
           t2 == FlattenSeq([j \in 1..Len(p.scope) |->
                     IF calls(p.scope[j]) THEN <<Stmt("Calls", p.scope[j])>> ELSE << >>])
           t3 == FlattenSeq([j \in 1..Len(p.scope) |->
                     IF imports(p.scope[j]) THEN <<Stmt("Imports", p.scope[j])>> ELSE << >>])
           t4 == IF HttpFlows(p.files) # {} THEN <<Stmt("HttpFlows", "")>> ELSE << >>
           t5 == IF KafkaFlows(p.files) # {} THEN <<Stmt("KafkaFlows", "")>> ELSE << >>
<1>1. Plan(p) = head \o t1 \o t2 \o t3 \o t4 \o t5
    BY DEF Plan
<1>2. t1 \in Seq(Later(R)) /\ t4 \in Seq(Later(R)) /\ t5 \in Seq(Later(R))
  <2>1. \A op \in FlowOps : Stmt(op, "") \in Later(R)
      BY DEF Stmt, Later
  <2>2. {"ClearHttpFlows", "ClearKafkaFlows", "HttpFlows", "KafkaFlows"} \subseteq FlowOps
      BY DEF FlowOps
  <2> DEFINE S == Later(R)
  <2>3. /\ Stmt("ClearHttpFlows", "") \in S /\ Stmt("ClearKafkaFlows", "") \in S
        /\ Stmt("HttpFlows", "") \in S /\ Stmt("KafkaFlows", "") \in S
      BY <2>1, <2>2
  <2> HIDE DEF S
  <2>4. \A x, y \in S : <<x, y>> \in Seq(S) /\ <<x>> \in Seq(S)
      OBVIOUS
  <2>5. << >> \in Seq(S)
      OBVIOUS
  <2>6. t1 \in Seq(S)
      BY <2>3, <2>4
  <2>7. t4 \in Seq(S)
      BY <2>3, <2>4, <2>5
  <2>8. t5 \in Seq(S)
      BY <2>3, <2>4, <2>5
  <2> QED
      BY <2>6, <2>7, <2>8 DEF S
<1> HIDE DEF calls, imports
<1>3. t2 \in Seq(Later(R)) /\ t3 \in Seq(Later(R))
  <2> DEFINE C == {r \in R : calls(r)}
             I == {r \in R : imports(r)}
  <2>1. \A j \in 1..Len(p.scope) : (calls(p.scope[j]) <=> p.scope[j] \in C)
                                  /\ (imports(p.scope[j]) <=> p.scope[j] \in I)
      BY ElementOfSeq
  <2> HIDE DEF C, I
  <2>2. [j \in 1..Len(p.scope) |-> IF calls(p.scope[j]) THEN <<Stmt("Calls", p.scope[j])>> ELSE << >>]
        = [j \in 1..Len(p.scope) |-> IF p.scope[j] \in C THEN <<Stmt("Calls", p.scope[j])>> ELSE << >>]
      BY <2>1
  <2>3. [j \in 1..Len(p.scope) |-> IF imports(p.scope[j]) THEN <<Stmt("Imports", p.scope[j])>> ELSE << >>]
        = [j \in 1..Len(p.scope) |-> IF p.scope[j] \in I THEN <<Stmt("Imports", p.scope[j])>> ELSE << >>]
      BY <2>1
  <2>4. "Calls" \in LinkOps /\ "Imports" \in LinkOps
      BY DEF LinkOps
  <2>5. t2 \in Seq(Later(R))
      BY <2>2, <2>4, LinksAre
  <2>6. t3 \in Seq(Later(R))
      BY <2>3, <2>4, LinksAre
  <2> QED
      BY <2>5, <2>6
<1>4. Planned(head, p)
    BY HeadIs
<1> HIDE DEF head, t1, t2, t3, t4, t5, R
<1>5. Planned(head \o t1, p)
    BY <1>2, <1>4, PlanLater DEF R
<1>6. Planned(head \o t1 \o t2, p)
    BY <1>3, <1>5, PlanLater DEF R
<1>7. Planned(head \o t1 \o t2 \o t3, p)
    BY <1>3, <1>6, PlanLater DEF R
<1>8. Planned(head \o t1 \o t2 \o t3 \o t4, p)
    BY <1>2, <1>7, PlanLater DEF R
<1>9. Planned(head \o t1 \o t2 \o t3 \o t4 \o t5, p)
    BY <1>2, <1>8, PlanLater DEF R
<1> QED
    BY <1>1, <1>9

\* What a run plans for a repository depends on its files,
LEMMA ContentPlanSame ==
    ASSUME NEW p, NEW q, q.files = p.files, NEW r
    PROVE  ContentPlan(q, r) = ContentPlan(p, r)
<1> DEFINE F == q.files
           feature(kind) == {x \in FeaturesOf(F, {kind}) : RepoOf[x[1]] = r}
           when(nonempty, op) == IF nonempty THEN <<Stmt(op, r)>> ELSE << >>
<1>1. ContentPlan(q, r) =
        <<Stmt("Repo", r), Stmt("Commit", r)>>
        \o when(InRepo(F, r) # {}, "Files") \o when(InRepo(F, r) # {}, "Modules")
        \o when(SymbolsOf(F, r) # {}, "Symbols")
        \o when(feature("Route") # {}, "Route")
        \o when(feature("HttpClientCall") # {}, "HttpClientCall")
        \o when(feature("KafkaProducer") # {}, "KafkaProducer")
        \o when(feature("KafkaConsumer") # {}, "KafkaConsumer")
        \o when(ChunksOf(F, r) # {}, "Chunks")
    BY DEF ContentPlan
<1>2. F = p.files
    OBVIOUS
<1> HIDE DEF F
<1> QED
    BY <1>1, <1>2 DEF ContentPlan

\* and what it plans in all also on its mode, its scope and its deletions.
LEMMA PlanSame ==
    ASSUME NEW p, NEW q, q.mode = p.mode, q.scope = p.scope, q.files = p.files, q.deleted = p.deleted
    PROVE  Plan(q) = Plan(p)
<1>1. \A r : ContentPlan(q, r) = ContentPlan(p, r)
    BY ContentPlanSame
<1>2. \A r : DeletedIn(q, r) = DeletedIn(p, r)
    BY DEF DeletedIn
<1>3. \A r : RepoPlan(q, r) = RepoPlan(p, r)
    BY <1>1, <1>2 DEF RepoPlan
<1> QED
    BY <1>3 DEF Plan

-----------------------------------------------------------------------------
(***************************************************************************)
(* Runs and steps.                                                         *)
(***************************************************************************)
\* The stages of a run and the fields of its record.
Stages == {"idle", "fetch", "diff", "walk", "write", "done", "failed"}
Fields == {"pc", "mode", "scope", "sha", "idx", "known", "changed", "deleted", "files",
           "plan", "k", "att", "datt", "met"}

\* The plan of a writing run: its statements, their order, and that it has
\* exactly those its files and its diff call for.
WellPlanned(p) ==
    /\ p.plan \in Seq(Statements(Range(p.scope)))
    /\ \A j, k \in 1..Len(p.plan) :
          j < k /\ p.plan[k].op \in OwnOps /\ p.plan[j].repo = p.plan[k].repo
              => p.plan[j].op \in OwnOps /\ Rank(p.plan[j].op) < Rank(p.plan[k].op)
    /\ \A k \in 1..Len(p.plan) :
          p.plan[k].op \in OwnOps => PlannedOp(p, p.plan[k].repo, p.plan[k].op)
    /\ \A r \in Range(p.scope) : \A op \in OwnOps : PlannedOp(p, r, op) => Holds(p.plan, Stmt(op, r))

\* The record of a run is in order.
RunOK(p) ==
    /\ DOMAIN p = Fields
    /\ p.pc \in Stages /\ p.mode \in {"full", "delta"}
    /\ p.scope \in Seq(Repos) /\ IsInjective(p.scope)
    /\ Parsed(p.files)
    /\ DOMAIN p.known \subseteq Paths /\ p.changed \subseteq Paths /\ p.deleted \subseteq Paths
    /\ p.att \in 1..MaxAttempts /\ p.datt \in 1..MaxAttempts /\ p.k \in Nat \ {0}
    /\ p.pc \in {"fetch", "diff", "walk"} => p.idx \in 1..Len(p.scope) /\ p.k = 1
    /\ p.pc = "write" => WellPlanned(p) /\ p.k <= Len(p.plan) + 1 /\ p.met \subseteq Range(p.scope)

RunsOK ==
    /\ DOMAIN proc = Indexers
    /\ \A i \in Indexers : RunOK(proc[i])

\* Every other variable has its type.
RestOK ==
    /\ disk \in [Paths -> Contents \cup {Absent}]
    /\ torn \subseteq Repos /\ tangled \subseteq Repos
    /\ DOMAIN bound = {"runs", "edits", "faults"}
    /\ bound.runs \in Nat /\ bound.edits \in Nat /\ bound.faults \in Nat
    /\ bound.runs <= MaxRuns /\ bound.edits <= MaxEdits /\ bound.faults <= MaxFaults

\* The runs that are writing repository r.
Writers(r) == {i \in Indexers : proc[i].pc = "write" /\ r \in Range(proc[i].scope)}

\* The run p still has in hand whatever clearing does not reach of repository r,
\* and what its statements so far were to leave for the next ones is there.
Holder(g, p, r) ==
    /\ Orphans(g, r) \subseteq Wanted(p.files, r)
    /\ \A j \in 1..(p.k - 1) : p.plan[j].repo = r => Left(g, r, p.sha, p.files, p.plan[j].op)

\* Clearing reaches all there is of repository r, what the run p wants included.
Settled(g, p, r) == Orphans(g, r) = {} /\ Wanted(p.files, r) \subseteq Reached(g, r)

\* Runs that write repository r at once have the same plan and know of each other.
Overlaps(r) ==
    \A i, j \in Writers(r) : i # j => Alike(proc[i], proc[j]) /\ r \in proc[i].met

\* What clearing does not reach of repository r is in hand: nobody writes it and
\* there is nothing, or one that is alone holds it, or one of several alike does.
InHand(g, r) ==
    /\ Writers(r) = {} => Orphans(g, r) = {}
    /\ \A i \in Writers(r) : r \notin proc[i].met => Orphans(g, r) = {} /\ Holder(g, proc[i], r)
    /\ Writers(r) # {} => \E i \in Writers(r) : Holder(g, proc[i], r) \/ Settled(g, proc[i], r)

\* The two invariants.  A repository in tangled has been written by runs that
\* differed, or that did not all get to the end.
TypeInv == RestOK /\ RunsOK /\ GraphOK(graph)
OrphanInv == \A r \in Repos \ tangled : Overlaps(r) /\ InHand(graph, r)

-----------------------------------------------------------------------------
(***************************************************************************)
(* The statements, one by one.                                              *)
(***************************************************************************)
\* Those that write what clearing follows, and what they have to find.
KeyOps == {"Repo", "Commit", "Files", "Symbols", "Chunks"}

\* The earlier statements whose nodes the statement op has to find.
Found(g, p, r, op) ==
    /\ op = "Commit" => Left(g, r, p.sha, p.files, "Repo")
    /\ op \in {"Files", "Symbols", "Chunks"} => Left(g, r, p.sha, p.files, "Commit")
    /\ op \in {"Symbols", "Chunks"} => Left(g, r, p.sha, p.files, "Files")

\* What holds of a statement whatever it is: the graph stays sound, and only
\* the statement's repository is touched.
Sound(g, h, r) == GraphOK(h) /\ Touches(g, h, r)

\* All statements.
AllOps == OwnOps \cup LinkOps \cup FlowOps

\* A quiet statement is sound.
LEMMA QuietSound == \A g, h, r : Quiet(g, h, r) => Sound(g, h, r) /\ \A q : SamePart(g, h, q)
BY DEF Quiet, Sound

\* A statement that deletes files leaves no orphan that was none before.
LEMMA ApplyDeletes ==
    ASSUME NEW g, GraphOK(g), NEW p, NEW r,
           NEW op \in {"ClearRepo", "DeleteFiles"}
    PROVE  /\ Sound(g, Apply(g, Stmt(op, r), p), r)
           /\ Orphans(Apply(g, Stmt(op, r), p), r) \subseteq Orphans(g, r)
<1> DEFINE st == Stmt(op, r)
<1>0. st.op = op /\ st.repo = r
    BY DEF Stmt
<1>1. \A x \in DeletedIn(p, r) : RepoOf[x] = r
    BY DEF DeletedIn
<1>2. CASE op = "ClearRepo"
  <2>1. Apply(g, st, p) = ClearRepo(g, r)
      BY <1>0, <1>2 DEF Apply, FeatureLabels, HttpLabels, KafkaLabels
  <2> QED
      BY <2>1, ClearRepoOK, ClearRepoShrinks DEF Sound
<1>3. CASE op = "DeleteFiles"
  <2>1. Apply(g, st, p) = DeleteFiles(g, DeletedIn(p, r))
      BY <1>0, <1>3 DEF Apply, FeatureLabels, HttpLabels, KafkaLabels
  <2> QED
      BY <1>1, <2>1, DeleteFilesOK, DeleteFilesShrinks DEF Sound
<1> QED
    BY <1>2, <1>3

\* A statement that writes what clearing follows leaves what it is for.
LEMMA ApplyKeys ==
    ASSUME NEW g, GraphOK(g), NEW p, Parsed(p.files), NEW r \in Repos, NEW op \in KeyOps
    PROVE  /\ Sound(g, Apply(g, Stmt(op, r), p), r)
           /\ Leaves(g, Apply(g, Stmt(op, r), p), r, p.sha, p.files, op, Found(g, p, r, op))
<1> DEFINE st == Stmt(op, r)
<1>0. st.op = op /\ st.repo = r
    BY DEF Stmt
<1>1. CASE op = "Repo"
  <2>1. Apply(g, st, p) = UpsertRepo(g, r, p.sha)
      BY <1>0, <1>1 DEF Apply, FeatureLabels, HttpLabels, KafkaLabels
  <2>2. Leaves(g, UpsertRepo(g, r, p.sha), r, p.sha, p.files, "Repo", TRUE)
      BY UpsertRepoLeaves
  <2> QED
      BY <1>1, <2>1, <2>2, UpsertRepoOK DEF Sound, Leaves
<1>2. CASE op = "Commit"
  <2>1. Apply(g, st, p) = UpsertCommit(g, r, p.sha)
      BY <1>0, <1>2 DEF Apply, FeatureLabels, HttpLabels, KafkaLabels
  <2>2. Leaves(g, UpsertCommit(g, r, p.sha), r, p.sha, p.files, "Commit", Left(g, r, p.sha, p.files, "Repo"))
      BY UpsertCommitLeaves
  <2> QED
      BY <1>2, <2>1, <2>2, UpsertCommitOK DEF Sound, Leaves, Found
<1>3. CASE op = "Files"
  <2>1. Apply(g, st, p) = UpsertFiles(g, r, p.sha, p.files)
      BY <1>0, <1>3 DEF Apply, FeatureLabels, HttpLabels, KafkaLabels
  <2>2. Leaves(g, UpsertFiles(g, r, p.sha, p.files), r, p.sha, p.files, "Files",
               Left(g, r, p.sha, p.files, "Commit"))
      BY UpsertFilesLeaves
  <2> QED
      BY <1>3, <2>1, <2>2, UpsertFilesOK DEF Sound, Leaves, Found
<1>4. CASE op = "Symbols"
  <2>1. Apply(g, st, p) = UpsertSymbols(g, r, p.files)
      BY <1>0, <1>4 DEF Apply, FeatureLabels, HttpLabels, KafkaLabels
  <2>2. Leaves(g, UpsertSymbols(g, r, p.files), r, p.sha, p.files, "Symbols",
               Left(g, r, p.sha, p.files, "Commit") /\ Left(g, r, p.sha, p.files, "Files"))
      BY UpsertSymbolsLeaves
  <2> QED
      BY <1>4, <2>1, <2>2, UpsertSymbolsOK DEF Sound, Leaves, Found
<1>5. CASE op = "Chunks"
  <2>1. Apply(g, st, p) = UpsertChunks(g, r, p.files)
      BY <1>0, <1>5 DEF Apply, FeatureLabels, HttpLabels, KafkaLabels
  <2>2. Leaves(g, UpsertChunks(g, r, p.files), r, p.sha, p.files, "Chunks",
               Left(g, r, p.sha, p.files, "Commit") /\ Left(g, r, p.sha, p.files, "Files"))
      BY UpsertChunksLeaves
  <2> QED
      BY <1>5, <2>1, <2>2, UpsertChunksOK DEF Sound, Leaves, Found
<1> QED
    BY <1>1, <1>2, <1>3, <1>4, <1>5 DEF KeyOps

\* All others leave what clearing follows as it is.
LEMMA ApplyQuiet ==
    ASSUME NEW g, GraphOK(g), NEW p, Parsed(p.files), NEW r,
           NEW op \in AllOps \ (KeyOps \cup {"ClearRepo", "DeleteFiles"})
    PROVE  Quiet(g, Apply(g, Stmt(op, r), p), r)
<1> DEFINE st == Stmt(op, r)
           h == Apply(g, st, p)
           D == DeletedIn(p, r)
<1>0. st.op = op /\ st.repo = r
    BY DEF Stmt
<1>1. CASE op \in {"ClearModules", "ClearFeatures", "DeleteFeatures", "DeleteModules"}
  <2>1. h \in SideDeletes(g, r, D)
      BY <1>0, <1>1 DEF Apply, SideDeletes, FeatureLabels, HttpLabels, KafkaLabels
  <2> HIDE DEF h, D
  <2>2. Quiet(g, h, r)
      BY <2>1, SideDeletesQuiet
  <2> QED
      BY <2>2 DEF h
<1>2. CASE op = "Modules"
  <2>1. h = UpsertModules(g, r, p.files)
      BY <1>0, <1>2 DEF Apply, FeatureLabels, HttpLabels, KafkaLabels
  <2> QED
      BY <2>1, UpsertModulesQuiet
<1>3. CASE op \in FeatureLabels
  <2>1. h = UpsertFeatures(g, op, r, p.files)
      BY <1>0, <1>3 DEF Apply, FeatureLabels, HttpLabels, KafkaLabels
  <2> QED
      BY <1>3, <2>1, UpsertFeaturesQuiet
<1>4. CASE op \in LinkOps
  <2>1. h = IF op = "Calls" THEN UpsertCalls(g, r, p.files) ELSE UpsertImports(g, r, p.files)
      BY <1>0, <1>4 DEF Apply, LinkOps, FeatureLabels, HttpLabels, KafkaLabels
  <2> QED
      BY <2>1, UpsertCallsQuiet, UpsertImportsQuiet
<1>5. CASE op \in {"ClearHttpFlows", "ClearKafkaFlows"}
  <2>1. PICK rel \in FlowRels : h = ClearFlows(g, rel)
      BY <1>0, <1>5 DEF Apply, FlowRels, FeatureLabels, HttpLabels, KafkaLabels
  <2> QED
      BY <2>1, ClearFlowsQuiet
<1>6. CASE op \in {"HttpFlows", "KafkaFlows"}
  <2>1. h = IF op = "HttpFlows" THEN UpsertHttpFlows(g, p.files) ELSE UpsertKafkaFlows(g, p.files)
      BY <1>0, <1>6 DEF Apply, FeatureLabels, HttpLabels, KafkaLabels
  <2> QED
      BY <2>1, HttpFlowsQuiet, KafkaFlowsQuiet
<1> QED
    BY <1>1, <1>2, <1>3, <1>4, <1>5, <1>6
       DEF AllOps, OwnOps, Destructive, ClearOps, DeleteOps, ContentOps, KeyOps, LinkOps, FlowOps

-----------------------------------------------------------------------------
(***************************************************************************)
(* The plan of a run.                                                       *)
(***************************************************************************)
\* p and q write the same in the same order.
SamePlan(p, q) ==
    /\ p.mode = q.mode /\ p.scope = q.scope /\ p.sha = q.sha
    /\ p.files = q.files /\ p.deleted = q.deleted /\ p.plan = q.plan

\* What is planned depends on the files, the deletions and the mode.
LEMMA PlannedOpSame ==
    ASSUME NEW p, NEW q, p.mode = q.mode, p.files = q.files, p.deleted = q.deleted, NEW r, NEW op
    PROVE  PlannedOp(p, r, op) <=> PlannedOp(q, r, op)
<1>1. DeletedIn(p, r) = DeletedIn(q, r)
    BY DEF DeletedIn
<1> QED
    BY <1>1 DEF PlannedOp

\* A run with the same plan is as well planned.
LEMMA WellPlannedSame ==
    ASSUME NEW p, NEW q, SamePlan(p, q), WellPlanned(p)
    PROVE  WellPlanned(q)
<1>1. p.mode = q.mode /\ p.scope = q.scope /\ p.files = q.files /\ p.deleted = q.deleted /\ p.plan = q.plan
    BY DEF SamePlan
<1>2. \A r, op : PlannedOp(p, r, op) <=> PlannedOp(q, r, op)
    BY <1>1, PlannedOpSame
<1> QED
    BY <1>1, <1>2 DEF WellPlanned

\* The run that begins to write p is well planned.
LEMMA PlanWell ==
    ASSUME NEW p, p.scope \in Seq(Range(p.scope)), IsInjective(p.scope),
           NEW q, q.mode = p.mode, q.files = p.files, q.deleted = p.deleted,
           q.scope = p.scope, q.plan = Plan(p)
    PROVE  WellPlanned(q)
<1>1. Planned(q.plan, p)
    BY PlanIs
<1>2. \A r, op : PlannedOp(p, r, op) <=> PlannedOp(q, r, op)
    BY PlannedOpSame
<1>3. \A r, op : Holds(RepoPlan(p, r), Stmt(op, r)) <=> PlannedOp(p, r, op)
    BY RepoPlanIs
<1>4. ASSUME NEW k \in 1..Len(q.plan), q.plan[k].op \in OwnOps
      PROVE  PlannedOp(q, q.plan[k].repo, q.plan[k].op)
  <2> DEFINE x == q.plan[k]
  <2>1. Holds(RepoPlan(p, x.repo), x)
      BY <1>1, <1>4 DEF Planned
  <2>2. x \in Statements(Range(p.scope))
      BY <1>1 DEF Planned
  <2>3. x = Stmt(x.op, x.repo)
      BY <2>2 DEF Statements, Stmt
  <2> HIDE DEF x
  <2>4. PlannedOp(q, x.repo, x.op)
      BY <1>2, <1>3, <2>1, <2>3
  <2> QED
      BY <2>4 DEF x
<1>5. ASSUME NEW r \in Range(q.scope), NEW op \in OwnOps, PlannedOp(q, r, op)
      PROVE  Holds(q.plan, Stmt(op, r))
  <2>1. Holds(RepoPlan(p, r), Stmt(op, r))
      BY <1>2, <1>3, <1>5
  <2> QED
      BY <1>1, <2>1 DEF Planned
<1>6. q.plan \in Seq(Statements(Range(q.scope)))
    BY <1>1 DEF Planned
<1>7. \A j, k \in 1..Len(q.plan) :
          j < k /\ q.plan[k].op \in OwnOps /\ q.plan[j].repo = q.plan[k].repo
              => q.plan[j].op \in OwnOps /\ Rank(q.plan[j].op) < Rank(q.plan[k].op)
    BY <1>1 DEF Planned
<1> QED
    BY <1>4, <1>5, <1>6, <1>7 DEF WellPlanned

\* What a statement of a plan is.
LEMMA StatementIs ==
    ASSUME NEW p, WellPlanned(p), NEW k \in 1..Len(p.plan)
    PROVE  /\ p.plan[k] = Stmt(p.plan[k].op, p.plan[k].repo)
           /\ p.plan[k].op \in AllOps
           /\ p.plan[k].op \in OwnOps \cup LinkOps => p.plan[k].repo \in Range(p.scope)
           /\ p.plan[k].op \in FlowOps => p.plan[k].repo = ""
<1>1. p.plan[k] \in Statements(Range(p.scope))
    BY DEF WellPlanned
<1>2. p.plan[k].op \in FlowOps => p.plan[k].op \notin OwnOps \cup LinkOps
    BY OpsDisjoint DEF LinkOps, FlowOps
<1> QED
    BY <1>1, <1>2 DEF Statements, Stmt, AllOps

\* A statement of the plan for the same repository and of a lower rank comes first.
LEMMA Earlier ==
    ASSUME NEW p, WellPlanned(p), NEW k \in 1..Len(p.plan),
           NEW op \in OwnOps, NEW low \in OwnOps, Rank(low) < Rank(op),
           NEW r \in Range(p.scope), p.plan[k] = Stmt(op, r), PlannedOp(p, r, low)
    PROVE  \E j \in 1..(k - 1) : p.plan[j] = Stmt(low, r)
<1>1. PICK j \in 1..Len(p.plan) : p.plan[j] = Stmt(low, r)
    BY DEF WellPlanned, Holds
<1>2. p.plan[k].op = op /\ p.plan[k].repo = r /\ p.plan[j].op = low /\ p.plan[j].repo = r
    BY <1>1 DEF Stmt
<1>3. Rank(low) \in Nat /\ Rank(op) \in Nat /\ Len(p.plan) \in Nat
    BY RankType, SMTT(30) DEF WellPlanned
<1>4. ~(k < j)
    BY <1>2, <1>3 DEF WellPlanned
<1>5. k # j
    BY <1>2, <1>3
<1>6. j \in 1..(k - 1)
    BY <1>3, <1>4, <1>5
<1> QED
    BY <1>1, <1>6

\* A run that left its mark so far finds what its next statement needs.
LEMMA HolderFinds ==
    ASSUME NEW g, NEW p, WellPlanned(p), p.k \in 1..Len(p.plan), NEW r \in Range(p.scope),
           NEW op \in KeyOps, p.plan[p.k] = Stmt(op, r), Holder(g, p, r)
    PROVE  Found(g, p, r, op)
<1>0. {"Repo", "Commit", "Files", "Symbols", "Chunks"} \subseteq OwnOps /\ op \in OwnOps
    BY DEF KeyOps, OwnOps, ContentOps
<1>1. ASSUME NEW low \in OwnOps, Rank(low) < Rank(op), PlannedOp(p, r, low)
      PROVE  Left(g, r, p.sha, p.files, low)
  <2>1. PICK j \in 1..(p.k - 1) : p.plan[j] = Stmt(low, r)
      BY <1>0, <1>1, Earlier
  <2>2. p.plan[j].op = low /\ p.plan[j].repo = r
      BY <2>1 DEF Stmt
  <2> QED
      BY <2>2 DEF Holder
<1>2. PlannedOp(p, r, op)
  <2>1. p.plan[p.k].op = op /\ p.plan[p.k].repo = r
      BY DEF Stmt
  <2> QED
      BY <1>0, <2>1 DEF WellPlanned
<1>3. PlannedOp(p, r, "Repo") /\ PlannedOp(p, r, "Commit")
    BY DEF PlannedOp
<1>4. op \in {"Symbols", "Chunks"} => PlannedOp(p, r, "Files")
  <2>1. op = "Symbols" => SymbolsOf(p.files, r) # {}
      BY <1>2 DEF PlannedOp, ClearOps, DeleteOps, FeatureLabels, HttpLabels, KafkaLabels
  <2>2. op = "Chunks" => ChunksOf(p.files, r) # {}
      BY <1>2 DEF PlannedOp, ClearOps, DeleteOps, FeatureLabels, HttpLabels, KafkaLabels
  <2>3. SymbolsOf(p.files, r) # {} \/ ChunksOf(p.files, r) # {} => InRepo(p.files, r) # {}
      BY DEF SymbolsOf, ChunksOf
  <2> QED
      BY <2>1, <2>2, <2>3 DEF PlannedOp
<1>5. /\ Rank("Repo") = 4 /\ Rank("Commit") = 5 /\ Rank("Files") = 6
      /\ Rank("Symbols") = 8 /\ Rank("Chunks") = 13
    BY DEF Rank
<1>6. op = "Commit" => Left(g, r, p.sha, p.files, "Repo")
    BY <1>0, <1>1, <1>3, <1>5
<1>7. op \in {"Files", "Symbols", "Chunks"} => Left(g, r, p.sha, p.files, "Commit")
    BY <1>0, <1>1, <1>3, <1>5
<1>8. op \in {"Symbols", "Chunks"} => Left(g, r, p.sha, p.files, "Files")
    BY <1>0, <1>1, <1>4, <1>5
<1> QED
    BY <1>6, <1>7, <1>8 DEF Found

\* When all of its statements have run, all it wanted is in clearing's reach.
LEMMA HolderSettles ==
    ASSUME NEW g, NEW p, WellPlanned(p), p.k = Len(p.plan) + 1, Parsed(p.files),
           NEW r \in Range(p.scope), Holder(g, p, r)
    PROVE  Settled(g, p, r)
<1>0. Len(p.plan) \in Nat
    BY DEF WellPlanned
<1>1. ASSUME NEW op \in OwnOps, PlannedOp(p, r, op) PROVE Left(g, r, p.sha, p.files, op)
  <2>1. PICK j \in 1..Len(p.plan) : p.plan[j] = Stmt(op, r)
      BY <1>1 DEF WellPlanned, Holds
  <2>2. p.plan[j].op = op /\ p.plan[j].repo = r /\ j \in 1..(p.k - 1)
      BY <1>0, <2>1 DEF Stmt
  <2> QED
      BY <2>2 DEF Holder
<1>2. {"Commit", "Files", "Symbols", "Chunks"} \subseteq OwnOps
    BY DEF OwnOps, ContentOps
<1>3. Left(g, r, p.sha, p.files, "Commit")
    BY <1>1, <1>2 DEF PlannedOp
<1>4. InRepo(p.files, r) # {} => Left(g, r, p.sha, p.files, "Files")
    BY <1>1, <1>2 DEF PlannedOp
<1>5. SymbolsOf(p.files, r) # {} => Left(g, r, p.sha, p.files, "Symbols")
    BY <1>1, <1>2 DEF PlannedOp
<1>6. ChunksOf(p.files, r) # {} => Left(g, r, p.sha, p.files, "Chunks")
    BY <1>1, <1>2 DEF PlannedOp
<1>7. FileNodesOf(p.files, r) \subseteq FilesOf(g, r)
  <2>1. CASE InRepo(p.files, r) # {}
      BY <1>3, <1>4, <2>1, FilesReached
  <2>2. CASE InRepo(p.files, r) = {}
      BY <2>2 DEF FileNodesOf
  <2> QED
      BY <2>1, <2>2
<1>8. SymbolNodesOf(p.files, r) \subseteq Reached(g, r)
  <2>1. CASE SymbolsOf(p.files, r) # {}
      BY <1>5, <1>7, <2>1, SymbolsReached
  <2>2. CASE SymbolsOf(p.files, r) = {}
      BY <2>2 DEF SymbolNodesOf
  <2> QED
      BY <2>1, <2>2
<1>9. ChunkNodesOf(p.files, r) \subseteq Reached(g, r)
  <2>1. CASE ChunksOf(p.files, r) # {}
      BY <1>6, <1>7, <2>1, ChunksReached
  <2>2. CASE ChunksOf(p.files, r) = {}
      BY <2>2 DEF ChunkNodesOf
  <2> QED
      BY <2>1, <2>2
<1>10. FilesOf(g, r) \subseteq Reached(g, r)
    BY DEF Reached, WithContents
<1>11. Wanted(p.files, r) \subseteq Reached(g, r)
    BY <1>7, <1>8, <1>9, <1>10 DEF Wanted
<1>12. Orphans(g, r) = {}
    BY <1>11 DEF Holder, Orphans
<1> QED
    BY <1>11, <1>12 DEF Settled

-----------------------------------------------------------------------------
(***************************************************************************)
(* A run executes its next statement.                                       *)
(***************************************************************************)
\* The run p is at a statement.
Ready(p) ==
    /\ WellPlanned(p) /\ Parsed(p.files) /\ p.scope \in Seq(Repos)
    /\ p.k \in 1..Len(p.plan)

\* What a statement does to what can be cleared of repository r.
Effect(g, h, p, st, r) ==
    \/ SamePart(g, h, r) /\ (st.repo # r \/ st.op \notin KeyOps)
    \/ /\ st.repo = r /\ st.op \in {"ClearRepo", "DeleteFiles"}
       /\ Orphans(h, r) \subseteq Orphans(g, r)
    \/ /\ st.repo = r /\ st.op \in KeyOps
       /\ Leaves(g, h, r, p.sha, p.files, st.op, Found(g, p, r, st.op))

\* The statements that clearing is about are statements of one repository.
LEMMA KeyOpsOwn == KeyOps \cup {"ClearRepo", "DeleteFiles"} \subseteq OwnOps
BY DEF KeyOps, OwnOps, Destructive, ClearOps, DeleteOps, ContentOps

\* What a statement of a plan does to each repository.
LEMMA StatementEffect ==
    ASSUME NEW g, GraphOK(g), NEW p, Ready(p), NEW h, h = Apply(g, p.plan[p.k], p)
    PROVE  /\ Sound(g, h, p.plan[p.k].repo)
           /\ \A r : Effect(g, h, p, p.plan[p.k], r)
<1> DEFINE st == p.plan[p.k]
           op == st.op
           q == st.repo
<1>1. /\ st = Stmt(op, q) /\ op \in AllOps
      /\ op \in OwnOps \cup LinkOps => q \in Range(p.scope)
    BY StatementIs DEF Ready
<1>2. Range(p.scope) \subseteq Repos
    BY DEF Ready, Range
<1>3. h = Apply(g, Stmt(op, q), p)
    BY <1>1
<1> HIDE DEF st, op, q
<1>4. Parsed(p.files)
    BY DEF Ready
<1>5. CASE op \in {"ClearRepo", "DeleteFiles"}
  <2>1. Sound(g, h, q) /\ Orphans(h, q) \subseteq Orphans(g, q)
      BY <1>3, <1>5, ApplyDeletes
  <2>2. ASSUME NEW r, r # q PROVE SamePart(g, h, r)
      BY <2>1, <2>2, TouchesSame DEF Sound
  <2> QED
      BY <1>5, <2>1, <2>2 DEF Effect, op, q, st
<1>6. CASE op \in KeyOps
  <2>1. q \in Repos
      BY <1>1, <1>2, <1>6, KeyOpsOwn
  <2>2. Sound(g, h, q) /\ Leaves(g, h, q, p.sha, p.files, op, Found(g, p, q, op))
      BY <1>3, <1>4, <1>6, <2>1, ApplyKeys
  <2>3. ASSUME NEW r, r # q PROVE SamePart(g, h, r)
      BY <2>2, <2>3, TouchesSame DEF Sound
  <2> QED
      BY <1>6, <2>2, <2>3 DEF Effect, op, q, st
<1>7. CASE op \notin KeyOps \cup {"ClearRepo", "DeleteFiles"}
  <2>1. Quiet(g, h, q)
      BY <1>1, <1>3, <1>4, <1>7, ApplyQuiet
  <2>2. Sound(g, h, q) /\ \A r : SamePart(g, h, r)
      BY <2>1, QuietSound
  <2> QED
      BY <1>7, <2>2 DEF Effect, op, q, st
<1> QED
    BY <1>5, <1>6, <1>7

\* A repository that no statement touches stays as it is, for every run.
LEMMA Untouched ==
    ASSUME NEW g, GraphOK(g), NEW h, NEW r, SamePart(g, h, r), NEW w, Parsed(w.files)
    PROVE  /\ Orphans(h, r) = Orphans(g, r)
           /\ Holder(g, w, r) => Holder(h, w, r)
           /\ Settled(g, w, r) => Settled(h, w, r)
<1>1. Reached(g, r) = Reached(h, r) /\ Orphans(g, r) = Orphans(h, r)
    BY ReachedSame
<1>2. \A op : Left(g, r, w.sha, w.files, op) => Left(h, r, w.sha, w.files, op)
    BY LeftSame
<1> QED
    BY <1>1, <1>2 DEF Holder, Settled

\* Writing for one run takes nothing from another that wrote the same.
LEMMA GrownKeeps ==
    ASSUME NEW g, NEW h, NEW r, NEW w, Grown(g, h, Wanted(w.files, r))
    PROVE  /\ Holder(g, w, r) => Holder(h, w, r)
           /\ Settled(g, w, r) => Settled(h, w, r)
<1>1. Orphans(h, r) \subseteq Orphans(g, r) \cup (Wanted(w.files, r) \ Reached(h, r))
    BY OrphansGrow
<1>2. \A op : Left(g, r, w.sha, w.files, op) => Left(h, r, w.sha, w.files, op)
    BY LeftGrows
<1>3. Reached(g, r) \subseteq Reached(h, r)
    BY ReachedGrows DEF Grown
<1> QED
    BY <1>1, <1>2, <1>3 DEF Holder, Settled

\* Nothing has to be left by statements that write nothing clearing follows.
LEMMA LeftTrivial == \A g, r, sha, F, op : op \notin KeyOps => Left(g, r, sha, F, op)
BY DEF Left, KeyOps

\* p goes on as q: its statement ran and it is at the next, or at most there.
Goes(g, h, p, q) ==
    /\ SamePlan(p, q) /\ q.k \in Nat \ {0}
    /\ \/ h = Apply(g, p.plan[p.k], p) /\ q.k <= p.k + 1
       \/ h = g /\ q.k <= p.k

\* A run that goes back in its plan holds what it held.
LEMMA HolderLower ==
    ASSUME NEW g, NEW p, NEW q, SamePlan(p, q), p.k \in Nat, q.k \in Nat, q.k <= p.k, NEW r, Holder(g, p, r)
    PROVE  Holder(g, q, r)
BY DEF Holder, SamePlan

\* After a statement that deletes, the run has everything still to write.
LEMMA DeleterHolds ==
    ASSUME NEW g, NEW p, NEW q, Ready(p), SamePlan(p, q), q.k \in Nat \ {0}, q.k <= p.k + 1, NEW r,
           p.plan[p.k].repo = r, p.plan[p.k].op \in {"ClearRepo", "DeleteFiles"},
           Orphans(g, r) \subseteq Wanted(p.files, r)
    PROVE  Holder(g, q, r)
<1>1. q.plan = p.plan /\ q.files = p.files /\ q.sha = p.sha /\ p.k \in Nat /\ Len(p.plan) \in Nat
    BY DEF SamePlan, Ready, WellPlanned
<1>2. ASSUME NEW j \in 1..(q.k - 1), p.plan[j].repo = r PROVE p.plan[j].op \notin KeyOps
  <2>1. j \in 1..Len(p.plan) /\ j <= p.k /\ p.k \in 1..Len(p.plan)
      BY <1>1 DEF Ready
  <2>2. CASE j = p.k
      BY <2>2 DEF KeyOps
  <2>3. CASE j < p.k
    <3>0. \A op \in {"ClearRepo", "DeleteFiles"} : Rank(op) \in 1..3
        BY DEF Rank
    <3>1. p.plan[p.k].op \in OwnOps /\ Rank(p.plan[p.k].op) \in 1..3
        BY <3>0, KeyOpsOwn
    <3>2. p.plan[j].op \in OwnOps /\ Rank(p.plan[j].op) < Rank(p.plan[p.k].op)
        BY <1>2, <2>1, <2>3, <3>1 DEF Ready, WellPlanned
    <3>3. \A op \in KeyOps : Rank(op) > 3
        BY DEF KeyOps, Rank
    <3>4. Rank(p.plan[j].op) \in Nat
        BY <3>2, RankType
    <3> QED
        BY <3>1, <3>2, <3>3, <3>4
  <2> QED
      BY <1>1, <2>1, <2>2, <2>3
<1>3. ASSUME NEW j \in 1..(q.k - 1), q.plan[j].repo = r
      PROVE  Left(g, r, q.sha, q.files, q.plan[j].op)
  <2>1. q.plan[j].op \notin KeyOps
      BY <1>1, <1>2, <1>3
  <2> QED
      BY <2>1, LeftTrivial
<1> QED
    BY <1>1, <1>3 DEF Holder

\* The run itself keeps what it holds.
LEMMA HolderGoes ==
    ASSUME NEW g, GraphOK(g), NEW h, NEW p, Ready(p), NEW q, Goes(g, h, p, q),
           NEW r \in Range(p.scope), Holder(g, p, r)
    PROVE  Holder(h, q, r) /\ Orphans(h, r) \subseteq Orphans(g, r)
<1>0. /\ SamePlan(p, q) /\ q.k \in Nat \ {0} /\ p.k \in 1..Len(p.plan) /\ p.k \in Nat
      /\ q.plan = p.plan /\ q.files = p.files /\ q.sha = p.sha
    BY DEF Goes, SamePlan, Ready, WellPlanned
<1>1. CASE h = g /\ q.k <= p.k
    BY <1>0, <1>1, HolderLower
<1>2. CASE h = Apply(g, p.plan[p.k], p) /\ q.k <= p.k + 1
  <2> DEFINE st == p.plan[p.k]
  <2>1. Effect(g, h, p, st, r)
      BY <1>2, StatementEffect
  <2>2. ASSUME Holder(h, p, r), st.repo = r => Left(h, r, p.sha, p.files, st.op)
        PROVE  Holder(h, q, r)
    <3>1. ASSUME NEW j \in 1..(q.k - 1), p.plan[j].repo = r
          PROVE  Left(h, r, p.sha, p.files, p.plan[j].op)
      <4>1. j \in 1..(p.k - 1) \/ j = p.k
          BY <1>0, <1>2
      <4> QED
          BY <2>2, <3>1, <4>1 DEF Holder
    <3> QED
        BY <1>0, <2>2, <3>1 DEF Holder
  <2>3. CASE SamePart(g, h, r) /\ (st.repo # r \/ st.op \notin KeyOps)
    <3>1. Parsed(p.files)
        BY DEF Ready
    <3>2. Holder(h, p, r) /\ Orphans(h, r) = Orphans(g, r)
        BY <2>3, <3>1, Untouched
    <3>3. st.repo = r => Left(h, r, p.sha, p.files, st.op)
        BY <2>3, LeftTrivial
    <3> QED
        BY <2>2, <3>2, <3>3
  <2>4. CASE /\ st.repo = r /\ st.op \in {"ClearRepo", "DeleteFiles"}
             /\ Orphans(h, r) \subseteq Orphans(g, r)
    <3>1. Orphans(h, r) \subseteq Wanted(p.files, r)
        BY <2>4 DEF Holder
    <3> QED
        BY <1>0, <1>2, <2>4, <3>1, DeleterHolds
  <2>5. CASE /\ st.repo = r /\ st.op \in KeyOps
             /\ Leaves(g, h, r, p.sha, p.files, st.op, Found(g, p, r, st.op))
    <3>1. st = Stmt(st.op, r)
        BY <1>0, <2>5, StatementIs DEF Ready
    <3>2. Found(g, p, r, st.op)
        BY <1>0, <2>5, <3>1, HolderFinds DEF Ready
    <3>3. Left(h, r, p.sha, p.files, st.op) /\ Orphans(h, r) \subseteq Orphans(g, r)
        BY <2>5, <3>2 DEF Leaves
    <3>4. Grown(g, h, Wanted(p.files, r))
        BY <2>5 DEF Leaves
    <3>5. Holder(h, p, r)
        BY <3>4, GrownKeeps
    <3> QED
        BY <2>2, <3>3, <3>5
  <2> QED
      BY <2>1, <2>3, <2>4, <2>5 DEF Effect
<1> QED
    BY <1>1, <1>2 DEF Goes

\* Of the runs that write the same, one still holds or all is settled.
LEMMA OthersGo ==
    ASSUME NEW g, GraphOK(g), NEW h, NEW p, Ready(p), NEW q, Goes(g, h, p, q),
           NEW r, NEW w, w.files = p.files, Holder(g, w, r) \/ Settled(g, w, r)
    PROVE  Holder(h, q, r) \/ Holder(h, w, r) \/ Settled(h, w, r)
<1>0. SamePlan(p, q) /\ q.k \in Nat \ {0} /\ Parsed(w.files)
    BY DEF Goes, Ready
<1>1. CASE h = g
    BY <1>1
<1>2. CASE h = Apply(g, p.plan[p.k], p) /\ q.k <= p.k + 1
  <2> DEFINE st == p.plan[p.k]
  <2>1. Effect(g, h, p, st, r)
      BY <1>2, StatementEffect
  <2>2. CASE SamePart(g, h, r)
      BY <1>0, <2>2, Untouched
  <2>3. CASE /\ st.repo = r /\ st.op \in {"ClearRepo", "DeleteFiles"}
             /\ Orphans(h, r) \subseteq Orphans(g, r)
    <3>1. Orphans(h, r) \subseteq Wanted(p.files, r)
        BY <2>3 DEF Holder, Settled
    <3> QED
        BY <1>0, <1>2, <2>3, <3>1, DeleterHolds
  <2>4. CASE Leaves(g, h, r, p.sha, p.files, st.op, Found(g, p, r, st.op))
    <3>1. Grown(g, h, Wanted(w.files, r))
        BY <2>4 DEF Leaves
    <3> QED
        BY <3>1, GrownKeeps
  <2> QED
      BY <2>1, <2>2, <2>3, <2>4 DEF Effect
<1> QED
    BY <1>1, <1>2 DEF Goes

\* Outside its scope a run changes nothing that clearing follows.
LEMMA OutsideSame ==
    ASSUME NEW g, GraphOK(g), NEW h, NEW p, Ready(p), NEW q, Goes(g, h, p, q),
           NEW r \in Repos, r \notin Range(p.scope)
    PROVE  SamePart(g, h, r)
<1>1. CASE h = g
    BY <1>1 DEF SamePart
<1>2. CASE h = Apply(g, p.plan[p.k], p)
  <2> DEFINE st == p.plan[p.k]
  <2>1. Effect(g, h, p, st, r)
      BY <1>2, StatementEffect
  <2>2. st.op \in OwnOps \cup LinkOps => st.repo \in Range(p.scope)
      BY StatementIs DEF Ready
  <2> QED
      BY <2>1, <2>2, KeyOpsOwn DEF Effect
<1> QED
    BY <1>1, <1>2 DEF Goes

\* A run that writes keeps the graph sound.
LEMMA GoesSound ==
    ASSUME NEW g, GraphOK(g), NEW h, NEW p, Ready(p), NEW q, Goes(g, h, p, q)
    PROVE  GraphOK(h)
<1>1. h = Apply(g, p.plan[p.k], p) => GraphOK(h)
    BY StatementEffect DEF Sound
<1> QED
    BY <1>1 DEF Goes

-----------------------------------------------------------------------------
(***************************************************************************)
(* The record of a run, action by action.                                   *)
(***************************************************************************)
\* A scope is a list of repositories, none twice, and not empty.
LEMMA ScopesOK ==
    ASSUME NEW i \in Indexers, NEW scope \in Scopes[i]
    PROVE  scope \in Seq(Repos) /\ IsInjective(scope) /\ 1 \in 1..Len(scope)
<1>1. scope = RepoOrder \/ \E r \in Repos : scope = <<r>>
    BY IndexerAssumption
<1>2. CASE scope = RepoOrder
  <2>1. RepoOrder \in Seq(Repos) /\ RepoOrder # << >> /\ IsInjective(RepoOrder)
      BY GraphAssumption
  <2> HIDE DEF Repos
  <2>2. Len(RepoOrder) \in Nat /\ Len(RepoOrder) # 0
      BY <2>1
  <2> QED
      BY <1>2, <2>1, <2>2
<1>3. CASE \E r \in Repos : scope = <<r>>
    BY <1>3 DEF IsInjective
<1> QED
    BY <1>1, <1>2, <1>3

\* The fields of a run that writing does not change.
Kept(p, q) ==
    /\ SamePlan(p, q) /\ DOMAIN q = DOMAIN p /\ q.met = p.met
    /\ q.known = p.known /\ q.changed = p.changed /\ q.idx = p.idx

\* A run that goes on with the same plan stays in order.
LEMMA KeptOK ==
    ASSUME NEW p, RunOK(p), p.pc = "write", NEW q, Kept(p, q),
           q.att \in 1..MaxAttempts, q.datt \in 1..MaxAttempts, q.k \in Nat \ {0},
           q.pc \in {"write", "done", "failed"}, q.pc = "write" => q.k <= Len(q.plan) + 1
    PROVE  RunOK(q)
<1>1. WellPlanned(q)
    BY WellPlannedSame DEF Kept, RunOK
<1> QED
    BY <1>1 DEF Kept, SamePlan, RunOK, Stages

\* The statement a deletion's retry goes back to is behind it.
LEMMA DeleteStart ==
    ASSUME NEW p, RunOK(p), p.pc = "write", p.k \in 1..Len(p.plan), p.plan[p.k].op \in DeleteOps
    PROVE  \E j \in 1..p.k : p.plan[j] = Stmt("DeleteFeatures", p.plan[p.k].repo)
<1> DEFINE op == p.plan[p.k].op
           r == p.plan[p.k].repo
<1>1. WellPlanned(p) /\ Len(p.plan) \in Nat
    BY SMTT(30) DEF RunOK, WellPlanned
<1>2. "DeleteFeatures" \in OwnOps /\ op \in OwnOps
    BY DEF OwnOps, Destructive, DeleteOps
<1>3. p.plan[p.k] = Stmt(op, r) /\ r \in Range(p.scope)
    BY <1>1, <1>2, StatementIs
<1>4. PlannedOp(p, r, op)
    BY <1>1, <1>2 DEF WellPlanned
<1>5. PlannedOp(p, r, "DeleteFeatures")
    BY <1>4 DEF PlannedOp, ClearOps, DeleteOps, FeatureLabels, HttpLabels, KafkaLabels
<1>6. CASE op = "DeleteFeatures"
    BY <1>3, <1>6
<1>7. CASE op # "DeleteFeatures"
  <2>1. Rank("DeleteFeatures") < Rank(op)
    <3>1. \A o \in DeleteOps : o # "DeleteFeatures" => Rank("DeleteFeatures") < Rank(o)
        BY DEF Rank, DeleteOps
    <3> QED
        BY <1>7, <3>1
  <2> HIDE DEF op, r
  <2>2. PICK j \in 1..(p.k - 1) : p.plan[j] = Stmt("DeleteFeatures", r)
      BY <1>1, <1>2, <1>3, <1>5, <2>1, Earlier
  <2>3. j \in 1..p.k
      BY <1>1
  <2> QED
      BY <2>2, <2>3 DEF r
<1> QED
    BY <1>6, <1>7

\* After an error the run goes back, or gives up.
LEMMA RetryIs ==
    ASSUME NEW p, RunOK(p), p.pc = "write", p.k \in 1..Len(p.plan),
           NEW q, q = Retry(p, p.plan[p.k])
    PROVE  /\ Kept(p, q) /\ q.att \in 1..MaxAttempts /\ q.datt \in 1..MaxAttempts
           /\ q.k \in Nat \ {0} /\ q.k <= p.k /\ q.pc \in {"write", "failed"}
<1> DEFINE st == p.plan[p.k]
           first == CHOOSE j \in 1..p.k : p.plan[j] = Stmt("DeleteFeatures", st.repo)
<1>0. /\ DOMAIN p = Fields /\ p.k \in Nat \ {0} /\ MaxAttempts \in Nat \ {0}
      /\ p.att \in 1..MaxAttempts /\ p.datt \in 1..MaxAttempts
    BY IndexerAssumption DEF RunOK
<1>1. CASE st.op \in DeleteOps /\ p.datt < MaxAttempts
  <2>1. q = [p EXCEPT !.k = first, !.datt = @ + 1]
    <3>1. ~((st.op \notin DeleteOps \/ p.datt = MaxAttempts) /\ p.att < MaxAttempts)
        BY <1>0, <1>1
    <3> QED
        BY <1>1, <3>1 DEF Retry
  <2>2. first \in 1..p.k
      BY <1>1, DeleteStart
  <2> HIDE DEF first
  <2>3. q.k = first /\ q.datt = p.datt + 1 /\ q.att = p.att /\ q.pc = "write" /\ Kept(p, q)
      BY <1>0, <2>1 DEF Fields, Kept, SamePlan
  <2> QED
      BY <1>0, <1>1, <2>2, <2>3
<1>2. CASE (st.op \notin DeleteOps \/ p.datt = MaxAttempts) /\ p.att < MaxAttempts
  <2>1. q = [p EXCEPT !.k = 1, !.att = @ + 1, !.datt = 1]
      BY <1>0, <1>2 DEF Retry
  <2>2. q.k = 1 /\ q.datt = 1 /\ q.att = p.att + 1 /\ q.pc = "write" /\ Kept(p, q)
      BY <1>0, <2>1 DEF Fields, Kept, SamePlan
  <2> QED
      BY <1>0, <1>2, <2>2
<1>3. CASE ~(st.op \in DeleteOps /\ p.datt < MaxAttempts)
           /\ ~((st.op \notin DeleteOps \/ p.datt = MaxAttempts) /\ p.att < MaxAttempts)
  <2>1. q = [p EXCEPT !.pc = "failed"]
      BY <1>3 DEF Retry
  <2>2. q.k = p.k /\ q.datt = p.datt /\ q.att = p.att /\ q.pc = "failed" /\ Kept(p, q)
      BY <1>0, <2>1 DEF Fields, Kept, SamePlan
  <2> QED
      BY <1>0, <2>2
<1> QED
    BY <1>1, <1>2, <1>3

\* A run and its successor while it writes.
WriteOn(i) ==
    /\ AtStatement(i)
    /\ Goes(graph, graph', proc[i], proc'[i])
    /\ Kept(proc[i], proc'[i]) /\ RunOK(proc'[i]) /\ proc'[i].pc \in {"write", "failed"}
    /\ DOMAIN proc' = Indexers /\ \A j \in Indexers \ {i} : proc'[j] = proc[j]

\* A run at a statement is in the middle of its plan.
LEMMA AtStatementReady ==
    ASSUME NEW i \in Indexers, RunOK(proc[i]), AtStatement(i)
    PROVE  Ready(proc[i]) /\ proc[i].k \in 1..Len(proc[i].plan) /\ proc[i].pc = "write"
<1>1. proc[i].pc = "write" /\ proc[i].k <= Len(proc[i].plan) /\ proc[i].k \in Nat \ {0}
    BY DEF AtStatement, RunOK
<1>2. WellPlanned(proc[i]) /\ Len(proc[i].plan) \in Nat
    BY <1>1 DEF RunOK, WellPlanned
<1> QED
    BY <1>1, <1>2 DEF Ready, RunOK

\* A statement that commits.
LEMMA WriteStepIs ==
    ASSUME RunsOK, NEW i \in Indexers, WriteStep(i)
    PROVE  WriteOn(i) /\ proc'[i].pc = "write" /\ UNCHANGED tangled
<1> DEFINE p == proc[i]
           q == proc'[i]
           x == IF Current(i).op = "DeleteFiles" THEN 1 ELSE p.datt
<1>1. RunOK(p) /\ AtStatement(i) /\ DOMAIN proc = Indexers /\ DOMAIN p = Fields
    BY DEF RunsOK, WriteStep, RunOK
<1>2. Ready(p) /\ p.k \in 1..Len(p.plan) /\ p.pc = "write"
    BY <1>1, AtStatementReady
<1>3. q = [p EXCEPT !.k = @ + 1, !.datt = x]
    BY <1>1 DEF WriteStep
<1>4. /\ graph' = Apply(graph, p.plan[p.k], p) /\ UNCHANGED tangled
      /\ DOMAIN proc' = Indexers /\ \A j \in Indexers \ {i} : proc'[j] = proc[j]
    BY <1>1 DEF WriteStep, Current
<1>5. /\ MaxAttempts \in Nat \ {0} /\ p.datt \in 1..MaxAttempts
      /\ p.att \in 1..MaxAttempts /\ Len(p.plan) \in Nat
    BY <1>1, <1>2, IndexerAssumption DEF RunOK, WellPlanned
<1>6. x \in 1..MaxAttempts
    BY <1>5
<1> HIDE DEF x
<1>7. q.k = p.k + 1 /\ q.datt = x /\ q.att = p.att /\ q.pc = "write" /\ Kept(p, q)
    BY <1>1, <1>2, <1>3 DEF Fields, Kept, SamePlan
<1>8. q.plan = p.plan
    BY <1>7 DEF Kept, SamePlan
<1>9. Goes(graph, graph', p, q)
    BY <1>2, <1>4, <1>5, <1>7 DEF Goes, Kept
<1>10. q.k \in Nat \ {0} /\ q.k <= Len(q.plan) + 1
    BY <1>2, <1>5, <1>7, <1>8
<1>11. RunOK(q)
    BY <1>1, <1>2, <1>5, <1>6, <1>7, <1>10, KeptOK
<1> QED
    BY <1>1, <1>4, <1>7, <1>9, <1>11 DEF WriteOn

\* A statement that fails, before or after it committed.
LEMMA TransientErrorIs ==
    ASSUME RunsOK, NEW i \in Indexers, TransientError(i)
    PROVE  /\ WriteOn(i)
           /\ proc'[i].pc = "write" => UNCHANGED tangled
           /\ proc'[i].pc # "write" => tangled' = tangled \cup proc[i].met
<1> DEFINE p == proc[i]
           q == proc'[i]
<1>1. RunOK(p) /\ AtStatement(i) /\ DOMAIN proc = Indexers /\ DOMAIN p = Fields
    BY DEF RunsOK, TransientError, RunOK
<1>2. Ready(p) /\ p.k \in 1..Len(p.plan) /\ p.pc = "write"
    BY <1>1, AtStatementReady
<1>3. q = Retry(p, p.plan[p.k])
    BY <1>1 DEF TransientError, Current
<1>4. /\ Kept(p, q) /\ q.att \in 1..MaxAttempts /\ q.datt \in 1..MaxAttempts
      /\ q.k \in Nat \ {0} /\ q.k <= p.k /\ q.pc \in {"write", "failed"}
    BY <1>1, <1>2, <1>3, RetryIs
<1>5. /\ graph' = graph \/ graph' = Apply(graph, p.plan[p.k], p)
      /\ DOMAIN proc' = Indexers /\ \A j \in Indexers \ {i} : proc'[j] = proc[j]
    BY <1>1 DEF TransientError, Current
<1>6. /\ q.pc = "failed" => tangled' = tangled \cup p.met
      /\ q.pc # "failed" => UNCHANGED tangled
    BY DEF TransientError, Dies
<1>7. q.plan = p.plan /\ p.k \in Nat /\ Len(p.plan) \in Nat
    BY <1>2, <1>4 DEF Kept, SamePlan, Ready, WellPlanned
<1>8. q.k <= Len(q.plan) + 1
    BY <1>2, <1>4, <1>7
<1>9. RunOK(q)
    BY <1>1, <1>2, <1>4, <1>8, KeptOK
<1>10. Goes(graph, graph', p, q)
    BY <1>4, <1>5, <1>7 DEF Goes, Kept
<1> QED
    BY <1>1, <1>4, <1>5, <1>6, <1>9, <1>10 DEF WriteOn

\* A run that ends, whether it returns or dies.
Ends(i) ==
    /\ proc[i].pc = "write" /\ proc'[i].pc # "write" /\ RunOK(proc'[i]) /\ UNCHANGED graph
    /\ DOMAIN proc' = Indexers /\ \A j \in Indexers \ {i} : proc'[j] = proc[j]

\* A run whose statements have all run.
LEMMA FinishIs ==
    ASSUME RunsOK, NEW i \in Indexers, Finish(i)
    PROVE  Ends(i) /\ UNCHANGED tangled /\ proc[i].k = Len(proc[i].plan) + 1
<1> DEFINE p == proc[i]
           q == proc'[i]
<1>1. RunOK(p) /\ p.pc = "write" /\ DOMAIN proc = Indexers /\ DOMAIN p = Fields /\ WellPlanned(p)
    BY DEF RunsOK, Finish, RunOK
<1>2. q = [p EXCEPT !.pc = "done"]
    BY <1>1 DEF Finish
<1>3. q.pc = "done" /\ q.k = p.k /\ q.att = p.att /\ q.datt = p.datt /\ Kept(p, q)
    BY <1>1, <1>2 DEF Fields, Kept, SamePlan
<1>4. RunOK(q)
  <2>1. q.att \in 1..MaxAttempts /\ q.datt \in 1..MaxAttempts /\ q.k \in Nat \ {0}
      BY <1>1, <1>3 DEF RunOK
  <2> QED
      BY <1>1, <1>3, <2>1, KeptOK
<1>5. DOMAIN proc' = Indexers /\ \A j \in Indexers \ {i} : proc'[j] = proc[j]
    BY <1>1 DEF Finish
<1>6. p.k \in Nat /\ Len(p.plan) \in Nat /\ p.k > Len(p.plan) /\ p.k <= Len(p.plan) + 1
    BY <1>1 DEF RunOK, WellPlanned, Finish
<1>7. UNCHANGED <<graph, tangled>>
    BY DEF Finish
<1> QED
    BY <1>1, <1>3, <1>4, <1>5, <1>6, <1>7 DEF Ends

\* No run is in order.
LEMMA NoRunOK == RunOK(NoRun)
<1> DEFINE p == NoRun
<1>1. /\ DOMAIN p = Fields /\ p.pc = "idle" /\ p.mode = "full" /\ p.scope = << >>
      /\ p.files = << >> /\ p.known = << >> /\ p.changed = {} /\ p.deleted = {}
      /\ p.att = 1 /\ p.datt = 1 /\ p.k = 1
    BY DEF NoRun, Fields
<1>2. DOMAIN << >> = {}
    OBVIOUS
<1>3. << >> \in Seq(Repos) /\ IsInjective(<< >>)
    BY <1>2 DEF IsInjective
<1>4. Parsed(<< >>)
    BY <1>2 DEF Parsed
<1> HIDE DEF p
<1>5. RunOK(p)
    BY <1>1, <1>2, <1>3, <1>4, IndexerAssumption DEF RunOK, Stages
<1> QED
    BY <1>5 DEF p

\* A run that dies.
LEMMA CrashIs ==
    ASSUME RunsOK, NEW i \in Indexers, Crash(i)
    PROVE  Ends(i) /\ proc'[i].pc = "idle" /\ tangled' = tangled \cup proc[i].met
<1>1. DOMAIN proc = Indexers /\ proc[i].pc = "write"
    BY DEF RunsOK, Crash
<1>2. proc'[i] = NoRun /\ DOMAIN proc' = Indexers /\ \A j \in Indexers \ {i} : proc'[j] = proc[j]
    BY <1>1 DEF Crash
<1>3. NoRun.pc = "idle"
    BY DEF NoRun
<1>4. UNCHANGED graph /\ tangled' = tangled \cup proc[i].met
    BY DEF Crash, Dies
<1> QED
    BY <1>1, <1>2, <1>3, <1>4, NoRunOK DEF Ends

\* A run that reads, before and after: nothing else changes.
Reads(i) ==
    /\ proc[i].pc # "write" /\ proc'[i].pc # "write" /\ RunOK(proc'[i])
    /\ UNCHANGED <<graph, tangled>>
    /\ DOMAIN proc' = Indexers /\ \A j \in Indexers \ {i} : proc'[j] = proc[j]

ReadStages == {"fetch", "diff", "walk"}

\* What reading changes of a run, and what it does not.
ReadOn(p, q) ==
    /\ DOMAIN q = Fields /\ q.idx \in 1..Len(p.scope)
    /\ q.mode = p.mode /\ q.scope = p.scope /\ q.sha = p.sha
    /\ q.k = p.k /\ q.att = p.att /\ q.datt = p.datt
    /\ DOMAIN q.known \subseteq Paths /\ q.changed \subseteq Paths /\ q.deleted \subseteq Paths
    /\ Parsed(q.files)

\* A run that goes on reading stays in order.
LEMMA ReadOnOK ==
    ASSUME NEW p, RunOK(p), p.pc \in ReadStages, NEW q, ReadOn(p, q), q.pc \in ReadStages
    PROVE  RunOK(q)
BY DEF RunOK, ReadOn, ReadStages, Stages

\* What the fields of a run are while it reads.
LEMMA ReadingOK ==
    ASSUME NEW p, RunOK(p), p.pc \in ReadStages
    PROVE  /\ DOMAIN p = Fields /\ p.idx \in 1..Len(p.scope) /\ Len(p.scope) \in Nat
           /\ DOMAIN p.known \subseteq Paths /\ p.changed \subseteq Paths /\ p.deleted \subseteq Paths
           /\ Parsed(p.files) /\ p.scope[p.idx] \in Repos /\ p.k = 1
BY DEF RunOK, ReadStages

\* On to the next repository of the scope, or the next stage.
LEMMA NextRepoIs ==
    ASSUME NEW p, DOMAIN p = Fields, p.idx \in 1..Len(p.scope), Len(p.scope) \in Nat,
           NEW loop, NEW next, NEW q, q = NextRepo(p, loop, next)
    PROVE  /\ DOMAIN q = Fields /\ q.idx \in 1..Len(p.scope) /\ q.pc \in {loop, next}
           /\ q.mode = p.mode /\ q.scope = p.scope /\ q.sha = p.sha
           /\ q.k = p.k /\ q.att = p.att /\ q.datt = p.datt
           /\ q.known = p.known /\ q.changed = p.changed /\ q.deleted = p.deleted /\ q.files = p.files
<1>1. CASE p.idx = Len(p.scope)
  <2>1. q = [p EXCEPT !.pc = next, !.idx = 1]
      BY <1>1 DEF NextRepo
  <2> QED
      BY <2>1 DEF Fields
<1>2. CASE p.idx # Len(p.scope)
  <2>1. q = [p EXCEPT !.pc = loop, !.idx = @ + 1]
      BY <1>2 DEF NextRepo
  <2> QED
      BY <1>2, <2>1 DEF Fields
<1> QED
    BY <1>1, <1>2

\* A run that starts.
LEMMA StartRunIs ==
    ASSUME RunsOK, NEW i \in Indexers, NEW mode \in Modes, NEW scope \in Scopes[i], NEW sha \in Shas,
           StartRun(i, mode, scope, sha)
    PROVE  Reads(i)
<1> DEFINE q == proc'[i]
           pc == IF mode = "delta" THEN "fetch" ELSE "walk"
<1>1. DOMAIN proc = Indexers /\ proc[i].pc # "write"
    BY DEF RunsOK, StartRun, Running
<1>2. q = [NoRun EXCEPT !.pc = pc, !.mode = mode, !.scope = scope, !.sha = sha]
    BY <1>1 DEF StartRun
<1>3. /\ UNCHANGED <<graph, tangled>>
      /\ DOMAIN proc' = Indexers /\ \A j \in Indexers \ {i} : proc'[j] = proc[j]
    BY <1>1 DEF StartRun
<1>4. pc \in {"fetch", "walk"}
    OBVIOUS
<1> HIDE DEF pc
<1>5. DOMAIN NoRun = Fields
    BY DEF NoRun, Fields
<1>6. /\ DOMAIN q = Fields /\ q.pc = pc /\ q.mode = mode /\ q.scope = scope
      /\ q.idx = NoRun.idx /\ q.files = NoRun.files /\ q.known = NoRun.known
      /\ q.changed = NoRun.changed /\ q.deleted = NoRun.deleted
      /\ q.att = NoRun.att /\ q.datt = NoRun.datt /\ q.k = NoRun.k
    BY <1>2, <1>5 DEF Fields
<1>7. NoRun.idx = 1 /\ NoRun.k = 1
    BY DEF NoRun
<1>8. mode \in {"full", "delta"}
    BY IndexerAssumption
<1>9. scope \in Seq(Repos) /\ IsInjective(scope) /\ 1 \in 1..Len(scope)
    BY ScopesOK
<1>10. RunOK(q)
    BY <1>4, <1>6, <1>7, <1>8, <1>9, NoRunOK DEF RunOK, Stages
<1> QED
    BY <1>1, <1>3, <1>4, <1>6, <1>10 DEF Reads

\* What an update is of,
LEMMA OverDomain == \A f, g : DOMAIN Over(f, g) = DOMAIN f \cup DOMAIN g
BY DEF Over

\* and that files over files are files.
LEMMA OverParsed == ASSUME NEW F, NEW G, Parsed(F), Parsed(G) PROVE Parsed(Over(F, G))
BY DEF Over, Parsed

\* The hashes a run reads are those of files.
LEMMA HashesOK ==
    ASSUME NEW g, GraphOK(g), NEW r
    PROVE  DOMAIN ExistingHashes(g, r) \subseteq Paths
<1>1. DOMAIN ExistingHashes(g, r) = {n[3] : n \in FilesOf(g, r)}
    BY DEF ExistingHashes, FilesOf, Commits
<1>2. ASSUME NEW n \in FilesOf(g, r) PROVE n[3] \in Paths
  <2>1. PICK e \in g.edge : e[2] = "CONTAINS" /\ e[3] = n
      BY DEF FilesOf, Out
  <2>2. n \in DOMAIN g.node /\ n[1] = "File"
      BY <2>1 DEF GraphOK, NoDangling, EdgeOK, Exists
  <2> QED
      BY <2>2 DEF GraphOK, NodeOK
<1> QED
    BY <1>1, <1>2

\* Fetching hashes is reading.
LEMMA FetchHashesIs ==
    ASSUME RunsOK, GraphOK(graph), NEW i \in Indexers, FetchHashes(i)
    PROVE  Reads(i)
<1> DEFINE p == proc[i]
           q == proc'[i]
           known == Over(ExistingHashes(graph, p.scope[p.idx]), p.known)
           x == [p EXCEPT !.known = known]
<1>1. RunOK(p) /\ p.pc = "fetch" /\ DOMAIN proc = Indexers
    BY DEF RunsOK, FetchHashes
<1>2. q = NextRepo(x, "fetch", "diff")
    BY <1>1 DEF FetchHashes
<1>3. /\ UNCHANGED <<graph, tangled>>
      /\ DOMAIN proc' = Indexers /\ \A j \in Indexers \ {i} : proc'[j] = proc[j]
    BY <1>1 DEF FetchHashes
<1>4. p.pc \in ReadStages
    BY <1>1 DEF ReadStages
<1>5. /\ DOMAIN p = Fields /\ p.idx \in 1..Len(p.scope) /\ Len(p.scope) \in Nat
      /\ DOMAIN p.known \subseteq Paths /\ p.changed \subseteq Paths /\ p.deleted \subseteq Paths
      /\ Parsed(p.files)
    BY <1>1, <1>4, ReadingOK
<1>6. DOMAIN known \subseteq Paths
    BY <1>5, HashesOK, OverDomain
<1> HIDE DEF known
<1>7. /\ DOMAIN x = Fields /\ x.known = known /\ x.idx = p.idx /\ x.scope = p.scope /\ x.mode = p.mode
      /\ x.sha = p.sha /\ x.k = p.k /\ x.att = p.att /\ x.datt = p.datt /\ x.changed = p.changed
      /\ x.deleted = p.deleted /\ x.files = p.files
    BY <1>5 DEF Fields
<1> HIDE DEF x
<1>8. /\ DOMAIN q = Fields /\ q.idx \in 1..Len(x.scope) /\ q.pc \in {"fetch", "diff"}
      /\ q.mode = x.mode /\ q.scope = x.scope /\ q.sha = x.sha
      /\ q.k = x.k /\ q.att = x.att /\ q.datt = x.datt
      /\ q.known = x.known /\ q.changed = x.changed /\ q.deleted = x.deleted /\ q.files = x.files
    BY <1>2, <1>5, <1>7, NextRepoIs
<1>9. ReadOn(p, q)
    BY <1>5, <1>6, <1>7, <1>8 DEF ReadOn
<1>10. RunOK(q)
    BY <1>1, <1>4, <1>8, <1>9, ReadOnOK DEF ReadStages
<1> QED
    BY <1>1, <1>3, <1>8, <1>10 DEF Reads

\* Source files are paths.
LEMMA SourceFilesOK == ASSUME NEW r PROVE SourceFiles(r) \subseteq Paths
BY DEF SourceFiles

\* So is the diff.
LEMMA DiffRepoIs ==
    ASSUME RunsOK, NEW i \in Indexers, NEW unread \in SUBSET Paths, DiffRepo(i, unread)
    PROVE  Reads(i)
<1> DEFINE p == proc[i]
           q == proc'[i]
           seen == SourceFiles(p.scope[p.idx]) \ unread
           mine == {f \in DOMAIN p.known : RepoOf[f] = p.scope[p.idx]}
           same == {f \in seen \cap mine : p.known[f] = disk[f]}
           changed == p.changed \cup (seen \ same)
           deleted == p.deleted \cup (mine \ seen)
<1>1. RunOK(p) /\ p.pc = "diff" /\ DOMAIN proc = Indexers
    BY DEF RunsOK, DiffRepo
<1>2. q = [p EXCEPT !.changed = changed, !.deleted = deleted, !.pc = "walk"]
    BY <1>1 DEF DiffRepo
<1>3. /\ UNCHANGED <<graph, tangled>>
      /\ DOMAIN proc' = Indexers /\ \A j \in Indexers \ {i} : proc'[j] = proc[j]
    BY <1>1 DEF DiffRepo
<1>4. p.pc \in ReadStages
    BY <1>1 DEF ReadStages
<1>5. /\ DOMAIN p = Fields /\ p.idx \in 1..Len(p.scope) /\ Len(p.scope) \in Nat
      /\ DOMAIN p.known \subseteq Paths /\ p.changed \subseteq Paths /\ p.deleted \subseteq Paths
      /\ Parsed(p.files)
    BY <1>1, <1>4, ReadingOK
<1>6. changed \subseteq Paths /\ deleted \subseteq Paths
    BY <1>5, SourceFilesOK
<1> HIDE DEF changed, deleted
<1>7. /\ DOMAIN q = Fields /\ q.changed = changed /\ q.deleted = deleted /\ q.pc = "walk"
      /\ q.idx = p.idx /\ q.scope = p.scope /\ q.mode = p.mode /\ q.sha = p.sha /\ q.k = p.k
      /\ q.att = p.att /\ q.datt = p.datt /\ q.known = p.known /\ q.files = p.files
    BY <1>2, <1>5 DEF Fields
<1>8. ReadOn(p, q)
    BY <1>5, <1>6, <1>7 DEF ReadOn
<1>9. RunOK(q)
    BY <1>1, <1>4, <1>7, <1>8, ReadOnOK DEF ReadStages
<1> QED
    BY <1>1, <1>3, <1>7, <1>9 DEF Reads

\* What the files of a repository yield when they are walked.
LEMMA WalkedOK ==
    ASSUME disk \in [Paths -> Contents \cup {Absent}], NEW r,
           NEW parsed, parsed \subseteq {f \in SourceFiles(r) : disk[f] \notin Unparsable}
    PROVE  Parsed([f \in parsed |-> disk[f]])
<1>1. ASSUME NEW f \in parsed PROVE f \in Paths /\ disk[f] \in DOMAIN Parse[f]
  <2>1. f \in Paths /\ disk[f] \in Contents \cup {Absent} /\ disk[f] \notin {Absent} \cup Oversize
        /\ disk[f] \notin Unparsable
      BY DEF SourceFiles
  <2> QED
      BY <2>1, IndexerAssumption
<1> QED
    BY <1>1 DEF Parsed

\* The run i begins to write; the others note it.
Begins(i) ==
    /\ proc[i].pc # "write" /\ proc'[i].pc = "write" /\ RunOK(proc'[i]) /\ proc'[i].k = 1
    /\ proc'[i].plan = Plan(proc'[i])
    /\ UNCHANGED graph /\ DOMAIN proc' = Indexers
    /\ \A j \in Indexers \ {i} : proc[j].pc # "write" => proc'[j] = proc[j]
    /\ \A j \in Indexers \ {i} : proc[j].pc = "write" =>
          /\ proc'[j].pc = "write" /\ SamePlan(proc[j], proc'[j]) /\ proc'[j].k = proc[j].k
          /\ RunOK(proc'[j])
          /\ proc'[j].met = proc[j].met \cup (Range(proc'[i].scope) \cap Range(proc[j].scope))
          /\ Range(proc'[i].scope) \cap Range(proc[j].scope) \subseteq proc'[i].met
          /\ ~ Alike(proc'[i], proc[j]) =>
                Range(proc'[i].scope) \cap Range(proc[j].scope) \subseteq tangled'
    /\ tangled \subseteq tangled' /\ tangled' \subseteq Repos
    /\ \/ tangled' = tangled /\ proc'[i].met = {}
       \/ \E j \in Indexers \ {i} : Range(proc'[i].scope) \cap Range(proc[j].scope) # {}

\* The runs that are writing take note of one that begins.
LEMMA BeginWriteIs ==
    ASSUME RunsOK, tangled \subseteq Repos, UNCHANGED graph, NEW i \in Indexers, proc[i].pc \in ReadStages,
           NEW p, ReadOn(proc[i], p), p.pc = "write", BeginWrite(i, p)
    PROVE  Begins(i)
<1> DEFINE writing == {j \in Indexers \ {i} : proc[j].pc = "write"}
           shared(j) == Range(p.scope) \cap Range(proc[j].scope)
           met == UNION {shared(w) : w \in writing}
           q == proc'[i]
<1>1. proc' = [j \in Indexers |->
                 CASE j = i -> [p EXCEPT !.plan = Plan(p), !.met = met]
                   [] j \in writing -> [proc[j] EXCEPT !.met = @ \cup shared(j)]
                   [] OTHER -> proc[j]]
    BY DEF BeginWrite
<1>2. tangled' = tangled \cup UNION {shared(j) : j \in {w \in writing : ~Alike(p, proc[w])}}
    BY DEF BeginWrite
<1>3. q = [p EXCEPT !.plan = Plan(p), !.met = met]
    BY <1>1
<1>4. RunOK(proc[i]) /\ DOMAIN p = Fields /\ p.k = 1
    BY ReadingOK DEF RunsOK, ReadOn
<1>5. proc[i].pc # "write"
    BY DEF ReadStages
<1> HIDE DEF met
<1>6. /\ DOMAIN q = Fields /\ q.plan = Plan(p) /\ q.met = met /\ q.pc = "write" /\ q.k = 1
      /\ q.mode = p.mode /\ q.scope = p.scope /\ q.sha = p.sha /\ q.files = p.files
      /\ q.deleted = p.deleted /\ q.known = p.known /\ q.changed = p.changed
      /\ q.att = p.att /\ q.datt = p.datt
    BY <1>3, <1>4 DEF Fields
<1>7. p.scope \in Seq(Repos) /\ IsInjective(p.scope)
    BY <1>4 DEF RunOK, ReadOn
<1>8. p.scope \in Seq(Range(p.scope)) /\ Range(p.scope) \subseteq Repos
    BY <1>7 DEF Range
<1>9. WellPlanned(q)
    BY <1>6, <1>7, <1>8, PlanWell
<1>10. met \subseteq Range(p.scope)
    BY DEF met
<1>11. RunOK(q)
  <2>1. Len(q.plan) \in Nat
      BY <1>9 DEF WellPlanned
  <2>2. q.k <= Len(q.plan) + 1
      BY <1>6, <2>1
  <2>3. /\ q.mode \in {"full", "delta"} /\ q.att \in 1..MaxAttempts /\ q.datt \in 1..MaxAttempts
        /\ DOMAIN q.known \subseteq Paths /\ q.changed \subseteq Paths /\ q.deleted \subseteq Paths
        /\ Parsed(q.files)
      BY <1>4, <1>6 DEF RunOK, ReadOn
  <2> QED
      BY <1>6, <1>7, <1>9, <1>10, <2>2, <2>3 DEF RunOK, Stages
<1>12. ASSUME NEW j \in Indexers \ {i}, proc[j].pc # "write" PROVE proc'[j] = proc[j]
  <2>1. j # i /\ j \notin writing
      BY <1>12
  <2> QED
      BY <1>1, <2>1
<1>13. ASSUME NEW j \in Indexers \ {i}, proc[j].pc = "write"
       PROVE  /\ proc'[j].pc = "write" /\ SamePlan(proc[j], proc'[j]) /\ proc'[j].k = proc[j].k
              /\ RunOK(proc'[j])
              /\ proc'[j].met = proc[j].met \cup (Range(q.scope) \cap Range(proc[j].scope))
              /\ Range(q.scope) \cap Range(proc[j].scope) \subseteq q.met
              /\ ~ Alike(q, proc[j]) => Range(q.scope) \cap Range(proc[j].scope) \subseteq tangled'
  <2> DEFINE w == proc'[j]
             o == proc[j]
  <2>1. j # i /\ j \in writing
      BY <1>13
  <2>2. w = [o EXCEPT !.met = @ \cup shared(j)]
      BY <1>1, <2>1
  <2>3. RunOK(o) /\ DOMAIN o = Fields
      BY DEF RunsOK, RunOK
  <2>4. /\ DOMAIN w = Fields /\ w.met = o.met \cup shared(j) /\ w.pc = o.pc /\ w.k = o.k
        /\ w.mode = o.mode /\ w.scope = o.scope /\ w.sha = o.sha /\ w.files = o.files
        /\ w.deleted = o.deleted /\ w.known = o.known /\ w.changed = o.changed
        /\ w.att = o.att /\ w.datt = o.datt /\ w.plan = o.plan
      BY <2>2, <2>3 DEF Fields
  <2>5. SamePlan(o, w)
      BY <2>4 DEF SamePlan
  <2>6. WellPlanned(w)
      BY <1>13, <2>3, <2>5, WellPlannedSame DEF RunOK
  <2>7. shared(j) = Range(q.scope) \cap Range(o.scope)
      BY <1>6
  <2>8. shared(j) \subseteq met
      BY <2>1 DEF met
  <2>9. RunOK(w)
      BY <1>13, <2>3, <2>4, <2>6 DEF RunOK, Stages
  <2>10. ~ Alike(q, o) => shared(j) \subseteq tangled'
    <3>1. Alike(q, o) <=> Alike(p, o)
        BY <1>6 DEF Alike
    <3> QED
        BY <1>2, <2>1, <3>1
  <2> QED
      BY <1>6, <1>13, <2>4, <2>5, <2>7, <2>8, <2>9, <2>10
<1>14. tangled \subseteq tangled' /\ tangled' \subseteq Repos
    BY <1>2, <1>8
<1>15. DOMAIN proc' = Indexers
    BY <1>1
<1>16. ASSUME \A j \in Indexers \ {i} : Range(q.scope) \cap Range(proc[j].scope) = {}
       PROVE  tangled' = tangled /\ q.met = {}
  <2>1. \A w \in writing : shared(w) = {}
      BY <1>6, <1>16
  <2>2. met = {}
      BY <2>1 DEF met
  <2> QED
      BY <1>2, <1>6, <2>1, <2>2
<1>17. q.plan = Plan(q)
    BY <1>6, PlanSame
<1> QED
    BY <1>5, <1>6, <1>11, <1>12, <1>13, <1>14, <1>15, <1>16, <1>17 DEF Begins

\* Walking a repository is reading, or after the last one begins the writing.
LEMMA WalkRepoIs ==
    ASSUME RunsOK, disk \in [Paths -> Contents \cup {Absent}], tangled \subseteq Repos,
           NEW i \in Indexers, NEW unread \in SUBSET Paths, WalkRepo(i, unread)
    PROVE  Reads(i) \/ Begins(i)
<1> DEFINE p == proc[i]
           r == p.scope[p.idx]
           wanted == IF p.mode = "delta" THEN SourceFiles(r) \cap p.changed ELSE SourceFiles(r)
           parsed == {q \in wanted \ unread : disk[q] \notin Unparsable}
           files == Over(p.files, [q \in parsed |-> disk[q]])
           x == [p EXCEPT !.files = files]
           loop == IF p.mode = "delta" THEN "diff" ELSE "walk"
           read == NextRepo(x, loop, "write")
<1>1. RunOK(p) /\ p.pc = "walk" /\ DOMAIN proc = Indexers
    BY DEF RunsOK, WalkRepo
<1>2. /\ read.pc = "write" => BeginWrite(i, read)
      /\ read.pc # "write" => proc' = [proc EXCEPT ![i] = read] /\ UNCHANGED tangled
      /\ UNCHANGED graph
  <2>1. IF read.pc = "write" THEN BeginWrite(i, read)
        ELSE proc' = [proc EXCEPT ![i] = read] /\ UNCHANGED tangled
      BY DEF WalkRepo
  <2>2. UNCHANGED graph
      BY DEF WalkRepo
  <2> HIDE DEF read
  <2> QED
      BY <2>1, <2>2
<1>3. p.pc \in ReadStages
    BY <1>1 DEF ReadStages
<1>4. /\ DOMAIN p = Fields /\ p.idx \in 1..Len(p.scope) /\ Len(p.scope) \in Nat
      /\ DOMAIN p.known \subseteq Paths /\ p.changed \subseteq Paths /\ p.deleted \subseteq Paths
      /\ Parsed(p.files)
    BY <1>1, <1>3, ReadingOK
<1>5. Parsed(files)
  <2>1. parsed \subseteq {f \in SourceFiles(r) : disk[f] \notin Unparsable}
      OBVIOUS
  <2> HIDE DEF parsed
  <2>2. Parsed([f \in parsed |-> disk[f]])
      BY <2>1, WalkedOK
  <2> QED
      BY <1>4, <2>2, OverParsed
<1> HIDE DEF files
<1>6. /\ DOMAIN x = Fields /\ x.known = p.known /\ x.idx = p.idx /\ x.scope = p.scope /\ x.mode = p.mode
      /\ x.sha = p.sha /\ x.k = p.k /\ x.att = p.att /\ x.datt = p.datt /\ x.changed = p.changed
      /\ x.deleted = p.deleted /\ x.files = files
    BY <1>4 DEF Fields
<1>7. loop \in {"diff", "walk"}
    OBVIOUS
<1> HIDE DEF x, loop
<1>8. /\ DOMAIN read = Fields /\ read.idx \in 1..Len(x.scope) /\ read.pc \in {loop, "write"}
      /\ read.mode = x.mode /\ read.scope = x.scope /\ read.sha = x.sha
      /\ read.k = x.k /\ read.att = x.att /\ read.datt = x.datt
      /\ read.known = x.known /\ read.changed = x.changed /\ read.deleted = x.deleted
      /\ read.files = x.files
    BY <1>4, <1>6, NextRepoIs
<1> HIDE DEF read
<1>9. ReadOn(p, read)
    BY <1>4, <1>5, <1>6, <1>8 DEF ReadOn
<1>10. CASE read.pc = "write"
    BY <1>2, <1>3, <1>9, <1>10, BeginWriteIs
<1>11. CASE read.pc # "write"
  <2>1. read.pc \in ReadStages
      BY <1>7, <1>8, <1>11 DEF ReadStages
  <2>2. RunOK(read)
      BY <1>1, <1>3, <1>9, <2>1, ReadOnOK
  <2>3. proc' = [proc EXCEPT ![i] = read] /\ UNCHANGED <<graph, tangled>>
      BY <1>2, <1>11
  <2>4. proc'[i] = read /\ DOMAIN proc' = Indexers /\ \A j \in Indexers \ {i} : proc'[j] = proc[j]
      BY <1>1, <2>3
  <2> QED
      BY <1>1, <1>11, <2>2, <2>3, <2>4 DEF Reads
<1> QED
    BY <1>10, <1>11

\* How a step looks to the invariants: who reads, begins, writes or ends.
Writes(i) ==
    /\ WriteOn(i)
    /\ proc'[i].pc = "write" => UNCHANGED tangled
    /\ proc'[i].pc # "write" => tangled' = tangled \cup proc[i].met

Returns(i) == Ends(i) /\ UNCHANGED tangled /\ proc[i].k = Len(proc[i].plan) + 1
Dead(i) == Ends(i) /\ proc'[i].pc # "done" /\ tangled' = tangled \cup proc[i].met

\* Every step is one of these, or leaves graph and runs alone.
LEMMA Moves ==
    ASSUME TypeInv, [Next]_vars
    PROVE  \/ UNCHANGED <<graph, proc, tangled>>
           \/ \E i \in Indexers : Reads(i) \/ Begins(i) \/ Writes(i) \/ Returns(i) \/ Dead(i)
<1>0. RunsOK /\ GraphOK(graph) /\ disk \in [Paths -> Contents \cup {Absent}] /\ tangled \subseteq Repos
    BY DEF TypeInv, RestOK
<1>1. ASSUME NEW p \in Paths, NEW c \in Contents \cup {Absent}, EditFile(p, c)
      PROVE  UNCHANGED <<graph, proc, tangled>>
    BY <1>1 DEF EditFile
<1>2. CASE UNCHANGED vars
    BY <1>2 DEF vars
<1>3. ASSUME NEW i \in Indexers,
             \/ \E mode \in Modes, scope \in Scopes[i], sha \in Shas : StartRun(i, mode, scope, sha)
             \/ Step(i) \/ Crash(i)
      PROVE  Reads(i) \/ Begins(i) \/ Writes(i) \/ Returns(i) \/ Dead(i)
  <2>1. CASE \E mode \in Modes, scope \in Scopes[i], sha \in Shas : StartRun(i, mode, scope, sha)
      BY <1>0, <2>1, StartRunIs
  <2>2. CASE FetchHashes(i)
      BY <1>0, <2>2, FetchHashesIs
  <2>3. CASE \E unread \in SUBSET Paths : DiffRepo(i, unread)
      BY <1>0, <2>3, DiffRepoIs
  <2>4. CASE \E unread \in SUBSET Paths : WalkRepo(i, unread)
      BY <1>0, <2>4, WalkRepoIs
  <2>5. CASE WriteStep(i)
      BY <1>0, <2>5, WriteStepIs DEF Writes
  <2>6. CASE TransientError(i)
      BY <1>0, <2>6, TransientErrorIs DEF Writes
  <2>7. CASE Finish(i)
      BY <1>0, <2>7, FinishIs DEF Returns
  <2>8. CASE Crash(i)
      BY <1>0, <2>8, CrashIs DEF Dead
  <2> QED
      BY <1>3, <2>1, <2>2, <2>3, <2>4, <2>5, <2>6, <2>7, <2>8 DEF Step
<1> QED
    BY <1>1, <1>2, <1>3 DEF Next

-----------------------------------------------------------------------------
(***************************************************************************)
(* Types.                                                                   *)
(***************************************************************************)
\* The first state.
LEMMA InitType == Init => TypeInv
<1> SUFFICES ASSUME Init PROVE TypeInv
    OBVIOUS
<1>1. RestOK
  <2>1. MaxRuns \in Nat /\ MaxEdits \in Nat /\ MaxFaults \in Nat
      BY IndexerAssumption
  <2> QED
      BY <2>1, IndexerAssumption DEF Init, RestOK
<1>2. RunsOK
  <2>1. DOMAIN proc = Indexers /\ \A i \in Indexers : proc[i] = NoRun
      BY DEF Init
  <2> QED
      BY <2>1, NoRunOK DEF RunsOK
<1>3. GraphOK(graph)
  <2>1. graph.edge = {} /\ DOMAIN graph.node = {}
      BY DEF Init, EmptyGraph
  <2> QED
      BY <2>1 DEF GraphOK, NoDangling
<1> QED
    BY <1>1, <1>2, <1>3 DEF TypeInv

\* Read errors stay within their bound.
LEMMA ReadErrorsOK ==
    ASSUME RestOK, NEW unread \in SUBSET Paths, NEW r, ReadErrors(unread, r)
    PROVE  /\ DOMAIN bound' = {"runs", "edits", "faults"}
           /\ bound'.runs = bound.runs /\ bound'.edits = bound.edits
           /\ bound'.faults \in Nat /\ bound'.faults <= MaxFaults
<1>1. IsFiniteSet(unread)
    BY GraphAssumption, FS_Subset
<1>2. Cardinality(unread) \in Nat
    BY <1>1, FS_CardinalityType
<1> DEFINE n == Cardinality(unread)
<1>3. bound' = [bound EXCEPT !.faults = @ + n] /\ bound.faults + n <= MaxFaults
    BY DEF ReadErrors
<1>4. n \in Nat
    BY <1>2
<1> HIDE DEF n
<1> QED
    BY <1>3, <1>4 DEF RestOK

\* Marking what a dying run leaves.
LEMMA DiesOK ==
    ASSUME RestOK, NEW i \in Indexers, RunOK(proc[i]), proc[i].pc = "write", Dies(i)
    PROVE  torn' \subseteq Repos /\ tangled' \subseteq Repos
<1>1. Range(proc[i].scope) \subseteq Repos /\ proc[i].met \subseteq Range(proc[i].scope)
    BY DEF RunOK, Range
<1> QED
    BY <1>1 DEF Dies, RestOK

\* Every other variable keeps its type.
LEMMA RestNext ==
    ASSUME TypeInv, [Next]_vars
    PROVE  RestOK'
<1>0. /\ RestOK /\ RunsOK /\ disk \in [Paths -> Contents \cup {Absent}]
      /\ torn \subseteq Repos /\ tangled \subseteq Repos
      /\ DOMAIN bound = {"runs", "edits", "faults"}
      /\ bound.runs \in Nat /\ bound.edits \in Nat /\ bound.faults \in Nat
      /\ bound.runs <= MaxRuns /\ bound.edits <= MaxEdits /\ bound.faults <= MaxFaults
      /\ MaxRuns \in Nat /\ MaxEdits \in Nat /\ MaxFaults \in Nat
      /\ \A i \in Indexers : RunOK(proc[i])
    BY IndexerAssumption DEF TypeInv, RestOK, RunsOK
<1>1. ASSUME NEW p \in Paths, NEW c \in Contents \cup {Absent}, EditFile(p, c)
      PROVE  RestOK'
  <2>1. disk' \in [Paths -> Contents \cup {Absent}]
      BY <1>0, <1>1 DEF EditFile
  <2>2. /\ DOMAIN bound' = {"runs", "edits", "faults"} /\ bound'.runs = bound.runs
        /\ bound'.edits = bound.edits + 1 /\ bound'.faults = bound.faults /\ bound.edits < MaxEdits
      BY <1>0, <1>1 DEF EditFile
  <2>3. UNCHANGED <<torn, tangled>>
      BY <1>1 DEF EditFile
  <2> QED
      BY <1>0, <2>1, <2>2, <2>3 DEF RestOK
<1>2. CASE UNCHANGED vars
    BY <1>0, <1>2 DEF vars, RestOK
<1>3. ASSUME NEW i \in Indexers, NEW mode \in Modes, NEW scope \in Scopes[i], NEW sha \in Shas,
             StartRun(i, mode, scope, sha)
      PROVE  RestOK'
  <2>1. /\ DOMAIN bound' = {"runs", "edits", "faults"} /\ bound'.runs = bound.runs + 1
        /\ bound'.edits = bound.edits /\ bound'.faults = bound.faults /\ bound.runs < MaxRuns
      BY <1>0, <1>3 DEF StartRun
  <2>2. UNCHANGED <<disk, torn, tangled>>
      BY <1>3 DEF StartRun
  <2> QED
      BY <1>0, <2>1, <2>2 DEF RestOK
<1>4. ASSUME NEW i \in Indexers, FetchHashes(i) PROVE RestOK'
    BY <1>0, <1>4 DEF FetchHashes, RestOK
<1>5. ASSUME NEW i \in Indexers, NEW unread \in SUBSET Paths, DiffRepo(i, unread) PROVE RestOK'
  <2>1. ReadErrors(unread, proc[i].scope[proc[i].idx]) /\ UNCHANGED <<disk, torn, tangled>>
      BY <1>5 DEF DiffRepo
  <2>2. /\ DOMAIN bound' = {"runs", "edits", "faults"}
        /\ bound'.runs = bound.runs /\ bound'.edits = bound.edits
        /\ bound'.faults \in Nat /\ bound'.faults <= MaxFaults
      BY <1>0, <2>1, ReadErrorsOK
  <2> QED
      BY <1>0, <2>1, <2>2 DEF RestOK
<1>6. ASSUME NEW i \in Indexers, NEW unread \in SUBSET Paths, WalkRepo(i, unread) PROVE RestOK'
  <2>1. ReadErrors(unread, proc[i].scope[proc[i].idx]) /\ UNCHANGED <<disk, torn>>
      BY <1>6 DEF WalkRepo
  <2>2. /\ DOMAIN bound' = {"runs", "edits", "faults"}
        /\ bound'.runs = bound.runs /\ bound'.edits = bound.edits
        /\ bound'.faults \in Nat /\ bound'.faults <= MaxFaults
      BY <1>0, <2>1, ReadErrorsOK
  <2>3. Reads(i) \/ Begins(i)
      BY <1>0, <1>6, WalkRepoIs
  <2>4. tangled' \subseteq Repos
      BY <1>0, <2>3 DEF Reads, Begins
  <2> QED
      BY <1>0, <2>1, <2>2, <2>4 DEF RestOK
<1>7. ASSUME NEW i \in Indexers, WriteStep(i) PROVE RestOK'
    BY <1>0, <1>7 DEF WriteStep, RestOK
<1>8. ASSUME NEW i \in Indexers, TransientError(i) PROVE RestOK'
  <2>1. UNCHANGED <<disk, bound>> /\ (Dies(i) \/ UNCHANGED <<torn, tangled>>)
      BY <1>8 DEF TransientError
  <2>2. proc[i].pc = "write"
      BY <1>8 DEF TransientError, AtStatement
  <2>3. torn' \subseteq Repos /\ tangled' \subseteq Repos
      BY <1>0, <2>1, <2>2, DiesOK
  <2> QED
      BY <1>0, <2>1, <2>3 DEF RestOK
<1>9. ASSUME NEW i \in Indexers, Finish(i) PROVE RestOK'
  <2>1. torn' \subseteq torn /\ UNCHANGED <<disk, tangled, bound>>
      BY <1>9 DEF Finish
  <2> QED
      BY <1>0, <2>1 DEF RestOK
<1>10. ASSUME NEW i \in Indexers, Crash(i) PROVE RestOK'
  <2>1. /\ DOMAIN bound' = {"runs", "edits", "faults"} /\ bound'.runs = bound.runs
        /\ bound'.edits = bound.edits /\ bound'.faults = bound.faults + 1 /\ bound.faults < MaxFaults
      BY <1>0, <1>10 DEF Crash
  <2>2. UNCHANGED disk /\ Dies(i) /\ proc[i].pc = "write"
      BY <1>10 DEF Crash
  <2>3. torn' \subseteq Repos /\ tangled' \subseteq Repos
      BY <1>0, <2>2, DiesOK
  <2> QED
      BY <1>0, <2>1, <2>2, <2>3 DEF RestOK
<1> QED
    BY <1>1, <1>2, <1>3, <1>4, <1>5, <1>6, <1>7, <1>8, <1>9, <1>10 DEF Next, Step

\* So do all.
LEMMA TypeNext ==
    ASSUME TypeInv, [Next]_vars
    PROVE  TypeInv'
<1>0. RunsOK /\ GraphOK(graph) /\ DOMAIN proc = Indexers /\ \A i \in Indexers : RunOK(proc[i])
    BY DEF TypeInv, RunsOK
<1>1. CASE UNCHANGED <<graph, proc, tangled>>
    BY <1>0, <1>1, RestNext DEF TypeInv, RunsOK
<1>2. ASSUME NEW i \in Indexers, Reads(i) PROVE RunsOK' /\ GraphOK(graph)'
    BY <1>0, <1>2 DEF Reads, RunsOK
<1>3. ASSUME NEW i \in Indexers, Begins(i) PROVE RunsOK' /\ GraphOK(graph)'
  <2>1. ASSUME NEW j \in Indexers PROVE RunOK(proc'[j])
    <3>1. CASE j = i
        BY <1>3, <3>1 DEF Begins
    <3>2. CASE j # i
        BY <1>0, <1>3, <3>2 DEF Begins
    <3> QED
        BY <3>1, <3>2
  <2> QED
      BY <1>0, <1>3, <2>1 DEF Begins, RunsOK
<1>4. ASSUME NEW i \in Indexers, Writes(i) PROVE RunsOK' /\ GraphOK(graph)'
  <2>1. WriteOn(i)
      BY <1>4 DEF Writes
  <2>2. RunsOK'
      BY <1>0, <2>1 DEF WriteOn, RunsOK
  <2>3. Ready(proc[i]) /\ Goes(graph, graph', proc[i], proc'[i])
      BY <1>0, <2>1, AtStatementReady DEF WriteOn
  <2>4. GraphOK(graph')
      BY <1>0, <2>3, GoesSound
  <2> QED
      BY <2>2, <2>4
<1>5. ASSUME NEW i \in Indexers, Ends(i) PROVE RunsOK' /\ GraphOK(graph)'
    BY <1>0, <1>5 DEF Ends, RunsOK
<1> QED
    BY <1>1, <1>2, <1>3, <1>4, <1>5, Moves, RestNext DEF TypeInv, Returns, Dead

\* The invariant is what TypeOK asks for, and more.
LEMMA TypeImplied == TypeInv => TypeOK
<1> SUFFICES ASSUME TypeInv PROVE TypeOK
    OBVIOUS
<1>0. RestOK /\ NoDangling(graph) /\ DOMAIN proc = Indexers /\ \A i \in Indexers : RunOK(proc[i])
    BY DEF TypeInv, RunsOK, GraphOK
<1>1. \A e \in graph.edge : Exists(graph, e[1]) /\ Exists(graph, e[3])
    BY <1>0 DEF NoDangling
<1>2. ASSUME NEW p, RunOK(p)
      PROVE  /\ p.pc \in {"idle", "fetch", "diff", "walk", "write", "done", "failed"}
             /\ p.mode \in {"full", "delta"} /\ Range(p.scope) \subseteq Repos
             /\ DOMAIN p.files \cup DOMAIN p.known \cup p.changed \cup p.deleted \subseteq Paths
             /\ p.att \in 1..MaxAttempts /\ p.datt \in 1..MaxAttempts /\ p.k \in Nat
    BY <1>2 DEF RunOK, Parsed, Stages, Range
<1> QED
    BY <1>0, <1>1, <1>2 DEF TypeOK, RestOK

\* The invariant holds in every state.
LEMMA Typed == Spec => []TypeInv
BY InitType, TypeNext, PTL DEF Spec

\* Every variable keeps its type, and no statement of any run, in whatever
\* order the runs' statements, errors and crashes fall, leaves an edge without
\* one of its ends.
THEOREM TypeCorrect == Spec => []TypeOK
BY Typed, TypeImplied, PTL

-----------------------------------------------------------------------------
(***************************************************************************)
(* Scopes.                                                                  *)
(***************************************************************************)
\* q is one of the repositories R, or none.
Inside(q, R) == q \in R \cup {""}

\* A statement of repository q, or of none, leaves what is outside R alone.
LEMMA OutsideKept ==
    ASSUME NEW g, GraphOK(g), NEW h, GraphOK(h), NEW q, Touches(g, h, q), NEW R, Inside(q, R)
    PROVE  Outside(h, R) = Outside(g, R)
<1> DEFINE out(x) == {n \in DOMAIN x.node : ~ (n[2] \in R \cup {""})}
           edges(x) == {e \in x.edge : /\ ~ (e[1][2] \in R \cup {""}) /\ ~ (e[3][2] \in R \cup {""})
                                       /\ e[2] \notin {"HTTP_FLOW", "KAFKA_FLOW"}}
<1>1. \A n \in DOMAIN g.node \cup DOMAIN h.node : n[1] = "KafkaTopic" => n[2] = ""
    BY DEF GraphOK, NodeOK
<1>2. out(h) = out(g)
    BY <1>1 DEF Touches, Inside
<1>3. \A n \in out(g) : h.node[n] = g.node[n]
    BY <1>1 DEF Touches, Inside
<1>4. Restrict(h.node, out(h)) = Restrict(g.node, out(g))
  <2> HIDE DEF out
  <2> QED
      BY <1>2, <1>3 DEF Restrict
<1>5. edges(h) = edges(g)
    BY DEF Touches, Inside, FlowRels
<1>6. \A x : Outside(x, R) = <<Restrict(x.node, out(x)), edges(x)>>
    BY DEF Outside
<1> HIDE DEF out, edges
<1> QED
    BY <1>4, <1>5, <1>6

\* What a statement of the run p does is inside its scope.
LEMMA WithinScope ==
    ASSUME NEW g, GraphOK(g), NEW p, Ready(p), NEW h, h = Apply(g, p.plan[p.k], p)
    PROVE  Outside(h, Range(p.scope)) = Outside(g, Range(p.scope))
<1> DEFINE q == p.plan[p.k].repo
           R == Range(p.scope)
<1>1. GraphOK(h) /\ Touches(g, h, q)
    BY StatementEffect DEF Sound
<1>2. Inside(q, R)
    BY StatementIs DEF Ready, AllOps, Inside
<1> HIDE DEF q, R
<1>3. Outside(h, R) = Outside(g, R)
    BY <1>1, <1>2, OutsideKept
<1> QED
    BY <1>3 DEF R

\* A run restricted to some repositories takes nothing from, and adds nothing
\* to, what the others own: clearing, deleting, MERGEs, and the links and flows
\* that are derived for the whole workspace included.
THEOREM ScopeIsolated == Spec => ScopeIsolation
<1> DEFINE isolated == \A i \in Indexers : proc'[i] # proc[i]
              => Outside(graph', Range(proc[i].scope)) = Outside(graph, Range(proc[i].scope))
<1>1. ASSUME TypeInv, [Next]_vars PROVE isolated
  <2>0. GraphOK(graph) /\ \A i \in Indexers : RunOK(proc[i])
      BY <1>1 DEF TypeInv, RunsOK
  <2>1. CASE UNCHANGED graph
      BY <2>1
  <2>2. ASSUME NEW i \in Indexers, WriteOn(i) PROVE isolated
    <3>1. /\ Ready(proc[i]) /\ (graph' = graph \/ graph' = Apply(graph, proc[i].plan[proc[i].k], proc[i]))
          /\ \A j \in Indexers \ {i} : proc'[j] = proc[j]
        BY <2>0, <2>2, AtStatementReady DEF WriteOn, Goes
    <3>2. Outside(graph', Range(proc[i].scope)) = Outside(graph, Range(proc[i].scope))
        BY <2>0, <3>1, WithinScope
    <3> QED
        BY <3>1, <3>2
  <2> HIDE DEF isolated
  <2> QED
      BY <1>1, <2>1, <2>2, Moves DEF Reads, Begins, Writes, Returns, Dead, Ends
<1> QED
    BY <1>1, Typed, PTL DEF Spec, ScopeIsolation

-----------------------------------------------------------------------------
(***************************************************************************)
(* Nothing out of clearing's reach.                                         *)
(***************************************************************************)
\* A step that changes neither the runs that write repository r nor what
\* clearing follows in it.
LEMMA AsideKeeps ==
    ASSUME RunsOK, GraphOK(graph), NEW r, Overlaps(r), InHand(graph, r), SamePart(graph, graph', r),
           Writers(r)' = Writers(r), \A j \in Writers(r) : proc'[j] = proc[j]
    PROVE  Overlaps(r)' /\ InHand(graph, r)'
<1>1. Overlaps(r)'
    BY DEF Overlaps
<1>2. \A j \in Writers(r) : Parsed(proc[j].files)
    BY DEF Writers, RunsOK, RunOK
<1>3. Orphans(graph', r) = Orphans(graph, r)
    BY ReachedSame
<1>4. ASSUME NEW j \in Writers(r)
      PROVE  /\ Holder(graph, proc[j], r) => Holder(graph', proc'[j], r)
             /\ Settled(graph, proc[j], r) => Settled(graph', proc'[j], r)
    BY <1>2, Untouched
<1>5. InHand(graph, r)'
  <2>1. Writers(r)' = {} => Orphans(graph', r) = {}
      BY <1>3 DEF InHand
  <2>2. \A j \in Writers(r)' : r \notin proc'[j].met => Orphans(graph', r) = {} /\ Holder(graph', proc'[j], r)
      BY <1>3, <1>4 DEF InHand
  <2>3. Writers(r)' # {} => \E j \in Writers(r)' : Holder(graph', proc'[j], r) \/ Settled(graph', proc'[j], r)
      BY <1>4 DEF InHand
  <2> QED
      BY <2>1, <2>2, <2>3 DEF InHand
<1> QED
    BY <1>1, <1>5

\* The runs other than i are as they were.
Alone(i) == DOMAIN proc' = Indexers /\ \A j \in Indexers \ {i} : proc'[j] = proc[j]

\* A step of a run that does not write repository r before or after.
LEMMA ElsewhereKeeps ==
    ASSUME RunsOK, GraphOK(graph), NEW r, Overlaps(r), InHand(graph, r), SamePart(graph, graph', r),
           NEW i \in Indexers, Alone(i), i \notin Writers(r), i \notin Writers(r)'
    PROVE  Overlaps(r)' /\ InHand(graph, r)'
<1>1. Writers(r) \subseteq Indexers \ {i}
    BY DEF Writers
<1>2. Writers(r)' = Writers(r)
    BY DEF Alone, Writers
<1>3. \A j \in Writers(r) : proc'[j] = proc[j]
    BY <1>1 DEF Alone
<1> QED
    BY <1>2, <1>3, AsideKeeps

\* A graph that does not change.
LEMMA SameItself == ASSUME UNCHANGED graph, NEW r PROVE SamePart(graph, graph', r)
BY DEF SamePart

\* A run that reads.
LEMMA ReadsKeep ==
    ASSUME RunsOK, GraphOK(graph), NEW r, Overlaps(r), InHand(graph, r), NEW i \in Indexers, Reads(i)
    PROVE  Overlaps(r)' /\ InHand(graph, r)'
<1>1. i \notin Writers(r) /\ i \notin Writers(r)' /\ Alone(i) /\ SamePart(graph, graph', r)
    BY SameItself DEF Reads, Writers, Alone
<1> QED
    BY <1>1, ElsewhereKeeps

\* A run whose repository no other may be writing: if it is not known to have
\* met another, it is the only one.
LEMMA OnlyWriter ==
    ASSUME NEW r, Overlaps(r), InHand(graph, r), NEW i \in Writers(r), r \notin proc[i].met
    PROVE  Writers(r) = {i} /\ Orphans(graph, r) = {} /\ Holder(graph, proc[i], r)
BY DEF Overlaps, InHand

\* A run that dies.
LEMMA DeadKeeps ==
    ASSUME RunsOK, GraphOK(graph), NEW r, r \notin tangled', Overlaps(r), InHand(graph, r),
           NEW i \in Indexers, Dead(i)
    PROVE  Overlaps(r)' /\ InHand(graph, r)'
<1>1. Alone(i) /\ UNCHANGED graph /\ i \notin Writers(r)' /\ r \notin proc[i].met
    BY DEF Dead, Ends, Alone, Writers
<1>2. CASE i \notin Writers(r)
    BY <1>1, <1>2, SameItself, ElsewhereKeeps
<1>3. CASE i \in Writers(r)
  <2>1. Writers(r) = {i} /\ Orphans(graph, r) = {}
      BY <1>1, <1>3, OnlyWriter
  <2>2. Writers(r)' = {}
      BY <1>1, <2>1 DEF Alone, Writers
  <2>3. Orphans(graph', r) = {}
      BY <1>1, <2>1
  <2> QED
      BY <2>2, <2>3 DEF Overlaps, InHand
<1> QED
    BY <1>2, <1>3

\* A run that returns: what it leaves is settled.
LEMMA ReturnsKeeps ==
    ASSUME RunsOK, GraphOK(graph), NEW r, Overlaps(r), InHand(graph, r), NEW i \in Indexers, Returns(i)
    PROVE  Overlaps(r)' /\ InHand(graph, r)'
<1> DEFINE p == proc[i]
<1>1. Alone(i) /\ UNCHANGED graph /\ i \notin Writers(r)' /\ p.pc = "write" /\ p.k = Len(p.plan) + 1
    BY DEF Returns, Ends, Alone, Writers
<1>2. CASE i \notin Writers(r)
    BY <1>1, <1>2, SameItself, ElsewhereKeeps
<1>3. CASE i \in Writers(r)
  <2>1. Writers(r)' = Writers(r) \ {i}
      BY <1>1 DEF Alone, Writers
  <2>2. \A j \in Writers(r)' : j \in Writers(r) /\ j # i /\ proc'[j] = proc[j]
      BY <1>1, <2>1 DEF Alone, Writers
  <2>3. Overlaps(r)'
      BY <2>2 DEF Overlaps
  <2>4. Holder(graph, p, r) => Settled(graph, p, r)
    <3>1. WellPlanned(p) /\ Parsed(p.files) /\ r \in Range(p.scope)
        BY <1>1, <1>3 DEF RunsOK, RunOK, Writers
    <3> QED
        BY <1>1, <3>1, HolderSettles
  <2>5. PICK j \in Writers(r) : Holder(graph, proc[j], r) \/ Settled(graph, proc[j], r)
      BY <1>3 DEF InHand
  <2>6. Writers(r)' = {} => Orphans(graph', r) = {}
    <3>1. Writers(r)' = {} => j = i
        BY <2>1, <2>5
    <3> QED
        BY <1>1, <2>4, <2>5, <3>1 DEF Settled
  <2>7. \A w \in Writers(r)' : r \notin proc'[w].met => Orphans(graph', r) = {} /\ Holder(graph', proc'[w], r)
      BY <1>1, <2>2 DEF InHand
  <2>8. Writers(r)' # {} => \E w \in Writers(r)' : Holder(graph', proc'[w], r) \/ Settled(graph', proc'[w], r)
    <3>1. CASE j # i
      <4>1. j \in Writers(r)'
          BY <2>1, <3>1
      <4> QED
          BY <1>1, <2>2, <2>5, <4>1
    <3>2. CASE j = i
      <4>1. Settled(graph, p, r)
          BY <2>4, <2>5, <3>2
      <4>2. ASSUME NEW w \in Writers(r)' PROVE Settled(graph', proc'[w], r)
        <5>1. proc'[w] = proc[w] /\ proc[w].files = p.files
            BY <1>3, <2>2 DEF Overlaps, Alike
        <5> QED
            BY <1>1, <4>1, <5>1 DEF Settled
      <4> QED
          BY <4>2
    <3> QED
        BY <3>1, <3>2
  <2>9. InHand(graph, r)'
      BY <2>6, <2>7, <2>8 DEF InHand
  <2> QED
      BY <2>3, <2>9
<1> QED
    BY <1>2, <1>3

\* What two runs with the same plan, as far along, hold and have settled.
LEMMA SameHolds ==
    ASSUME NEW g, NEW p, NEW q, SamePlan(p, q), p.k \in Nat, q.k = p.k, NEW r
    PROVE  /\ Holder(g, p, r) => Holder(g, q, r)
           /\ Settled(g, p, r) => Settled(g, q, r)
<1>1. Holder(g, p, r) => Holder(g, q, r)
    BY HolderLower
<1>2. p.files = q.files
    BY DEF SamePlan
<1> QED
    BY <1>1, <1>2 DEF Settled

\* A run that begins to write a repository: it meets those that write it.
LEMMA BeginsKeep ==
    ASSUME RunsOK, NEW r, r \notin tangled', Overlaps(r), InHand(graph, r), NEW i \in Indexers, Begins(i)
    PROVE  Overlaps(r)' /\ InHand(graph, r)'
<1> DEFINE q == proc'[i]
           W == Writers(r)
           H == Writers(r)'
<1>1. UNCHANGED graph /\ i \notin W /\ q.k = 1
    BY DEF Begins, Writers
<1>2. ASSUME NEW j \in W
      PROVE  /\ j \in H /\ j # i /\ SamePlan(proc[j], proc'[j]) /\ r \in Range(proc[j].scope)
             /\ Holder(graph, proc[j], r) => Holder(graph', proc'[j], r)
             /\ Settled(graph, proc[j], r) => Settled(graph', proc'[j], r)
             /\ proc[j].met \subseteq proc'[j].met
             /\ r \in Range(q.scope) => r \in proc'[j].met /\ r \in q.met /\ Alike(q, proc[j])
  <2>1. j \in Indexers \ {i} /\ proc[j].pc = "write" /\ r \in Range(proc[j].scope)
      BY <1>1 DEF Writers
  <2>2. /\ proc'[j].pc = "write" /\ SamePlan(proc[j], proc'[j]) /\ proc'[j].k = proc[j].k
        /\ proc'[j].met = proc[j].met \cup (Range(q.scope) \cap Range(proc[j].scope))
        /\ Range(q.scope) \cap Range(proc[j].scope) \subseteq q.met
        /\ ~ Alike(q, proc[j]) => Range(q.scope) \cap Range(proc[j].scope) \subseteq tangled'
      BY <2>1 DEF Begins
  <2>3. proc[j].k \in Nat
      BY <2>1 DEF RunsOK, RunOK
  <2>4. /\ Holder(graph, proc[j], r) => Holder(graph, proc'[j], r)
        /\ Settled(graph, proc[j], r) => Settled(graph, proc'[j], r)
      BY <2>2, <2>3, SameHolds
  <2>5. j \in H
      BY <2>1, <2>2 DEF SamePlan, Writers
  <2> QED
      BY <1>1, <2>1, <2>2, <2>4, <2>5
<1>3. ASSUME NEW j \in H PROVE j \in W \/ (j = i /\ r \in Range(q.scope))
  <2>1. j \in Indexers /\ proc'[j].pc = "write" /\ r \in Range(proc'[j].scope)
      BY DEF Writers, Begins
  <2>2. CASE j = i
      BY <2>1, <2>2
  <2>3. CASE j # i
    <3>1. proc[j].pc = "write"
        BY <2>1, <2>3 DEF Begins
    <3>2. proc'[j].scope = proc[j].scope
        BY <2>1, <2>3, <3>1 DEF Begins, SamePlan
    <3> QED
        BY <2>1, <3>1, <3>2 DEF Writers
  <2> QED
      BY <2>2, <2>3
<1>4. W = {} => Orphans(graph', r) = {} /\ Holder(graph', q, r)
  <2>1. W = {} => Orphans(graph', r) = {}
      BY <1>1 DEF InHand
  <2>2. 1..(q.k - 1) = {}
      BY <1>1
  <2> QED
      BY <2>1, <2>2 DEF Holder
<1> HIDE DEF q, W
<1>5. Overlaps(r)'
  <2>1. ASSUME NEW a \in H, NEW b \in H, a # b
        PROVE  Alike(proc'[a], proc'[b]) /\ r \in proc'[a].met
    <3>1. CASE a \in W /\ b \in W
        BY <1>2, <2>1, <3>1 DEF Overlaps, Alike, SamePlan, W
    <3>2. CASE a = i /\ b \in W
        BY <1>2, <1>3, <2>1, <3>2 DEF Alike, SamePlan, q
    <3>3. CASE a \in W /\ b = i
        BY <1>2, <1>3, <2>1, <3>3 DEF Alike, SamePlan, q
    <3> QED
        BY <1>3, <2>1, <3>1, <3>2, <3>3
  <2> QED
      BY <2>1 DEF Overlaps
<1>6. InHand(graph, r)'
  <2>1. H = {} => Orphans(graph', r) = {}
      BY <1>2, <1>4
  <2>2. ASSUME NEW j \in H, r \notin proc'[j].met
        PROVE  Orphans(graph', r) = {} /\ Holder(graph', proc'[j], r)
    <3>1. CASE j \in W
        BY <1>1, <1>2, <2>2, <3>1 DEF InHand, W
    <3>2. CASE j \notin W
      <4>1. j = i /\ r \in Range(q.scope)
          BY <1>3, <3>2
      <4>2. W = {}
          BY <1>2, <2>2, <4>1 DEF q
      <4> QED
          BY <1>4, <4>1, <4>2 DEF q
    <3> QED
        BY <3>1, <3>2
  <2>3. ASSUME H # {}
        PROVE  \E j \in H : Holder(graph', proc'[j], r) \/ Settled(graph', proc'[j], r)
    <3>1. CASE W # {}
      <4>1. PICK j \in W : Holder(graph, proc[j], r) \/ Settled(graph, proc[j], r)
          BY <3>1 DEF InHand, W
      <4> QED
          BY <1>2, <4>1
    <3>2. CASE W = {}
      <4>1. i \in H
          BY <1>3, <2>3, <3>2
      <4> QED
          BY <1>4, <3>2, <4>1 DEF q
    <3> QED
        BY <3>1, <3>2
  <2> QED
      BY <2>1, <2>2, <2>3 DEF InHand
<1> QED
    BY <1>5, <1>6

\* A run that executes a statement, or fails to.
LEMMA WritesKeep ==
    ASSUME RunsOK, GraphOK(graph), NEW r \in Repos, r \notin tangled', Overlaps(r), InHand(graph, r),
           NEW i \in Indexers, Writes(i)
    PROVE  Overlaps(r)' /\ InHand(graph, r)'
<1> DEFINE p == proc[i]
           q == proc'[i]
<1>1. /\ Alone(i) /\ Goes(graph, graph', p, q) /\ SamePlan(p, q) /\ q.met = p.met /\ Ready(p)
      /\ p.pc = "write" /\ q.pc \in {"write", "failed"}
  <2>1. WriteOn(i) /\ RunOK(proc[i])
      BY DEF Writes, RunsOK
  <2> QED
      BY <2>1, AtStatementReady DEF WriteOn, Alone, Kept
<1>2. p.files = q.files /\ p.scope = q.scope
    BY <1>1 DEF SamePlan
<1>3. CASE r \notin Range(p.scope)
  <2>1. SamePart(graph, graph', r)
      BY <1>1, <1>3, OutsideSame
  <2>2. i \notin Writers(r) /\ i \notin Writers(r)'
      BY <1>2, <1>3 DEF Writers
  <2> QED
      BY <1>1, <2>1, <2>2, ElsewhereKeeps
<1>4. ASSUME r \in Range(p.scope), Holder(graph, p, r)
      PROVE  Holder(graph', q, r) /\ Orphans(graph', r) \subseteq Orphans(graph, r)
    BY <1>1, <1>4, HolderGoes
<1>5. CASE r \in Range(p.scope) /\ q.pc = "failed"
  <2>1. i \in Writers(r) /\ i \notin Writers(r)' /\ r \notin p.met
      BY <1>1, <1>5 DEF Writers, Writes
  <2>2. Writers(r) = {i} /\ Orphans(graph, r) = {} /\ Holder(graph, p, r)
      BY <2>1, OnlyWriter
  <2>3. Writers(r)' = {}
      BY <1>1, <2>1, <2>2 DEF Alone, Writers
  <2>4. Orphans(graph', r) = {}
      BY <1>4, <1>5, <2>2
  <2> QED
      BY <2>3, <2>4 DEF Overlaps, InHand
<1>6. CASE r \in Range(p.scope) /\ q.pc = "write"
  <2>1. i \in Writers(r)
      BY <1>1, <1>6 DEF Writers
  <2>2. Writers(r)' = Writers(r)
      BY <1>1, <1>2, <1>6 DEF Alone, Writers
  <2>3. \A j \in Writers(r) : j # i => proc'[j] = proc[j] /\ Alike(p, proc[j]) /\ r \in p.met
      BY <1>1, <2>1 DEF Alone, Writers, Overlaps
  <2>4. \A j \in Writers(r) : Alike(proc[j], proc'[j]) /\ proc'[j].met = proc[j].met
      BY <1>1, <2>3 DEF Alike, SamePlan
  <2>5. Overlaps(r)'
      BY <2>2, <2>4 DEF Overlaps, Alike
  <2>6. ASSUME NEW j \in Writers(r), r \notin proc[j].met
        PROVE  Orphans(graph', r) = {} /\ Holder(graph', proc'[j], r)
    <3>1. Writers(r) = {j} /\ Orphans(graph, r) = {} /\ Holder(graph, proc[j], r)
        BY <2>6, OnlyWriter
    <3>2. j = i
        BY <2>1, <3>1
    <3> QED
        BY <1>4, <1>6, <3>1, <3>2
  <2>7. \E j \in Writers(r) : Holder(graph', proc'[j], r) \/ Settled(graph', proc'[j], r)
    <3>1. PICK j \in Writers(r) : Holder(graph, proc[j], r) \/ Settled(graph, proc[j], r)
        BY <2>1 DEF InHand
    <3>2. CASE j # i
      <4> DEFINE w == proc[j]
      <4>1. w.files = p.files /\ proc'[j] = w
          BY <2>3, <3>2 DEF Alike
      <4> HIDE DEF w
      <4>2. Holder(graph, w, r) \/ Settled(graph, w, r)
          BY <3>1 DEF w
      <4>3. Holder(graph', q, r) \/ Holder(graph', w, r) \/ Settled(graph', w, r)
          BY <1>1, <4>1, <4>2, OthersGo
      <4> QED
          BY <2>1, <4>1, <4>3
    <3>3. CASE j = i /\ Holder(graph, p, r)
        BY <1>4, <1>6, <2>1, <3>3
    <3>4. CASE j = i /\ Settled(graph, p, r)
      <4>1. Settled(graph, q, r)
          BY <1>2, <3>4 DEF Settled
      <4>2. Holder(graph', q, r) \/ Settled(graph', q, r)
          BY <1>1, <1>2, <4>1, OthersGo
      <4> QED
          BY <2>1, <4>2
    <3> QED
        BY <3>1, <3>2, <3>3, <3>4
  <2>8. InHand(graph, r)'
      BY <2>1, <2>2, <2>4, <2>6, <2>7 DEF InHand
  <2> QED
      BY <2>5, <2>8
<1> QED
    BY <1>1, <1>3, <1>5, <1>6

\* At first there is nothing out of reach.
LEMMA OrphanInit == Init => OrphanInv
<1> SUFFICES ASSUME Init PROVE OrphanInv
    OBVIOUS
<1>1. \A r : Writers(r) = {}
  <2>1. \A i \in Indexers : proc[i].pc = "idle"
      BY DEF Init, NoRun
  <2> QED
      BY <2>1 DEF Writers
<1>2. \A r : Orphans(graph, r) = {}
  <2>1. DOMAIN graph.node = {}
      BY DEF Init, EmptyGraph
  <2> QED
      BY <2>1 DEF Orphans, Held
<1> QED
    BY <1>1, <1>2 DEF OrphanInv, Overlaps, InHand

\* And no step puts anything there, but what it declares tangled.
LEMMA OrphanNext ==
    ASSUME TypeInv, OrphanInv, [Next]_vars
    PROVE  OrphanInv'
<1>0. RunsOK /\ GraphOK(graph)
    BY DEF TypeInv
<1>1. CASE UNCHANGED <<graph, proc, tangled>>
  <2>1. \A r : Writers(r)' = Writers(r)
      BY <1>1 DEF Writers
  <2> QED
      BY <1>1, <2>1 DEF OrphanInv, Overlaps, InHand
<1>2. ASSUME NEW i \in Indexers, Reads(i) \/ Begins(i) \/ Writes(i) \/ Returns(i) \/ Dead(i)
      PROVE  OrphanInv'
  <2>1. tangled \subseteq tangled'
      BY <1>2 DEF Reads, Begins, Writes, WriteOn, Returns, Dead
  <2>2. ASSUME NEW r \in Repos \ tangled' PROVE Overlaps(r)' /\ InHand(graph, r)'
    <3>1. Overlaps(r) /\ InHand(graph, r)
        BY <2>1, <2>2 DEF OrphanInv
    <3>2. CASE Reads(i)
        BY <1>0, <3>1, <3>2, ReadsKeep
    <3>3. CASE Begins(i)
        BY <1>0, <3>1, <3>3, BeginsKeep
    <3>4. CASE Writes(i)
        BY <1>0, <3>1, <3>4, WritesKeep
    <3>5. CASE Returns(i)
        BY <1>0, <3>1, <3>5, ReturnsKeeps
    <3>6. CASE Dead(i)
        BY <1>0, <3>1, <3>6, DeadKeeps
    <3> QED
        BY <1>2, <3>2, <3>3, <3>4, <3>5, <3>6
  <2> QED
      BY <2>2 DEF OrphanInv
<1> QED
    BY <1>1, <1>2, Moves

\* A File, Symbol or Chunk belongs to a repository of the workspace.
LEMMA NodeRepo ==
    ASSUME NEW g, GraphOK(g), NEW n \in DOMAIN g.node, n[1] \in {"File", "Symbol", "Chunk"}
    PROVE  n[2] \in Repos
<1>0. NodeOK(n)
    BY DEF GraphOK
<1>1. CASE n[1] = "File"
  <2>1. n[3] \in Paths /\ n = FileNode(n[3])
      BY <1>0, <1>1 DEF NodeOK
  <2>2. FileNode(n[3])[2] = RepoOf[n[3]]
      BY DEF FileNode
  <2>3. RepoOf[n[3]] \in Repos
      BY <2>1, GraphAssumption
  <2> QED
      BY <2>1, <2>2, <2>3
<1> QED
    BY <1>0, <1>1 DEF NodeOK

\* What the invariant says of one node: where no run that writes its repository
\* has met another, clearing reaches it, by the way its label tells.
LEMMA NodeReached ==
    ASSUME TypeInv, OrphanInv, NEW n \in DOMAIN graph.node, n[1] \in {"File", "Symbol", "Chunk"},
           n[2] \notin tangled,
           \A i \in Indexers : proc[i].pc = "write" => n[2] \notin proc[i].met,
           NEW f, FilesOf(graph, n[2]) \subseteq f
    PROVE  /\ n[1] = "File" => n \in f
           /\ n[1] = "Symbol" => n \in Out(graph, f, "DEFINES")
           /\ n[1] = "Chunk" => n \in Out(graph, f, "HAS_CHUNK")
<1> DEFINE r == n[2]
           files == FilesOf(graph, r)
<1>0. GraphOK(graph) /\ NodeOK(n)
    BY DEF TypeInv, GraphOK
<1>1. r \in Repos
    BY <1>0, NodeRepo
<1>2. InHand(graph, r)
    BY <1>1 DEF OrphanInv
<1>3. Orphans(graph, r) = {}
    BY <1>2 DEF InHand, Writers
<1>4. n \in Reached(graph, r)
    BY <1>3 DEF Orphans, Held
<1>5. Kind(files, r, "File")
    BY <1>0, ReachedOK
<1> HIDE DEF files
<1>6. /\ Kind(Out(graph, files, "DEFINES"), r, "Symbol")
      /\ Kind(Out(graph, files, "HAS_CHUNK"), r, "Chunk")
    BY <1>0, <1>5, KindWithin, OutOK
<1>7. n \in files \/ n \in Out(graph, files, "DEFINES") \/ n \in Out(graph, files, "HAS_CHUNK")
    BY <1>4 DEF Reached, WithContents, files
<1>8. files \subseteq f
    BY DEF files
<1>9. /\ Out(graph, files, "DEFINES") \subseteq Out(graph, f, "DEFINES")
      /\ Out(graph, files, "HAS_CHUNK") \subseteq Out(graph, f, "HAS_CHUNK")
    BY <1>8 DEF Out
<1> QED
    BY <1>5, <1>6, <1>7, <1>8, <1>9 DEF Kind

\* What the invariant says of the nodes.
LEMMA ReachedImplied == TypeInv /\ OrphanInv => NoOrphans
<1> SUFFICES ASSUME TypeInv, OrphanInv PROVE NoOrphans
    OBVIOUS
<1> DEFINE c == Out(graph, {RepoNode(r) : r \in Repos}, "HAS_COMMIT")
           f == Out(graph, c, "CONTAINS")
           writing == {j \in Indexers : proc[j].pc = "write"}
           met == tangled \cup UNION {proc[i].met : i \in writing}
           held(label) == {n \in Labelled(graph, {label}) : n[2] \notin met}
<1>1. ASSUME NEW r \in Repos PROVE FilesOf(graph, r) \subseteq f
  <2>1. Commits(graph, r) \subseteq c
      BY DEF Commits, Out
  <2> HIDE DEF c
  <2> QED
      BY <2>1 DEF FilesOf, Out
<1>2. ASSUME NEW label \in {"File", "Symbol", "Chunk"}, NEW n \in held(label)
      PROVE  /\ label = "File" => n \in f
             /\ label = "Symbol" => n \in Out(graph, f, "DEFINES")
             /\ label = "Chunk" => n \in Out(graph, f, "HAS_CHUNK")
  <2>1. n \in DOMAIN graph.node /\ n[1] = label /\ n[2] \notin met
      BY DEF Labelled
  <2>2. n[2] \notin tangled /\ \A i \in Indexers : proc[i].pc = "write" => n[2] \notin proc[i].met
      BY <2>1
  <2>3. n[2] \in Repos
    BY <2>1, NodeRepo DEF TypeInv
  <2>4. FilesOf(graph, n[2]) \subseteq f
      BY <1>1, <2>3
  <2> HIDE DEF f, held, met
  <2> QED
      BY <2>1, <2>2, <2>4, NodeReached
<1>3. /\ held("File") \subseteq f /\ held("Symbol") \subseteq Out(graph, f, "DEFINES")
      /\ held("Chunk") \subseteq Out(graph, f, "HAS_CHUNK")
  <2> HIDE DEF held, f
  <2> QED
      BY <1>2
<1> QED
    BY <1>3 DEF NoOrphans

\* Between any two statements of any number of runs, every File, Symbol and
\* Chunk of a repository can be reached from its Repository, the only way in
\* which _CLEAR_REPO finds it, unless two runs that wrote the repository at
\* once differed, or did not both get to the end, or are still at it: no
\* error, retry or crash of a run leaves a node that no later refresh removes.
THEOREM Reachable == Spec => []NoOrphans
<1>1. Init => TypeInv /\ OrphanInv
    BY InitType, OrphanInit
<1>2. TypeInv /\ OrphanInv /\ [Next]_vars => (TypeInv /\ OrphanInv)'
    BY TypeNext, OrphanNext
<1> QED
    BY <1>1, <1>2, ReachedImplied, PTL DEF Spec
=============================================================================
