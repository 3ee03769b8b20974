---------------------------- MODULE Refresh_proofs ----------------------------
(***************************************************************************)
(* What a full refresh leaves: exactly the graph of the files it walked.   *)
(*                                                                         *)
(* A refresh is made of statements that run in transactions of their own,  *)
(* among the statements of other runs, and each but the first few only     *)
(* matches what earlier ones have left: a relation whose ends are not      *)
(* there yet is silently not written.  That the graph comes out exact      *)
(* rests on the order of the plan, and the invariant (RefreshInv) says of  *)
(* every prefix of the plan what it has achieved, from both sides.         *)
(*                                                                         *)
(* From above (Upper): what clearing does not reach, and what has been     *)
(* cleared, holds nothing but what the files are to leave there, so that   *)
(* what is written is never joined to something older.  From below         *)
(* (BuiltTo): of the refreshes that write, one has everything there that   *)
(* the statements it has passed are for.  Both need the statements of      *)
(* every run that writes along with it to be those of the same plan        *)
(* (Twins), so they speak of states in which nothing is tangled; and that  *)
(* nothing else is left needs what encloses a symbol to be of its own      *)
(* file, unless no other file of the repository defines it (ParentsLocal). *)
(***************************************************************************)
EXTENDS Incremental_proofs

-----------------------------------------------------------------------------
(***************************************************************************)
(* The order of a plan: links and flows come last.                          *)
(***************************************************************************)
\* What a run writes of its repositories, and what it derives from it.
EarlyOps == OwnOps \cup {"ClearHttpFlows", "ClearKafkaFlows"}
LateOps == LinkOps \cup {"HttpFlows", "KafkaFlows"}

\* No statement is both, and each is one of them.
LEMMA EarlyLate == EarlyOps \cap LateOps = {} /\ AllOps = EarlyOps \cup LateOps
BY DEF AllOps, EarlyOps, LateOps, OwnOps, Destructive, ClearOps, DeleteOps, ContentOps, LinkOps, FlowOps,
       FeatureLabels, HttpLabels, KafkaLabels

\* A sequence of statements for R in which no early one comes after a late one.
Early(R) == [op : EarlyOps, repo : R \cup {""}]
Late(R) == [op : LateOps, repo : R \cup {""}]
LateLast(s, R) ==
    /\ s \in Seq(Early(R) \cup Late(R))
    /\ \A j, k \in 1..Len(s) : j < k /\ s[k].op \in EarlyOps => s[j].op \in EarlyOps

\* Early statements may be followed by more of them,
LEMMA EarlyFirst == ASSUME NEW R, NEW s \in Seq(Early(R)), NEW t \in Seq(Early(R)) PROVE LateLast(s \o t, R)
<1> DEFINE u == s \o t
           A == Early(R)
           B == Late(R)
<1>1. u \in Seq(A) /\ \A x \in A : x.op \in EarlyOps
  <2>1. \A x \in A : x.op \in EarlyOps
      BY DEF Early
  <2> HIDE DEF A
  <2> QED
      BY <2>1 DEF A
<1> HIDE DEF u, A, B
<1>2. \A k \in 1..Len(u) : u[k].op \in EarlyOps
    BY <1>1, ElementOfSeq
<1>3. u \in Seq(A \cup B)
    BY <1>1, SeqMonotonic
<1> QED
    BY <1>2, <1>3 DEF LateLast, u, A, B

\* and all by late ones.
LEMMA LateAfter ==
    ASSUME NEW R, NEW s, LateLast(s, R), NEW t \in Seq(Late(R))
    PROVE  /\ LateLast(s \o t, R)
           /\ \A x : Holds(s, x) \/ Holds(t, x) => Holds(s \o t, x)
<1> DEFINE u == s \o t
           B == Late(R)
           S == Early(R) \cup B
<1>1. s \in Seq(S) /\ t \in Seq(S)
  <2>1. t \in Seq(B) /\ B \subseteq S
      OBVIOUS
  <2>2. s \in Seq(S)
      BY DEF LateLast
  <2> HIDE DEF S, B
  <2> QED
      BY <2>1, <2>2, SeqMonotonic
<1>2. \A k \in 1..Len(t) : t[k].op \notin EarlyOps
  <2>1. \A x \in B : x.op \notin EarlyOps
      BY EarlyLate DEF Late
  <2> HIDE DEF B
  <2> QED
      BY <2>1, ElementOfSeq DEF B
<1> HIDE DEF S
<1>3. /\ u \in Seq(S)
      /\ Len(s) \in Nat /\ Len(t) \in Nat /\ Len(u) = Len(s) + Len(t)
      /\ \A k \in 1..Len(s) : u[k] = s[k]
      /\ \A k \in 1..Len(t) : u[Len(s) + k] = t[k]
    BY <1>1, ConcatProperties
<1> HIDE DEF u
<1>4. ASSUME NEW j \in 1..Len(u), NEW k \in 1..Len(u), j < k, u[k].op \in EarlyOps PROVE u[j].op \in EarlyOps
  <2>1. k \in 1..Len(s)
    <3>1. CASE k > Len(s)
      <4>1. k - Len(s) \in 1..Len(t) /\ k = Len(s) + (k - Len(s))
          BY <1>3, <3>1
      <4> QED
          BY <1>2, <1>3, <1>4, <4>1
    <3> QED
        BY <1>3, <3>1
  <2>2. j \in 1..Len(s)
      BY <1>3, <1>4, <2>1
  <2> QED
      BY <1>3, <1>4, <2>1, <2>2 DEF LateLast
<1>5. ASSUME NEW x, Holds(s, x) PROVE Holds(u, x)
  <2>1. PICK k \in 1..Len(s) : s[k] = x
      BY <1>5 DEF Holds
  <2>2. k \in 1..Len(u) /\ u[k] = x
      BY <1>3, <2>1
  <2> QED
      BY <2>2 DEF Holds
<1>6. ASSUME NEW x, Holds(t, x) PROVE Holds(u, x)
  <2>1. PICK k \in 1..Len(t) : t[k] = x
      BY <1>6 DEF Holds
  <2>2. Len(s) + k \in 1..Len(u) /\ u[Len(s) + k] = x
      BY <1>3, <2>1
  <2> QED
      BY <2>2 DEF Holds
<1>7. LateLast(u, R)
    BY <1>3, <1>4 DEF LateLast, S
<1> QED
    BY <1>5, <1>6, <1>7 DEF u

\* The statements of the repositories are early.
LEMMA HeadEarly ==
    ASSUME NEW p, p.scope \in Seq(Range(p.scope)), IsInjective(p.scope)
    PROVE  FlattenSeq([j \in 1..Len(p.scope) |-> RepoPlan(p, p.scope[j])]) \in Seq(Early(Range(p.scope)))
<1> DEFINE R == Range(p.scope)
           L == Len(p.scope)
           seqs == [j \in 1..L |-> RepoPlan(p, p.scope[j])]
           S == Early(R)
<1>1. L \in Nat /\ \A j \in 1..L : p.scope[j] \in R
    BY LenProperties, ElementOfSeq
<1>2. ASSUME NEW j \in 1..L PROVE seqs[j] \in Seq(S)
  <2>1. Rising(seqs[j], p.scope[j], Rank("ClearRepo"), Rank("Chunks"))
      BY RepoPlanIs
  <2> DEFINE T == OwnStmts(p.scope[j])
  <2>2. T \subseteq S
      BY <1>1 DEF OwnStmts, Early, EarlyOps
  <2> HIDE DEF seqs, S
  <2>3. seqs[j] \in Seq(T)
      BY <2>1 DEF Rising
  <2> HIDE DEF T
  <2> QED
      BY <2>2, <2>3, SeqMonotonic
<1> HIDE DEF S
<1> DEFINE Q == Seq(S)
<1>3. seqs \in Seq(Q)
  <2>1. \A j \in 1..L : seqs[j] \in Q
      BY <1>2
  <2> HIDE DEF Q
  <2>2. [j \in 1..L |-> RepoPlan(p, p.scope[j])] \in [1..L -> Q]
      BY <2>1
  <2> QED
      BY <1>1, <2>2, SeqDef
<1> HIDE DEF seqs
<1>4. FlattenSeq(seqs) \in Seq(S)
    BY <1>3, FlattenIs
<1> QED
    BY <1>4 DEF seqs, S

\* The links that are planned are those with a payload.
LEMMA LinksHeld ==
    ASSUME NEW scope, scope \in Seq(Range(scope)), NEW op \in LinkOps, NEW X,
           NEW s, s = FlattenSeq([j \in 1..Len(scope) |->
                          IF scope[j] \in X THEN <<Stmt(op, scope[j])>> ELSE << >>])
    PROVE  s \in Seq(Late(Range(scope))) /\ \A r \in X \cap Range(scope) : Holds(s, Stmt(op, r))
<1> DEFINE seqs == [j \in 1..Len(scope) |-> IF scope[j] \in X THEN <<Stmt(op, scope[j])>> ELSE << >>]
           S == Late(Range(scope))
<1>1. Len(scope) \in Nat /\ \A j \in 1..Len(scope) : scope[j] \in Range(scope)
    BY LenProperties, ElementOfSeq
<1>2. ASSUME NEW j \in 1..Len(scope) PROVE seqs[j] \in Seq(S)
  <2>1. Stmt(op, scope[j]) \in S
      BY <1>1 DEF Stmt, Late, LateOps
  <2> HIDE DEF S
  <2> QED
      BY <2>1
<1> HIDE DEF S
<1>3. seqs \in Seq(Seq(S)) /\ Len(seqs) = Len(scope)
    BY <1>1, <1>2
<1>4. s = FlattenSeq(seqs)
    OBVIOUS
<1>5. ASSUME NEW r \in X \cap Range(scope) PROVE Holds(s, Stmt(op, r))
  <2>1. PICK j \in 1..Len(scope) : scope[j] = r
      BY <1>1 DEF Range
  <2>2. seqs[j] = <<Stmt(op, r)>>
      BY <1>5, <2>1
  <2> HIDE DEF seqs
  <2>3. 1 \in 1..Len(seqs[j]) /\ seqs[j][1] = Stmt(op, r)
      BY <2>2
  <2>4. PICK at : Blocks(s, seqs, Len(scope), at)
      BY <1>3, <1>4, FlattenIs
  <2>5. at[j] + 1 \in 1..Len(s) /\ s[at[j] + 1] = seqs[j][1]
      BY <2>3, <2>4 DEF Blocks
  <2> QED
      BY <2>3, <2>5 DEF Holds
<1> HIDE DEF seqs
<1>6. s \in Seq(S)
    BY <1>3, <1>4, FlattenIs
<1> QED
    BY <1>5, <1>6 DEF S

\* The links and flows of run p that its plan has.
LatePlanned(p, op, r) ==
    \/ op = "Calls" /\ ResolvedCalls(p.files, r) # {}
    \/ /\ op = "Imports"
       /\ \E q \in InRepo(p.files, r) :
             Rec(p.files, q).imports \cap UNION {SymbolsOf(p.files, s) : s \in Repos} # {}

\* The plan of a run: links and flows come last, and none is missing.
LEMMA PlanOrder ==
    ASSUME NEW p, p.scope \in Seq(Range(p.scope)), IsInjective(p.scope)
    PROVE  /\ LateLast(Plan(p), Range(p.scope))
           /\ \A r \in Range(p.scope), op \in LinkOps : LatePlanned(p, op, r) => Holds(Plan(p), Stmt(op, r))
           /\ HttpFlows(p.files) # {} => Holds(Plan(p), Stmt("HttpFlows", ""))
           /\ KafkaFlows(p.files) # {} => Holds(Plan(p), Stmt("KafkaFlows", ""))
<1> DEFINE R == Range(p.scope)
           C == {r \in R : LatePlanned(p, "Calls", r)}
           I == {r \in R : LatePlanned(p, "Imports", r)}
           calls(r) == ResolvedCalls(p.files, r) # {}
           imports(r) == \E q \in InRepo(p.files, r) :
               Rec(p.files, q).imports \cap UNION {SymbolsOf(p.files, s) : s \in Repos} # {}
           head == FlattenSeq([j \in 1..Len(p.scope) |-> RepoPlan(p, p.scope[j])])
           t1 == <<Stmt("ClearHttpFlows", ""), Stmt("ClearKafkaFlows", "")>>
           t2 == FlattenSeq([j \in 1..Len(p.scope) |->
                     IF calls(p.scope[j]) THEN <<Stmt("Calls", p.scope[j])>> ELSE << >>])
           t3 == FlattenSeq([j \in 1..Len(p.scope) |->
                     IF imports(p.scope[j]) THEN <<Stmt("Imports", p.scope[j])>> ELSE << >>])
           t4 == IF HttpFlows(p.files) # {} THEN <<Stmt("HttpFlows", "")>> ELSE << >>
           t5 == IF KafkaFlows(p.files) # {} THEN <<Stmt("KafkaFlows", "")>> ELSE << >>
<1>1. Plan(p) = head \o t1 \o t2 \o t3 \o t4 \o t5
    BY DEF Plan
<1>2. \A r \in R : (calls(r) <=> r \in C) /\ (imports(r) <=> r \in I)
    BY DEF LatePlanned
<1>3. /\ t2 \in Seq(Late(R)) /\ \A r \in C : Holds(t2, Stmt("Calls", r))
      /\ t3 \in Seq(Late(R)) /\ \A r \in I : Holds(t3, Stmt("Imports", r))
  <2> HIDE DEF calls, imports
  <2>1. \A j \in 1..Len(p.scope) : p.scope[j] \in R
      BY ElementOfSeq
  <2>2. C \subseteq R /\ I \subseteq R
      OBVIOUS
  <2> HIDE DEF C, I
  <2>3. [j \in 1..Len(p.scope) |-> IF calls(p.scope[j]) THEN <<Stmt("Calls", p.scope[j])>> ELSE << >>]
        = [j \in 1..Len(p.scope) |-> IF p.scope[j] \in C THEN <<Stmt("Calls", p.scope[j])>> ELSE << >>]
      BY <1>2, <2>1
  <2>4. [j \in 1..Len(p.scope) |-> IF imports(p.scope[j]) THEN <<Stmt("Imports", p.scope[j])>> ELSE << >>]
        = [j \in 1..Len(p.scope) |-> IF p.scope[j] \in I THEN <<Stmt("Imports", p.scope[j])>> ELSE << >>]
      BY <1>2, <2>1
  <2>5. "Calls" \in LinkOps /\ "Imports" \in LinkOps
      BY DEF LinkOps
  <2>6. t2 = FlattenSeq([j \in 1..Len(p.scope) |-> IF p.scope[j] \in C THEN <<Stmt("Calls", p.scope[j])>> ELSE << >>])
      BY <2>3
  <2>7. t3 = FlattenSeq([j \in 1..Len(p.scope) |-> IF p.scope[j] \in I THEN <<Stmt("Imports", p.scope[j])>> ELSE << >>])
      BY <2>4
  <2> HIDE DEF t2, t3
  <2>8. t2 \in Seq(Late(R)) /\ \A r \in C \cap R : Holds(t2, Stmt("Calls", r))
      BY <2>5, <2>6, LinksHeld
  <2>9. t3 \in Seq(Late(R)) /\ \A r \in I \cap R : Holds(t3, Stmt("Imports", r))
      BY <2>5, <2>7, LinksHeld
  <2> QED
      BY <2>2, <2>8, <2>9
<1> HIDE DEF calls, imports
<1>4. /\ t4 \in Seq(Late(R)) /\ (HttpFlows(p.files) # {} => Holds(t4, Stmt("HttpFlows", "")))
      /\ t5 \in Seq(Late(R)) /\ (KafkaFlows(p.files) # {} => Holds(t5, Stmt("KafkaFlows", "")))
  <2> DEFINE S == Late(R)
  <2>1. Stmt("HttpFlows", "") \in S /\ Stmt("KafkaFlows", "") \in S
      BY DEF Stmt, Late, LateOps
  <2> HIDE DEF S
  <2>2. << >> \in Seq(S) /\ \A x \in S : <<x>> \in Seq(S)
      OBVIOUS
  <2>3. \A x : Holds(<<x>>, x)
      BY DEF Holds
  <2> QED
      BY <2>1, <2>2, <2>3 DEF S
<1>5. LateLast(head \o t1, R)
  <2>1. head \in Seq(Early(R))
      BY HeadEarly
  <2> DEFINE S == Early(R)
  <2>2. Stmt("ClearHttpFlows", "") \in S /\ Stmt("ClearKafkaFlows", "") \in S
      BY DEF Stmt, Early, EarlyOps
  <2> HIDE DEF S, head
  <2>3. \A a, b \in S : <<a, b>> \in Seq(S)
      OBVIOUS
  <2>4. t1 \in Seq(S)
      BY <2>2, <2>3
  <2> QED
      BY <2>1, <2>4, EarlyFirst DEF S
<1> HIDE DEF head, t1, t2, t3, t4, t5
<1>6. PICK u1 : u1 = head \o t1
    OBVIOUS
<1>7. PICK u2 : u2 = u1 \o t2
    OBVIOUS
<1>8. PICK u3 : u3 = u2 \o t3
    OBVIOUS
<1>9. PICK u4 : u4 = u3 \o t4
    OBVIOUS
<1>10. PICK u5 : u5 = u4 \o t5
    OBVIOUS
<1>11. Plan(p) = u5
    BY <1>1, <1>6, <1>7, <1>8, <1>9, <1>10
<1>12. LateLast(u1, R)
    BY <1>5, <1>6
<1>13. LateLast(u2, R) /\ \A x : Holds(t2, x) => Holds(u2, x)
    BY <1>3, <1>7, <1>12, LateAfter
<1>14. LateLast(u3, R) /\ \A x : Holds(u2, x) \/ Holds(t3, x) => Holds(u3, x)
    BY <1>3, <1>8, <1>13, LateAfter
<1>15. LateLast(u4, R) /\ \A x : Holds(u3, x) \/ Holds(t4, x) => Holds(u4, x)
    BY <1>4, <1>9, <1>14, LateAfter
<1>16. LateLast(u5, R) /\ \A x : Holds(u4, x) \/ Holds(t5, x) => Holds(u5, x)
    BY <1>4, <1>10, <1>15, LateAfter
<1>17. \A r \in R, op \in LinkOps : LatePlanned(p, op, r) => Holds(u5, Stmt(op, r))
    BY <1>3, <1>13, <1>14, <1>15, <1>16 DEF LinkOps
<1> QED
    BY <1>4, <1>11, <1>15, <1>16, <1>17

-----------------------------------------------------------------------------
(***************************************************************************)
(* What a refresh of the files F at commit sha is to leave.                 *)
(***************************************************************************)
\* Labels of nodes that persist, and of those that a refresh clears.
Lasting == {"Repository", "KafkaTopic"}
Classes == {"Commit", "File", "Symbol", "Chunk", "Module"} \cup FeatureLabels

\* The nodes and edges of ExactlyIndexed.
TargetNodes(F, sha) == {CommitNode(r, sha) : r \in Repos} \cup FileNodes(F) \cup DerivedNodes(F)
SpineEdges(F, sha) ==
    {<<CommitNode(RepoOf[p], sha), "CONTAINS", FileNode(p)>> : p \in DOMAIN F}
    \cup {<<RepoNode(r), "HAS_COMMIT", CommitNode(r, sha)>> : r \in Repos}
TargetEdges(F, sha) ==
    SpineEdges(F, sha) \cup LocalEdges(F) \cup OwnerEdges(F)
    \cup AllFlowEdges(F) \cup CallEdges(F) \cup ImportEdges(F)

\* The node has the properties that the files F give it.
ValueIs(g, F, n) ==
    /\ n[1] = "File" => g.node[n] = F[n[3]]
    /\ n[1] = "Symbol" => F[g.node[n][1]] = g.node[n][2] /\ n[3] \in Rec(F, g.node[n][1]).syms
    /\ n[1] = "Chunk" => g.node[n] = F[n[3][1]]

\* Every node of repository r that a refresh clears is one that it writes.
Pure(g, F, sha, r) == \A n \in DOMAIN g.node : n[1] \in Classes /\ n[2] = r => n \in TargetNodes(F, sha)

\* Nodes that do not last are of a repository, commits hang on theirs, and no
\* edge joins two nodes that last.
NodeShape(n) == n[1] \in Lasting \/ (n[1] \in Classes /\ n[2] \in Repos)
EdgeShape(e) == e[1][1] \notin Lasting \/ e[3][1] \notin Lasting
Shapely(N, E) ==
    /\ \A n \in N : NodeShape(n) /\ (n[1] = "Commit" => <<RepoNode(n[2]), "HAS_COMMIT", n>> \in E)
    /\ \A e \in E : EdgeShape(e)
Shape(g) == Shapely(DOMAIN g.node, g.edge)

\* A statement that merges some of what it is to leave, and no other edges if
\* what it finds is pure.
Merges(g, h, F, sha, pure) ==
    \E N, E :
       /\ Merged(g, h, N, E) /\ Shapely(N, E)
       /\ \A n \in N : n[1] \notin Lasting => n \in TargetNodes(F, sha) /\ ValueIs(h, F, n)
       /\ pure => E \subseteq TargetEdges(F, sha)

\* The features and topics of a file have labels of their own.
LEMMA LabelsApart ==
    /\ \A l \in FeatureLabels : l \notin {"Commit", "File", "Symbol", "Chunk", "Module", "Repository", "KafkaTopic"}
    /\ Lasting \cap Classes = {} /\ KafkaLabels \subseteq FeatureLabels /\ HttpLabels \subseteq FeatureLabels
    /\ FeatureLabels \subseteq Classes
BY DEF FeatureLabels, HttpLabels, KafkaLabels, Lasting, Classes

\* What is derived from a file is among what is derived from all.
LEMMA DerivedHas ==
    ASSUME NEW F, NEW p \in DOMAIN F
    PROVE  /\ ModuleNode(RepoOf[p], Rec(F, p).module) \in DerivedNodes(F)
           /\ \A s \in Rec(F, p).syms : SymbolNode(RepoOf[p], s) \in DerivedNodes(F)
           /\ \A k \in Rec(F, p).chunks : ChunkNode(p, k) \in DerivedNodes(F)
           /\ \A ft \in Rec(F, p).feats : ft.kind \in FeatureLabels => FeatureNode(p, ft) \in DerivedNodes(F)
<1>1. ASSUME NEW ft \in Rec(F, p).feats, ft.kind \in FeatureLabels PROVE FeatureNode(p, ft) \in DerivedNodes(F)
  <2>1. <<p, ft>> \in {<<p, x>> : x \in {y \in Rec(F, p).feats : y.kind \in FeatureLabels}}
      BY <1>1
  <2>2. <<p, ft>> \in FeaturesOf(F, FeatureLabels)
      BY <2>1 DEF FeaturesOf
  <2>3. <<p, ft>>[1] = p /\ <<p, ft>>[2] = ft
      OBVIOUS
  <2>4. FeatureNode(p, ft) \in {FeatureNode(x[1], x[2]) : x \in FeaturesOf(F, FeatureLabels)}
      BY <2>2, <2>3
  <2> QED
      BY <2>4 DEF DerivedNodes
<1>2. ASSUME NEW s \in Rec(F, p).syms PROVE SymbolNode(RepoOf[p], s) \in DerivedNodes(F)
  <2>1. SymbolNode(RepoOf[p], s) \in UNION {{SymbolNode(RepoOf[q], x) : x \in Rec(F, q).syms} : q \in DOMAIN F}
      OBVIOUS
  <2> QED
      BY <2>1 DEF DerivedNodes
<1>3. ASSUME NEW k \in Rec(F, p).chunks PROVE ChunkNode(p, k) \in DerivedNodes(F)
  <2>1. ChunkNode(p, k) \in UNION {{ChunkNode(q, x) : x \in Rec(F, q).chunks} : q \in DOMAIN F}
      OBVIOUS
  <2> QED
      BY <2>1 DEF DerivedNodes
<1>4. ModuleNode(RepoOf[p], Rec(F, p).module) \in DerivedNodes(F)
    BY DEF DerivedNodes
<1> QED
    BY <1>1, <1>2, <1>3, <1>4

\* What a statement writes for a file is among the edges of all.
LEMMA LocalHas ==
    ASSUME NEW F, NEW p \in DOMAIN F
    PROVE  /\ ModuleEdge(p, F[p]) \in LocalEdges(F)
           /\ \A s \in Rec(F, p).syms : DefineEdge(p, s) \in LocalEdges(F)
           /\ \A k \in Rec(F, p).chunks : ChunkEdge(p, k) \in LocalEdges(F)
           /\ \A e \in Nestings(p, F[p]) : EncloseEdge(p, e) \in LocalEdges(F)
           /\ \A ft \in Rec(F, p).feats : ft.kind \in FeatureLabels /\ ft.owner \in Rec(F, p).syms
                 => OwnerEdge(p, ft) \in LocalEdges(F)
           /\ \A ft \in Rec(F, p).feats : ft.kind \in KafkaLabels => TopicEdge(p, ft) \in LocalEdges(F)
<1>1. ASSUME NEW ft \in Rec(F, p).feats, NEW kinds, ft.kind \in kinds
      PROVE  <<p, ft>> \in FeaturesOf(F, kinds) /\ <<p, ft>>[1] = p /\ <<p, ft>>[2] = ft
  <2>1. <<p, ft>> \in {<<p, x>> : x \in {y \in Rec(F, p).feats : y.kind \in kinds}}
      BY <1>1
  <2> QED
      BY <2>1 DEF FeaturesOf
<1>2. ASSUME NEW ft \in Rec(F, p).feats, ft.kind \in FeatureLabels, ft.owner \in Rec(F, p).syms
      PROVE  OwnerEdge(p, ft) \in LocalEdges(F)
  <2>1. PICK x : x = <<p, ft>>
      OBVIOUS
  <2>2. x \in FeaturesOf(F, FeatureLabels) /\ x[1] = p /\ x[2] = ft
      BY <1>1, <1>2, <2>1
  <2>3. x \in {y \in FeaturesOf(F, FeatureLabels) : y[2].owner \in Rec(F, y[1]).syms}
      BY <1>2, <2>2
  <2>4. OwnerEdge(p, ft) = <<SymbolNode(RepoOf[x[1]], x[2].owner), OwnerRel(x[2].kind), FeatureNode(x[1], x[2])>>
      BY <2>2 DEF OwnerEdge
  <2>5. OwnerEdge(p, ft) \in {<<SymbolNode(RepoOf[y[1]], y[2].owner), OwnerRel(y[2].kind), FeatureNode(y[1], y[2])>> :
            y \in {z \in FeaturesOf(F, FeatureLabels) : z[2].owner \in Rec(F, z[1]).syms}}
      BY <2>3, <2>4
  <2> QED
      BY <2>5 DEF LocalEdges
<1>3. ASSUME NEW ft \in Rec(F, p).feats, ft.kind \in KafkaLabels
      PROVE  TopicEdge(p, ft) \in LocalEdges(F)
  <2>1. PICK x : x = <<p, ft>>
      OBVIOUS
  <2>2. x \in FeaturesOf(F, KafkaLabels) /\ x[1] = p /\ x[2] = ft
      BY <1>1, <1>3, <2>1
  <2>4. TopicEdge(p, ft) = <<FeatureNode(x[1], x[2]), TopicRel(x[2].kind), TopicNode(x[2].key)>>
      BY <2>2 DEF TopicEdge
  <2>5. TopicEdge(p, ft) \in {<<FeatureNode(y[1], y[2]), TopicRel(y[2].kind), TopicNode(y[2].key)>> :
            y \in FeaturesOf(F, KafkaLabels)}
      BY <2>2, <2>4
  <2> QED
      BY <2>5 DEF LocalEdges
<1>4. ASSUME NEW s \in Rec(F, p).syms PROVE DefineEdge(p, s) \in LocalEdges(F)
  <2>1. DefineEdge(p, s) \in UNION {{<<FileNode(q), "DEFINES", SymbolNode(RepoOf[q], x)>> : x \in Rec(F, q).syms} : q \in DOMAIN F}
      BY DEF DefineEdge
  <2> QED
      BY <2>1 DEF LocalEdges
<1>5. ASSUME NEW k \in Rec(F, p).chunks PROVE ChunkEdge(p, k) \in LocalEdges(F)
  <2>1. ChunkEdge(p, k) \in UNION {{<<FileNode(q), "HAS_CHUNK", ChunkNode(q, x)>> : x \in Rec(F, q).chunks} : q \in DOMAIN F}
      BY DEF ChunkEdge
  <2> QED
      BY <2>1 DEF LocalEdges
<1>6. ASSUME NEW e \in Nestings(p, F[p]) PROVE EncloseEdge(p, e) \in LocalEdges(F)
  <2>1. e \in {x \in Rec(F, p).encloses : x[1] \in Rec(F, p).syms}
      BY DEF Nestings, Rec
  <2>2. EncloseEdge(p, e) \in UNION {{<<SymbolNode(RepoOf[q], y[1]), "ENCLOSES", SymbolNode(RepoOf[q], y[2])>> :
            y \in {x \in Rec(F, q).encloses : x[1] \in Rec(F, q).syms}} : q \in DOMAIN F}
      BY <2>1 DEF EncloseEdge
  <2> QED
      BY <2>2 DEF LocalEdges
<1>7. ModuleEdge(p, F[p]) \in LocalEdges(F)
  <2>1. ModuleEdge(p, F[p]) \in {<<FileNode(q), "DEFINES_MODULE", ModuleNode(RepoOf[q], Rec(F, q).module)>> : q \in DOMAIN F}
      BY DEF ModuleEdge, Rec
  <2> QED
      BY <2>1 DEF LocalEdges
<1> QED
    BY <1>2, <1>3, <1>4, <1>5, <1>6, <1>7

\* So is the edge from the owner of a feature, wherever that is defined.
LEMMA OwnerHas ==
    ASSUME NEW F, NEW p \in DOMAIN F, NEW ft \in Rec(F, p).feats, ft.kind \in FeatureLabels,
           NEW r, r = RepoOf[p], ft.owner \in SymbolsOf(F, r)
    PROVE  OwnerEdge(p, ft) \in OwnerEdges(F)
<1>1. PICK x : x = <<p, ft>>
    OBVIOUS
<1>2. x \in FeaturesOf(F, FeatureLabels) /\ x[1] = p /\ x[2] = ft
  <2>1. <<p, ft>> \in {<<p, y>> : y \in {z \in Rec(F, p).feats : z.kind \in FeatureLabels}}
      OBVIOUS
  <2> QED
      BY <1>1, <2>1 DEF FeaturesOf
<1>3. x \in {y \in FeaturesOf(F, FeatureLabels) : y[2].owner \in SymbolsOf(F, RepoOf[y[1]])}
    BY <1>2
<1>4. OwnerEdge(p, ft) = <<SymbolNode(RepoOf[x[1]], x[2].owner), OwnerRel(x[2].kind), FeatureNode(x[1], x[2])>>
    BY <1>2 DEF OwnerEdge
<1>5. OwnerEdge(p, ft) \in {<<SymbolNode(RepoOf[y[1]], y[2].owner), OwnerRel(y[2].kind), FeatureNode(y[1], y[2])>> :
          y \in {z \in FeaturesOf(F, FeatureLabels) : z[2].owner \in SymbolsOf(F, RepoOf[z[1]])}}
    BY <1>3, <1>4
<1> QED
    BY <1>5 DEF OwnerEdges

\* A node that is derived from files is derived from one.
LEMMA DerivedIs ==
    ASSUME NEW F, NEW n \in DerivedNodes(F)
    PROVE  \E p \in DOMAIN F :
              \/ n = ModuleNode(RepoOf[p], Rec(F, p).module)
              \/ \E s \in Rec(F, p).syms : n = SymbolNode(RepoOf[p], s)
              \/ \E k \in Rec(F, p).chunks : n = ChunkNode(p, k)
              \/ \E ft \in Rec(F, p).feats : ft.kind \in FeatureLabels /\ n = FeatureNode(p, ft)
<1>1. CASE n \in {ModuleNode(RepoOf[p], Rec(F, p).module) : p \in DOMAIN F}
    BY <1>1
<1>2. CASE n \in UNION {{SymbolNode(RepoOf[p], s) : s \in Rec(F, p).syms} : p \in DOMAIN F}
    BY <1>2
<1>3. CASE n \in UNION {{ChunkNode(p, k) : k \in Rec(F, p).chunks} : p \in DOMAIN F}
    BY <1>3
<1>4. CASE n \in {FeatureNode(x[1], x[2]) : x \in FeaturesOf(F, FeatureLabels)}
  <2>1. PICK x \in FeaturesOf(F, FeatureLabels) : n = FeatureNode(x[1], x[2])
      BY <1>4
  <2>2. PICK q \in DOMAIN F : \E ft \in Rec(F, q).feats : ft.kind \in FeatureLabels /\ x = <<q, ft>>
      BY FeaturesAre
  <2>3. PICK ft \in Rec(F, q).feats : ft.kind \in FeatureLabels /\ x = <<q, ft>>
      BY <2>2
  <2>4. x[1] = q /\ x[2] = ft
      BY <2>3
  <2> QED
      BY <2>1, <2>3, <2>4
<1> QED
    BY <1>1, <1>2, <1>3, <1>4 DEF DerivedNodes

\* Target nodes by their label.
LEMMA TargetIs ==
    ASSUME NEW F, NEW sha, NEW n \in TargetNodes(F, sha)
    PROVE  /\ n[1] \in Classes
           /\ n[1] = "Commit" => \E r \in Repos : n = CommitNode(r, sha)
           /\ n[1] = "File" => \E p \in DOMAIN F : n = FileNode(p)
           /\ n[1] = "Symbol" => \E p \in DOMAIN F : \E s \in Rec(F, p).syms : n = SymbolNode(RepoOf[p], s)
           /\ n[1] \in FeatureLabels =>
                 \E p \in DOMAIN F : \E ft \in Rec(F, p).feats : ft.kind = n[1] /\ n = FeatureNode(p, ft)
           /\ n[1] \in Classes \ {"Commit", "File"} => n \in DerivedNodes(F)
<1>1. CASE n \in {CommitNode(r, sha) : r \in Repos}
  <2>1. n[1] = "Commit"
      BY <1>1 DEF CommitNode
  <2>2. n[1] \in Classes /\ n[1] \notin FeatureLabels
      BY <2>1, LabelsApart DEF Classes
  <2> QED
      BY <1>1, <2>1, <2>2
<1>2. CASE n \in FileNodes(F)
  <2>1. PICK p \in DOMAIN F : n = FileNode(p)
      BY <1>2 DEF FileNodes
  <2>2. n[1] = "File"
      BY <2>1, NodeParts
  <2>3. n[1] \in Classes /\ n[1] \notin FeatureLabels
      BY <2>2, LabelsApart DEF Classes
  <2> QED
      BY <2>1, <2>2, <2>3
<1>3. CASE n \in DerivedNodes(F)
  <2>1. PICK p \in DOMAIN F :
              \/ n = ModuleNode(RepoOf[p], Rec(F, p).module)
              \/ \E s \in Rec(F, p).syms : n = SymbolNode(RepoOf[p], s)
              \/ \E k \in Rec(F, p).chunks : n = ChunkNode(p, k)
              \/ \E ft \in Rec(F, p).feats : ft.kind \in FeatureLabels /\ n = FeatureNode(p, ft)
      BY <1>3, DerivedIs
  <2>2. CASE n = ModuleNode(RepoOf[p], Rec(F, p).module)
    <3>1. n[1] = "Module"
        BY <2>2 DEF ModuleNode
    <3>2. n[1] \in Classes /\ n[1] \notin FeatureLabels
        BY <3>1, LabelsApart DEF Classes
    <3> QED
        BY <1>3, <3>2, <3>1
  <2>3. CASE \E s \in Rec(F, p).syms : n = SymbolNode(RepoOf[p], s)
    <3>1. n[1] = "Symbol"
        BY <2>3 DEF SymbolNode
    <3>2. n[1] \in Classes /\ n[1] \notin FeatureLabels
        BY <3>1, LabelsApart DEF Classes
    <3> QED
        BY <1>3, <3>2, <2>3, <3>1
  <2>4. CASE \E k \in Rec(F, p).chunks : n = ChunkNode(p, k)
    <3>1. n[1] = "Chunk"
        BY <2>4 DEF ChunkNode
    <3>2. n[1] \in Classes /\ n[1] \notin FeatureLabels
        BY <3>1, LabelsApart DEF Classes
    <3> QED
        BY <1>3, <3>2, <3>1
  <2>5. CASE \E ft \in Rec(F, p).feats : ft.kind \in FeatureLabels /\ n = FeatureNode(p, ft)
    <3>1. PICK ft \in Rec(F, p).feats : ft.kind \in FeatureLabels /\ n = FeatureNode(p, ft)
        BY <2>5
    <3>2. n[1] = ft.kind
        BY <3>1 DEF FeatureNode
    <3>3. n[1] \in Classes /\ n[1] \notin {"Commit", "File", "Symbol"}
        BY <3>1, <3>2, LabelsApart
    <3> QED
        BY <1>3, <3>1, <3>2, <3>3
  <2> QED
      BY <2>1, <2>2, <2>3, <2>4, <2>5
<1> QED
    BY <1>1, <1>2, <1>3 DEF TargetNodes

\* A pure repository has no symbols but those of the files,
LEMMA PureSymbol ==
    ASSUME NEW g, NEW F, NEW sha, NEW r, Pure(g, F, sha, r), NEW s, Exists(g, SymbolNode(r, s))
    PROVE  \E p \in InRepo(F, r) : s \in Rec(F, p).syms
<1> DEFINE n == SymbolNode(r, s)
<1>1. n[1] = "Symbol" /\ n[2] = r /\ n[3] = s
    BY DEF SymbolNode
<1>2. n \in TargetNodes(F, sha)
    BY <1>1 DEF Pure, Exists, Classes
<1> HIDE DEF n
<1>3. PICK p \in DOMAIN F : \E t \in Rec(F, p).syms : n = SymbolNode(RepoOf[p], t)
    BY <1>1, <1>2, TargetIs
<1>4. PICK t \in Rec(F, p).syms : n = SymbolNode(RepoOf[p], t)
    BY <1>3
<1>5. t = s /\ RepoOf[p] = r
    BY <1>1, <1>4 DEF SymbolNode
<1> QED
    BY <1>4, <1>5 DEF InRepo

-----------------------------------------------------------------------------
(***************************************************************************)
(* What the statements of a repository merge.                              *)
(***************************************************************************)
\* A statement that finds nothing.
LEMMA NothingMerges == ASSUME NEW g, NEW F, NEW sha, NEW pure PROVE Merges(g, g, F, sha, pure)
<1>1. Shapely({}, {})
    BY DEF Shapely
<1> QED
    BY <1>1, NothingMerged DEF Merges

\* Of a parsed file.
LEMMA PathRepo == ASSUME NEW F, Parsed(F), NEW p \in DOMAIN F PROVE p \in Paths /\ RepoOf[p] \in Repos
BY GraphAssumption DEF Parsed

\* _UPSERT_REPO.
LEMMA RepoMerges ==
    ASSUME NEW g, NEW F, NEW sha, NEW pure, NEW r
    PROVE  Merges(g, UpsertRepo(g, r, sha), F, sha, pure)
<1>1. Merged(g, UpsertRepo(g, r, sha), {RepoNode(r)}, {})
    BY UpsertRepoIs
<1>2. RepoNode(r)[1] = "Repository"
    BY DEF RepoNode
<1>3. \A n \in {RepoNode(r)} : n[1] \in Lasting /\ n[1] # "Commit"
    BY <1>2 DEF Lasting
<1>4. Shapely({RepoNode(r)}, {})
    BY <1>3 DEF Shapely, NodeShape
<1> QED
    BY <1>1, <1>3, <1>4 DEF Merges

\* _UPSERT_COMMIT.
LEMMA CommitMerges ==
    ASSUME NEW g, NEW F, NEW sha, NEW pure, NEW r \in Repos
    PROVE  Merges(g, UpsertCommit(g, r, sha), F, sha, pure)
<1> DEFINE N == {CommitNode(r, sha)}
           E == {CommitEdge(r, sha)}
           h == UpsertCommit(g, r, sha)
<1>1. CASE ~ Exists(g, RepoNode(r))
    BY <1>1, UpsertCommitIs, NothingMerges
<1>2. CASE Exists(g, RepoNode(r))
  <2>1. Merged(g, h, N, E)
      BY <1>2, UpsertCommitIs
  <2>2. \A n \in N : n = CommitNode(r, sha) /\ n[1] = "Commit" /\ n[2] = r
      BY DEF CommitNode
  <2>3. \A n \in N : n \in TargetNodes(F, sha) /\ ValueIs(h, F, n)
      BY <2>2 DEF TargetNodes, ValueIs
  <2>4. \A e \in E : e = <<RepoNode(r), "HAS_COMMIT", CommitNode(r, sha)>>
      BY DEF CommitEdge
  <2>5. E \subseteq TargetEdges(F, sha)
      BY <2>4 DEF TargetEdges, SpineEdges
  <2>6. \A e \in E : EdgeShape(e)
      BY <2>4 DEF EdgeShape, Lasting, CommitNode
  <2>7. \A n \in N : <<RepoNode(n[2]), "HAS_COMMIT", n>> \in E
      BY <2>2 DEF CommitEdge
  <2>8. "Commit" \in Classes
      BY DEF Classes
  <2> HIDE DEF N, E, h
  <2>9. Shapely(N, E)
      BY <2>2, <2>6, <2>7, <2>8 DEF Shapely, NodeShape
  <2>10. Merges(g, h, F, sha, pure)
      BY <2>1, <2>3, <2>5, <2>9 DEF Merges
  <2> QED
      BY <2>10 DEF h
<1> QED
    BY <1>1, <1>2

\* What remains to be seen of a merge of nodes that are no commits.
LEMMA MergesOf ==
    ASSUME NEW g, NEW h, NEW N, NEW E, Merged(g, h, N, E), NEW F, NEW sha, NEW pure,
           \A n \in N : \/ n[1] \in Lasting
                        \/ /\ n[1] \in Classes \ {"Commit"} /\ n[2] \in Repos
                           /\ n \in TargetNodes(F, sha) /\ ValueIs(h, F, n),
           \A e \in E : e[1][1] \in Classes,
           pure => E \subseteq TargetEdges(F, sha)
    PROVE  Merges(g, h, F, sha, pure)
<1>1. Shapely(N, E)
  <2>1. \A n \in N : NodeShape(n) /\ n[1] # "Commit"
      BY DEF NodeShape, Lasting
  <2>2. \A e \in E : EdgeShape(e)
      BY LabelsApart DEF EdgeShape
  <2> QED
      BY <2>1, <2>2 DEF Shapely
<1> QED
    BY <1>1 DEF Merges

\* _UPSERT_FILES.
LEMMA FilesMerge ==
    ASSUME NEW g, NEW F, Parsed(F), NEW sha, NEW pure, NEW r \in Repos
    PROVE  Merges(g, UpsertFiles(g, r, sha, F), F, sha, pure)
<1> DEFINE N == FileNodesOf(F, r)
           E == ContainsEdges(F, r, sha)
           props == [n \in N |-> F[n[3]]]
           h == UpsertFiles(g, r, sha, F)
<1>1. CASE ~ Exists(g, CommitNode(r, sha))
    BY <1>1, UpsertFilesIs, NothingMerges
<1>2. CASE Exists(g, CommitNode(r, sha))
  <2>1. Merged(g, h, N, E)
      BY <1>2, UpsertFilesIs
  <2>2. h = Upsert(g, props, E) /\ DOMAIN props = N /\ \A n \in N : props[n] = F[n[3]]
      BY <1>2 DEF UpsertFiles, FileNodesOf, ContainsEdges
  <2>3. \A n \in N : h.node[n] = F[n[3]]
    <3> HIDE DEF props, N, E, h
    <3> QED
        BY <2>2, UpsertSets
  <2>4. ASSUME NEW n \in N
        PROVE  n[1] = "File" /\ n[2] \in Repos /\ n \in TargetNodes(F, sha)
    <3>1. PICK p \in InRepo(F, r) : n = FileNode(p)
        BY DEF FileNodesOf
    <3>2. n[1] = "File" /\ n[2] = r
        BY <3>1 DEF FileNode, InRepo
    <3> QED
        BY <3>1, <3>2 DEF TargetNodes, FileNodes, InRepo
  <2>5. ASSUME NEW e \in E PROVE e[1][1] = "Commit" /\ e \in TargetEdges(F, sha)
    <3>1. PICK p \in InRepo(F, r) : e = <<CommitNode(r, sha), "CONTAINS", FileNode(p)>>
        BY DEF ContainsEdges
    <3>2. RepoOf[p] = r /\ p \in DOMAIN F
        BY DEF InRepo
    <3>3. e \in SpineEdges(F, sha)
        BY <3>1, <3>2 DEF SpineEdges
    <3> QED
        BY <3>1, <3>3 DEF TargetEdges, CommitNode
  <2> HIDE DEF N, E, h
  <2>6. \A n \in N : n[1] \in Classes \ {"Commit"} /\ ValueIs(h, F, n)
      BY <2>3, <2>4 DEF Classes, ValueIs
  <2>7. \A e \in E : e[1][1] \in Classes
      BY <2>5 DEF Classes
  <2>8. Merges(g, h, F, sha, pure)
      BY <2>1, <2>4, <2>5, <2>6, <2>7, MergesOf
  <2> QED
      BY <2>8 DEF h
<1> QED
    BY <1>1, <1>2

\* _UPSERT_MODULES.
LEMMA ModulesMerge ==
    ASSUME NEW g, NEW F, Parsed(F), NEW sha, NEW pure, NEW r \in Repos
    PROVE  Merges(g, UpsertModules(g, r, F), F, sha, pure)
<1> DEFINE N == {ModuleNode(r, Rec(F, p).module) : p \in InRepo(F, r)}
           E == {<<FileNode(p), "DEFINES_MODULE", ModuleNode(r, Rec(F, p).module)>> : p \in FilesIn(g, F, r)}
           props == [n \in N |-> CHOOSE p \in InRepo(F, r) : Rec(F, p).module = n[3]]
           h == UpsertModules(g, r, F)
<1>1. h = Upsert(g, props, E) /\ DOMAIN props = N
    BY DEF UpsertModules, FilesIn
<1>2. Merged(g, h, N, E)
  <2> HIDE DEF props, N, E, h
  <2> QED
      BY <1>1, UpsertMerges
<1>3. ASSUME NEW n \in N
      PROVE  n[1] = "Module" /\ n[2] = r /\ n \in TargetNodes(F, sha)
  <2>1. PICK p \in InRepo(F, r) : n = ModuleNode(r, Rec(F, p).module)
      OBVIOUS
  <2>2. RepoOf[p] = r /\ p \in DOMAIN F
      BY DEF InRepo
  <2>3. n \in DerivedNodes(F)
      BY <2>1, <2>2, DerivedHas
  <2> QED
      BY <2>1, <2>3 DEF TargetNodes, ModuleNode
<1>4. ASSUME NEW e \in E PROVE e[1][1] = "File" /\ e \in TargetEdges(F, sha)
  <2>1. PICK p \in FilesIn(g, F, r) : e = <<FileNode(p), "DEFINES_MODULE", ModuleNode(r, Rec(F, p).module)>>
      OBVIOUS
  <2>2. RepoOf[p] = r /\ p \in DOMAIN F
      BY DEF FilesIn, InRepo
  <2>3. e = ModuleEdge(p, F[p])
      BY <2>1, <2>2 DEF ModuleEdge, Rec
  <2>4. e \in LocalEdges(F)
      BY <2>2, <2>3, LocalHas
  <2> QED
      BY <2>1, <2>4 DEF TargetEdges, FileNode
<1> HIDE DEF N, E, h
<1>5. \A n \in N : n[1] \in Classes \ {"Commit"} /\ ValueIs(h, F, n)
    BY <1>3 DEF Classes, ValueIs
<1>6. \A e \in E : e[1][1] \in Classes
    BY <1>4 DEF Classes
<1>7. Merges(g, h, F, sha, pure)
    BY <1>2, <1>3, <1>4, <1>5, <1>6, MergesOf
<1> QED
    BY <1>7 DEF h

\* _UPSERT_CHUNKS.
LEMMA ChunksMerge ==
    ASSUME NEW g, NEW F, Parsed(F), NEW sha, NEW pure, NEW r \in Repos
    PROVE  Merges(g, UpsertChunks(g, r, F), F, sha, pure)
<1> DEFINE N == ChunkNodesOf(F, r)
           E == ChunkEdges(F, r, FilesIn(g, F, r))
           props == [n \in N |-> F[n[3][1]]]
           h == UpsertChunks(g, r, F)
<1>1. Merged(g, h, N, E)
    BY UpsertChunksIs
<1>2. \A n \in N : h.node[n] = F[n[3][1]]
  <2> DEFINE D == {<<FileNode(x[1]), "HAS_CHUNK", ChunkNode(x[1], x[2])>> :
                       x \in {y \in ChunksOf(F, r) : Exists(g, FileNode(y[1]))}}
  <2>1. h = Upsert(g, props, D) /\ DOMAIN props = N /\ \A n \in N : props[n] = F[n[3][1]]
      BY DEF UpsertChunks, ChunkNodesOf
  <2> HIDE DEF props, N, D, h
  <2> QED
      BY <2>1, UpsertSets
<1>3. ASSUME NEW x \in ChunksOf(F, r)
      PROVE  x[1] \in DOMAIN F /\ RepoOf[x[1]] = r /\ x[2] \in Rec(F, x[1]).chunks
  <2>1. PICK p \in InRepo(F, r) : x \in {<<p, k>> : k \in Rec(F, p).chunks}
      BY DEF ChunksOf
  <2>2. PICK k \in Rec(F, p).chunks : x = <<p, k>>
      BY <2>1
  <2>3. x[1] = p /\ x[2] = k
      BY <2>2
  <2> QED
      BY <2>2, <2>3 DEF InRepo
<1>4. ASSUME NEW n \in N
      PROVE  n[1] = "Chunk" /\ n[2] = r /\ n \in TargetNodes(F, sha)
  <2>1. PICK x \in ChunksOf(F, r) : n = ChunkNode(x[1], x[2])
      BY DEF ChunkNodesOf
  <2>2. n \in DerivedNodes(F)
      BY <1>3, <2>1, DerivedHas
  <2>3. n[1] = "Chunk" /\ n[2] = r
      BY <1>3, <2>1 DEF ChunkNode
  <2> QED
      BY <2>2, <2>3 DEF TargetNodes
<1>5. ASSUME NEW e \in E PROVE e[1][1] = "File" /\ e \in TargetEdges(F, sha)
  <2>1. PICK x \in ChunksOf(F, r) : e = <<FileNode(x[1]), "HAS_CHUNK", ChunkNode(x[1], x[2])>>
      BY DEF ChunkEdges
  <2>2. e = ChunkEdge(x[1], x[2])
      BY <2>1 DEF ChunkEdge
  <2>3. e \in LocalEdges(F)
      BY <1>3, <2>2, LocalHas
  <2> QED
      BY <2>1, <2>3 DEF TargetEdges, FileNode
<1> HIDE DEF N, E, h
<1>6. \A n \in N : n[1] \in Classes \ {"Commit"} /\ ValueIs(h, F, n)
    BY <1>2, <1>4 DEF Classes, ValueIs
<1>7. \A e \in E : e[1][1] \in Classes
    BY <1>5 DEF Classes
<1>8. Merges(g, h, F, sha, pure)
    BY <1>1, <1>4, <1>5, <1>6, <1>7, MergesOf
<1> QED
    BY <1>8 DEF h

\* Where no symbol of another file encloses one, what encloses a symbol of a
\* file is of that file, if it is a symbol of the repository.
LEMMA ParentMine ==
    ASSUME ParentsLocal, NEW F, Parsed(F), NEW p \in DOMAIN F, NEW q \in DOMAIN F, RepoOf[p] = RepoOf[q],
           NEW s \in Rec(F, q).syms, \E e \in Rec(F, p).encloses : s = e[1]
    PROVE  s \in Rec(F, p).syms
<1>1. CASE p = q
    BY <1>1
<1>2. CASE p # q
  <2> DEFINE c == F[p]
             d == F[q]
             A == {e[1] : e \in Parse[p][c].encloses}
  <2>1. p \in Paths /\ q \in Paths /\ c \in DOMAIN Parse[p] /\ d \in DOMAIN Parse[q]
      BY DEF Parsed
  <2>2. A \cap Parse[q][d].syms \subseteq Parse[p][c].syms
      BY <1>2, <2>1 DEF ParentsLocal
  <2>3. s \in A
      BY DEF Rec
  <2> HIDE DEF A
  <2> QED
      BY <2>2, <2>3 DEF Rec
<1> QED
    BY <1>1, <1>2

\* _UPSERT_SYMBOLS.
LEMMA SymbolsMerge ==
    ASSUME ParentsLocal, NEW g, NEW F, Parsed(F), NEW sha, NEW r \in Repos
    PROVE  Merges(g, UpsertSymbols(g, r, F), F, sha, Pure(g, F, sha, r))
<1> DEFINE definer(s) == CHOOSE p \in InRepo(F, r) : s \in Rec(F, p).syms
           N == SymbolNodesOf(F, r)
           props == [n \in N |-> <<definer(n[3]), F[definer(n[3])]>>]
           there == DOMAIN g.node \cup N
           enc(p) == {<<SymbolNode(r, e[1]), "ENCLOSES", SymbolNode(r, e[2])>> :
                          e \in {x \in Rec(F, p).encloses : SymbolNode(r, x[1]) \in there}}
           C == UNION {enc(p) : p \in FilesIn(g, F, r)}
           D == DefinesEdges(F, r, FilesIn(g, F, r))
           h == UpsertSymbols(g, r, F)
<1>1. h = Upsert(g, props, D \cup C)
    BY DEF UpsertSymbols, SymbolNodesOf, DefinesEdges, FilesIn
<1>2. DOMAIN props = N /\ \A n \in N : props[n] = <<definer(n[3]), F[definer(n[3])]>>
    OBVIOUS
<1>3. Merged(g, h, N, D \cup C) /\ \A n \in N : h.node[n] = props[n]
  <2> HIDE DEF props, C, D, h, N
  <2> QED
      BY <1>1, <1>2, UpsertMerges, UpsertSets
<1>4. ASSUME NEW s \in SymbolsOf(F, r)
      PROVE  \E p \in InRepo(F, r) : s \in Rec(F, p).syms
    BY DEF SymbolsOf
<1>5. ASSUME NEW n \in N
      PROVE  /\ n[1] = "Symbol" /\ n[2] = r /\ n[3] \in SymbolsOf(F, r)
             /\ n \in TargetNodes(F, sha)
  <2>1. PICK s \in SymbolsOf(F, r) : n = SymbolNode(r, s)
      BY DEF SymbolNodesOf
  <2>2. PICK p \in InRepo(F, r) : s \in Rec(F, p).syms
      BY <1>4
  <2>3. n \in DerivedNodes(F)
      BY <2>1, <2>2, DerivedHas DEF InRepo
  <2> QED
      BY <2>1, <2>3 DEF SymbolNode, TargetNodes
<1>6. ASSUME NEW n \in N
      PROVE  F[h.node[n][1]] = h.node[n][2] /\ n[3] \in Rec(F, h.node[n][1]).syms
  <2>1. PICK q : q = definer(n[3])
      OBVIOUS
  <2>2. n[3] \in Rec(F, q).syms
    <3>1. \E p \in InRepo(F, r) : n[3] \in Rec(F, p).syms
        BY <1>4, <1>5
    <3> QED
        BY <2>1, <3>1
  <2> HIDE DEF definer
  <2>3. h.node[n] = <<q, F[q]>>
      BY <1>2, <1>3, <2>1
  <2>4. h.node[n][1] = q /\ h.node[n][2] = F[q]
      BY <2>3
  <2> QED
      BY <2>2, <2>4
<1>7. ASSUME NEW e \in D PROVE e[1][1] = "File" /\ e \in TargetEdges(F, sha)
  <2>1. PICK p \in FilesIn(g, F, r) : e \in {<<FileNode(p), "DEFINES", SymbolNode(r, s)>> : s \in Rec(F, p).syms}
      BY DEF DefinesEdges
  <2>2. PICK s \in Rec(F, p).syms : e = <<FileNode(p), "DEFINES", SymbolNode(r, s)>>
      BY <2>1
  <2>3. RepoOf[p] = r /\ p \in DOMAIN F
      BY DEF FilesIn, InRepo
  <2>4. e = DefineEdge(p, s)
      BY <2>2, <2>3 DEF DefineEdge
  <2>5. e \in LocalEdges(F)
      BY <2>3, <2>4, LocalHas
  <2> QED
      BY <2>2, <2>5 DEF TargetEdges, FileNode
<1>8. ASSUME NEW e \in C
      PROVE  e[1][1] = "Symbol" /\ (Pure(g, F, sha, r) => e \in TargetEdges(F, sha))
  <2>1. PICK p \in FilesIn(g, F, r) : e \in enc(p)
      OBVIOUS
  <2>2. PICK x \in Rec(F, p).encloses :
            SymbolNode(r, x[1]) \in there /\ e = <<SymbolNode(r, x[1]), "ENCLOSES", SymbolNode(r, x[2])>>
      BY <2>1
  <2>3. RepoOf[p] = r /\ p \in DOMAIN F
      BY DEF FilesIn, InRepo
  <2>4. ASSUME Pure(g, F, sha, r) PROVE e \in TargetEdges(F, sha)
    <3>1. \E q \in InRepo(F, r) : x[1] \in Rec(F, q).syms
      <4>1. CASE SymbolNode(r, x[1]) \in DOMAIN g.node
          BY <2>4, <4>1, PureSymbol DEF Exists
      <4>2. CASE SymbolNode(r, x[1]) \in N
        <5>1. PICK s \in SymbolsOf(F, r) : SymbolNode(r, x[1]) = SymbolNode(r, s)
            BY <4>2 DEF SymbolNodesOf
        <5>2. s = x[1]
            BY <5>1 DEF SymbolNode
        <5> QED
            BY <1>4, <5>2
      <4> QED
          BY <2>2, <4>1, <4>2
    <3>2. PICK q \in InRepo(F, r) : x[1] \in Rec(F, q).syms
        BY <3>1
    <3>3. PICK s : s = x[1]
        OBVIOUS
    <3>4. q \in DOMAIN F /\ RepoOf[p] = RepoOf[q] /\ s \in Rec(F, q).syms
        BY <2>3, <3>2, <3>3 DEF InRepo
    <3>5. \E y \in Rec(F, p).encloses : s = y[1]
        BY <3>3
    <3>6. s \in Rec(F, p).syms
        BY <2>3, <3>4, <3>5, ParentMine
    <3>7. x \in Nestings(p, F[p])
        BY <3>3, <3>6 DEF Nestings, Rec
    <3>8. e = EncloseEdge(p, x)
        BY <2>2, <2>3 DEF EncloseEdge
    <3>9. e \in LocalEdges(F)
        BY <2>3, <3>7, <3>8, LocalHas
    <3> QED
        BY <3>9 DEF TargetEdges
  <2> QED
      BY <2>2, <2>4 DEF SymbolNode
<1> HIDE DEF N, C, D, h, props
<1>9. \A n \in N : n[1] \in Classes \ {"Commit"} /\ ValueIs(h, F, n)
    BY <1>5, <1>6 DEF Classes, ValueIs
<1>10. \A e \in D \cup C : e[1][1] \in Classes
    BY <1>7, <1>8 DEF Classes
<1>11. PICK E : E = D \cup C
    OBVIOUS
<1>12. PICK pure \in BOOLEAN : pure <=> Pure(g, F, sha, r)
    BY DEF Pure
<1>13. pure => E \subseteq TargetEdges(F, sha)
    BY <1>7, <1>8, <1>11, <1>12
<1>14. Merges(g, h, F, sha, pure)
    BY <1>3, <1>5, <1>9, <1>10, <1>11, <1>13, MergesOf
<1> QED
    BY <1>12, <1>14 DEF h, Merges

\* One of _UPSERT_ROUTES, _HTTP_CLIENTS, _KAFKA_PRODUCERS, _KAFKA_CONSUMERS.
LEMMA FeaturesMerge ==
    ASSUME NEW g, NEW F, Parsed(F), NEW sha, NEW r \in Repos, NEW op \in FeatureLabels
    PROVE  Merges(g, UpsertFeatures(g, op, r, F), F, sha, Pure(g, F, sha, r))
<1> DEFINE fs == {x \in FeaturesOf(F, {op}) : RepoOf[x[1]] = r}
           topics == IF op \in KafkaLabels THEN {TopicNode(x[2].key) : x \in fs} ELSE {}
           nodes == {FeatureNode(x[1], x[2]) : x \in fs}
           N == nodes \cup topics
           props == [n \in N |-> n[3]]
           own == {<<SymbolNode(r, x[2].owner), OwnerRel(op), FeatureNode(x[1], x[2])>> :
                      x \in {y \in fs : Exists(g, SymbolNode(r, y[2].owner))}}
           to == {<<FeatureNode(x[1], x[2]), TopicRel(op), TopicNode(x[2].key)>> :
                      x \in {y \in fs : op \in KafkaLabels}}
           E == own \cup to
           h == UpsertFeatures(g, op, r, F)
<1>1. h = Upsert(g, props, E) /\ DOMAIN props = N
    BY DEF UpsertFeatures
<1>2. Merged(g, h, N, E)
  <2> HIDE DEF h, props, N, E
  <2> QED
      BY <1>1, UpsertMerges
<1>3. ASSUME NEW x \in fs
      PROVE  x[1] \in DOMAIN F /\ RepoOf[x[1]] = r /\ x[2] \in Rec(F, x[1]).feats /\ x[2].kind = op
  <2>1. x[1] \in InRepo(F, r) /\ x[2] \in Feats(x[1], F[x[1]], op)
      BY FeaturesOfOK
  <2> QED
      BY <2>1 DEF InRepo, Feats, Rec
<1> HIDE DEF fs
<1>4. ASSUME NEW n \in N
      PROVE  \/ n[1] = "KafkaTopic"
             \/ n[1] = op /\ n[2] = r /\ n \in TargetNodes(F, sha)
  <2>1. CASE n \in nodes
    <3>1. PICK x \in fs : n = FeatureNode(x[1], x[2])
        BY <2>1
    <3>2. n[1] = op /\ n[2] = r
        BY <1>3, <3>1 DEF FeatureNode
    <3>3. n \in DerivedNodes(F)
        BY <1>3, <3>1, DerivedHas
    <3> QED
        BY <3>2, <3>3 DEF TargetNodes
  <2>2. CASE n \in topics
    <3>1. PICK x \in fs : n = TopicNode(x[2].key)
        BY <2>2
    <3> QED
        BY <3>1 DEF TopicNode
  <2> QED
      BY <2>1, <2>2
<1>5. ASSUME NEW e \in own
      PROVE  e[1][1] = "Symbol" /\ (Pure(g, F, sha, r) => e \in TargetEdges(F, sha))
  <2>1. PICK x \in fs : /\ Exists(g, SymbolNode(r, x[2].owner))
                        /\ e = <<SymbolNode(r, x[2].owner), OwnerRel(op), FeatureNode(x[1], x[2])>>
      OBVIOUS
  <2>2. PICK p : p = x[1]
      OBVIOUS
  <2>3. PICK ft : ft = x[2]
      OBVIOUS
  <2>4. PICK s : s = ft.owner
      OBVIOUS
  <2>5. /\ p \in DOMAIN F /\ RepoOf[p] = r /\ ft \in Rec(F, p).feats /\ ft.kind = op
        /\ Exists(g, SymbolNode(r, s)) /\ e = <<SymbolNode(r, s), OwnerRel(op), FeatureNode(p, ft)>>
      BY <1>3, <2>1, <2>2, <2>3, <2>4
  <2>6. ASSUME Pure(g, F, sha, r) PROVE e \in TargetEdges(F, sha)
    <3>1. PICK q \in InRepo(F, r) : s \in Rec(F, q).syms
        BY <2>5, <2>6, PureSymbol
    <3>2. ft.owner \in SymbolsOf(F, r)
        BY <2>4, <3>1 DEF SymbolsOf
    <3>3. e = OwnerEdge(p, ft)
        BY <2>4, <2>5 DEF OwnerEdge
    <3>4. e \in OwnerEdges(F)
        BY <2>5, <3>2, <3>3, OwnerHas
    <3> QED
        BY <3>4 DEF TargetEdges
  <2> QED
      BY <2>5, <2>6 DEF SymbolNode
<1>6. ASSUME NEW e \in to PROVE e[1][1] = op /\ e \in TargetEdges(F, sha)
  <2>1. PICK x \in fs : /\ op \in KafkaLabels
                        /\ e = <<FeatureNode(x[1], x[2]), TopicRel(op), TopicNode(x[2].key)>>
      OBVIOUS
  <2>2. PICK p : p = x[1]
      OBVIOUS
  <2>3. PICK ft : ft = x[2]
      OBVIOUS
  <2>4. /\ p \in DOMAIN F /\ ft \in Rec(F, p).feats /\ ft.kind = op
        /\ e = <<FeatureNode(p, ft), TopicRel(op), TopicNode(ft.key)>>
      BY <1>3, <2>1, <2>2, <2>3
  <2>5. e = TopicEdge(p, ft)
      BY <2>4 DEF TopicEdge
  <2>6. e \in LocalEdges(F)
      BY <2>1, <2>4, <2>5, LocalHas
  <2> QED
      BY <2>4, <2>6 DEF TargetEdges, FeatureNode
<1>7. ASSUME NEW e \in E
      PROVE  e[1][1] \in {"Symbol", op} /\ (Pure(g, F, sha, r) => e \in TargetEdges(F, sha))
    BY <1>5, <1>6
<1> HIDE DEF N, E, h
<1>8. op \in Classes \ {"Commit"} /\ op \notin {"File", "Symbol", "Chunk"} /\ "KafkaTopic" \in Lasting
    BY LabelsApart DEF Lasting
<1>9. ASSUME NEW n \in N
      PROVE  \/ n[1] \in Lasting
             \/ /\ n[1] \in Classes \ {"Commit"} /\ n[2] \in Repos
                /\ n \in TargetNodes(F, sha) /\ ValueIs(h, F, n)
  <2>1. CASE n[1] = "KafkaTopic"
      BY <1>8, <2>1
  <2>2. CASE n[1] = op /\ n[2] = r /\ n \in TargetNodes(F, sha)
    <3>1. ValueIs(h, F, n)
        BY <1>8, <2>2 DEF ValueIs
    <3> QED
        BY <1>8, <2>2, <3>1
  <2> QED
      BY <1>4, <2>1, <2>2
<1>10. \A e \in E : e[1][1] \in Classes
    BY <1>7, <1>8 DEF Classes
<1>12. PICK pure \in BOOLEAN : pure <=> Pure(g, F, sha, r)
    BY DEF Pure
<1>13. pure => E \subseteq TargetEdges(F, sha)
    BY <1>7, <1>12
<1>14. Merges(g, h, F, sha, pure)
    BY <1>2, <1>9, <1>10, <1>13, MergesOf
<1> QED
    BY <1>12, <1>14 DEF h, Merges

-----------------------------------------------------------------------------
(***************************************************************************)
(* What the links and the flows merge.                                     *)
(***************************************************************************)
\* Every repository is pure.
AllPure(g, F, sha) == \A r \in Repos : Pure(g, F, sha, r)

\* Then so is every node.
LEMMA PureNode ==
    ASSUME NEW g, Shape(g), NEW F, NEW sha, AllPure(g, F, sha), NEW n \in DOMAIN g.node, n[1] \in Classes
    PROVE  n \in TargetNodes(F, sha)
BY LabelsApart DEF Shape, Shapely, NodeShape, AllPure, Pure

\* Merging edges only.
LEMMA EdgesMerge ==
    ASSUME NEW g, NEW E, NEW F, NEW sha, \A e \in E : e[1][1] \in Classes,
           AllPure(g, F, sha) => E \subseteq TargetEdges(F, sha)
    PROVE  Merges(g, Upsert(g, << >>, E), F, sha, AllPure(g, F, sha))
<1> DEFINE h == Upsert(g, << >>, E)
<1>1. Merged(g, h, {}, E)
  <2>1. DOMAIN << >> = {}
      OBVIOUS
  <2> QED
      BY <2>1, UpsertMerges
<1>2. PICK pure \in BOOLEAN : pure <=> AllPure(g, F, sha)
    BY DEF AllPure
<1> HIDE DEF h
<1>3. pure => E \subseteq TargetEdges(F, sha)
    BY <1>2
<1>4. Merges(g, h, F, sha, pure)
    BY <1>1, <1>3, MergesOf
<1> QED
    BY <1>2, <1>4 DEF h, Merges

\* The calls that are resolved join symbols.
LEMMA CallsJoin == ASSUME NEW F, NEW r, NEW e \in ResolvedCalls(F, r) PROVE e[1][1] = "Symbol" /\ e[3][1] = "Symbol"
<1> DEFINE index == UNION {{SymbolNode(s, x) : x \in SymbolsOf(F, s)} : s \in Repos}
           found(x) == {n \in index : n[3] = x}
           target(p, x) ==
               CASE SymbolNode(r, x) \in index -> {SymbolNode(r, x)}
                 [] SymbolNode(r, x) \notin index /\ x \in Rec(F, p).imports ->
                       {SymbolNode(r, n[3]) : n \in found(x)}
                 [] OTHER -> IF Cardinality(found(x)) = 1 THEN found(x) ELSE {}
           of(p) == UNION {{<<SymbolNode(r, c[1]), "CALLS", n>> : n \in target(p, c[2])} :
                               c \in Rec(F, p).calls}
<1>1. ResolvedCalls(F, r) = UNION {of(p) : p \in InRepo(F, r)}
    BY DEF ResolvedCalls
<1>2. \A q, s : SymbolNode(q, s)[1] = "Symbol"
    BY DEF SymbolNode
<1>3. \A n \in index : n[1] = "Symbol"
    BY <1>2
<1>4. ASSUME NEW p, NEW x, NEW n \in target(p, x) PROVE n[1] = "Symbol"
  <2>1. CASE SymbolNode(r, x) \in index
    <3>1. target(p, x) = {SymbolNode(r, x)}
        BY <2>1
    <3> QED
        BY <1>2, <3>1
  <2>2. CASE SymbolNode(r, x) \notin index /\ x \in Rec(F, p).imports
    <3>1. target(p, x) = {SymbolNode(r, m[3]) : m \in found(x)}
        BY <2>2
    <3> QED
        BY <1>2, <3>1
  <2>3. CASE SymbolNode(r, x) \notin index /\ x \notin Rec(F, p).imports
    <3>1. target(p, x) = IF Cardinality(found(x)) = 1 THEN found(x) ELSE {}
        BY <2>3
    <3>2. n \in found(x)
        BY <3>1
    <3> QED
        BY <1>3, <3>2
  <2> QED
      BY <2>1, <2>2, <2>3
<1> HIDE DEF target
<1>5. PICK p \in InRepo(F, r) : e \in of(p)
    BY <1>1
<1>6. PICK c \in Rec(F, p).calls : e \in {<<SymbolNode(r, c[1]), "CALLS", n>> : n \in target(p, c[2])}
    BY <1>5
<1>7. PICK n \in target(p, c[2]) : e = <<SymbolNode(r, c[1]), "CALLS", n>>
    BY <1>6
<1> QED
    BY <1>2, <1>4, <1>7

\* _UPSERT_CALLS.
LEMMA CallsMerge ==
    ASSUME NEW g, Shape(g), NEW F, NEW sha, NEW r \in Repos
    PROVE  Merges(g, UpsertCalls(g, r, F), F, sha, AllPure(g, F, sha))
<1> DEFINE E == {e \in ResolvedCalls(F, r) : Exists(g, e[1]) /\ Exists(g, e[3])}
<1>1. UpsertCalls(g, r, F) = Upsert(g, << >>, E)
    BY DEF UpsertCalls
<1>2. ASSUME NEW e \in E PROVE e[1][1] \in Classes
  <2>1. e[1][1] = "Symbol"
      BY CallsJoin
  <2> QED
      BY <2>1 DEF Classes
<1>3. ASSUME AllPure(g, F, sha), NEW e \in E PROVE e \in TargetEdges(F, sha)
  <2>1. e[1][1] = "Symbol" /\ e[3][1] = "Symbol"
      BY CallsJoin
  <2>2. "Symbol" \in Classes \ {"Commit", "File"}
      BY DEF Classes
  <2>3. e[1] \in TargetNodes(F, sha) /\ e[3] \in TargetNodes(F, sha)
      BY <1>3, <2>1, <2>2, PureNode DEF Exists
  <2>4. e[1] \in DerivedNodes(F) /\ e[3] \in DerivedNodes(F)
      BY <2>1, <2>2, <2>3, TargetIs
  <2>5. e \in UNION {ResolvedCalls(F, q) : q \in Repos}
      OBVIOUS
  <2>6. e \in CallEdges(F)
      BY <2>4, <2>5 DEF CallEdges
  <2> QED
      BY <2>6 DEF TargetEdges
<1> HIDE DEF E
<1> QED
    BY <1>1, <1>2, <1>3, EdgesMerge

\* A pair of two things is in the product.
LEMMA PairIn == ASSUME NEW S, NEW T, NEW x \in S, NEW y \in T PROVE \E z \in S \X T : z[1] = x /\ z[2] = y
<1>1. <<x, y>> \in S \X T /\ <<x, y>>[1] = x /\ <<x, y>>[2] = y
    OBVIOUS
<1> QED
    BY <1>1

\* _UPSERT_IMPORTS.
LEMMA ImportsMerge ==
    ASSUME NEW g, Shape(g), NEW F, NEW sha, NEW r
    PROVE  Merges(g, UpsertImports(g, r, F), F, sha, AllPure(g, F, sha))
<1> DEFINE known == UNION {SymbolsOf(F, s) : s \in Repos}
           of(p) == {<<FileNode(p), "IMPORTS", n>> :
                        n \in {s \in Labelled(g, {"Symbol"}) : s[3] \in Rec(F, p).imports \cap known}}
           E == UNION {of(p) : p \in FilesIn(g, F, r)}
<1>1. UpsertImports(g, r, F) = Upsert(g, << >>, E)
    BY DEF UpsertImports, FilesIn
<1>2. ASSUME NEW e \in E
      PROVE  e[1][1] \in Classes /\ (AllPure(g, F, sha) => e \in TargetEdges(F, sha))
  <2>1. PICK p \in FilesIn(g, F, r) : e \in of(p)
      OBVIOUS
  <2>2. PICK n \in Labelled(g, {"Symbol"}) : n[3] \in Rec(F, p).imports /\ e = <<FileNode(p), "IMPORTS", n>>
      BY <2>1
  <2>3. n \in DOMAIN g.node /\ n[1] = "Symbol"
      BY DEF Labelled
  <2>4. "Symbol" \in Classes /\ "File" \in Classes
      BY DEF Classes
  <2>5. ASSUME AllPure(g, F, sha) PROVE e \in TargetEdges(F, sha)
    <3>1. n \in TargetNodes(F, sha)
        BY <2>3, <2>4, <2>5, PureNode
    <3>2. PICK q \in DOMAIN F : \E s \in Rec(F, q).syms : n = SymbolNode(RepoOf[q], s)
        BY <2>3, <3>1, TargetIs
    <3>3. PICK s \in Rec(F, q).syms : n = SymbolNode(RepoOf[q], s)
        BY <3>2
    <3>4. s = n[3]
        BY <3>3 DEF SymbolNode
    <3>5. p \in DOMAIN F
        BY DEF FilesIn, InRepo
    <3>6. PICK z \in (DOMAIN F) \X (DOMAIN F) : z[1] = p /\ z[2] = q
        BY <3>5, PairIn
    <3>7. e = <<FileNode(z[1]), "IMPORTS", SymbolNode(RepoOf[z[2]], s)>>
        BY <2>2, <3>3, <3>6
    <3>8. s \in Rec(F, z[1]).imports \cap Rec(F, z[2]).syms
        BY <2>2, <3>3, <3>4, <3>6
    <3>9. e \in ImportEdges(F)
        BY <3>7, <3>8 DEF ImportEdges
    <3> QED
        BY <3>9 DEF TargetEdges
  <2> QED
      BY <2>2, <2>4, <2>5 DEF FileNode
<1> HIDE DEF E
<1> QED
    BY <1>1, <1>2, EdgesMerge

\* A pair of a source and a sink with the same key.
Pair(F, x, y, source, sink) ==
    /\ x \in FeaturesOf(F, {source}) /\ y \in FeaturesOf(F, {sink}) /\ x[2].key = y[2].key

\* Every such pair has its edge.
LEMMA FlowHas ==
    ASSUME NEW F, NEW source, NEW rel, NEW sink, NEW x, NEW y, Pair(F, x, y, source, sink)
    PROVE  <<FeatureNode(x[1], x[2]), rel, FeatureNode(y[1], y[2])>> \in FlowEdges(F, source, rel, sink)
<1> DEFINE A == FeaturesOf(F, {source})
           B == FeaturesOf(F, {sink})
<1>1. PICK z \in A \X B : z[1] = x /\ z[2] = y
  <2> HIDE DEF A, B
  <2>1. x \in A /\ y \in B
      BY DEF Pair, A, B
  <2> QED
      BY <2>1, PairIn
<1>2. z[1][2].key = z[2][2].key
    BY <1>1 DEF Pair
<1>3. <<FeatureNode(x[1], x[2]), rel, FeatureNode(y[1], y[2])>>
         = <<FeatureNode(z[1][1], z[1][2]), rel, FeatureNode(z[2][1], z[2][2])>>
    BY <1>1
<1> QED
    BY <1>2, <1>3 DEF FlowEdges

\* A feature of a file is one of the features.
LEMMA FeatureIn ==
    ASSUME NEW F, NEW p \in DOMAIN F, NEW ft \in Rec(F, p).feats, NEW kind, ft.kind = kind, NEW x, x = <<p, ft>>
    PROVE  x \in FeaturesOf(F, {kind}) /\ x[1] = p /\ x[2] = ft
<1>1. <<p, ft>> \in {<<p, y>> : y \in {w \in Rec(F, p).feats : w.kind \in {kind}}}
    OBVIOUS
<1> QED
    BY <1>1 DEF FeaturesOf

\* A pure node of a feature label is the node of a feature.
LEMMA PureFeature ==
    ASSUME NEW g, Shape(g), NEW F, NEW sha, AllPure(g, F, sha), NEW n \in DOMAIN g.node, NEW kind \in FeatureLabels,
           n[1] = kind
    PROVE  \E x \in FeaturesOf(F, {kind}) :
              n = FeatureNode(x[1], x[2]) /\ n[2] = RepoOf[x[1]] /\ n[3][2] = x[2].key
<1>1. n \in TargetNodes(F, sha)
    BY LabelsApart, PureNode
<1>2. PICK p \in DOMAIN F : \E ft \in Rec(F, p).feats : ft.kind = n[1] /\ n = FeatureNode(p, ft)
    BY <1>1, TargetIs
<1>3. PICK ft \in Rec(F, p).feats : ft.kind = n[1] /\ n = FeatureNode(p, ft)
    BY <1>2
<1>4. PICK x : x = <<p, ft>>
    OBVIOUS
<1>5. x \in FeaturesOf(F, {kind}) /\ x[1] = p /\ x[2] = ft
    BY <1>3, <1>4, FeatureIn
<1>6. n[2] = RepoOf[p] /\ n[3] = <<p, ft.key>>
    BY <1>3 DEF FeatureNode
<1> QED
    BY <1>3, <1>5, <1>6

\* What a flow of the matchers stands for.
LEMMA FlowsAre ==
    ASSUME NEW F
    PROVE  /\ \A w \in HttpFlows(F) : \E x \in FeaturesOf(F, {"HttpClientCall"}), y \in FeaturesOf(F, {"Route"}) :
                 x[2].key = y[2].key /\ w = <<FeatureNode(x[1], x[2]), RepoOf[y[1]], y[2].key>>
           /\ \A w \in KafkaFlows(F) : \E x \in FeaturesOf(F, {"KafkaProducer"}), y \in FeaturesOf(F, {"KafkaConsumer"}) :
                 x[2].key = y[2].key /\ w = <<RepoOf[x[1]], RepoOf[y[1]], x[2].key>>
<1> DEFINE A == FeaturesOf(F, {"HttpClientCall"})
           B == FeaturesOf(F, {"Route"})
           C == FeaturesOf(F, {"KafkaProducer"})
           D == FeaturesOf(F, {"KafkaConsumer"})
<1>1. HttpFlows(F) = {<<FeatureNode(z[1][1], z[1][2]), RepoOf[z[2][1]], z[2][2].key>> :
                         z \in {x \in A \X B : x[1][2].key = x[2][2].key}}
    BY DEF HttpFlows
<1>2. KafkaFlows(F) = {<<RepoOf[z[1][1]], RepoOf[z[2][1]], z[1][2].key>> :
                         z \in {x \in C \X D : x[1][2].key = x[2][2].key}}
    BY DEF KafkaFlows
<1> HIDE DEF A, B, C, D
<1>3. ASSUME NEW w \in HttpFlows(F)
      PROVE  \E x \in A, y \in B : x[2].key = y[2].key /\ w = <<FeatureNode(x[1], x[2]), RepoOf[y[1]], y[2].key>>
  <2>1. PICK z \in A \X B : /\ z[1][2].key = z[2][2].key
                            /\ w = <<FeatureNode(z[1][1], z[1][2]), RepoOf[z[2][1]], z[2][2].key>>
      BY <1>1
  <2>2. z[1] \in A /\ z[2] \in B
      OBVIOUS
  <2> QED
      BY <2>1, <2>2
<1>4. ASSUME NEW w \in KafkaFlows(F)
      PROVE  \E x \in C, y \in D : x[2].key = y[2].key /\ w = <<RepoOf[x[1]], RepoOf[y[1]], x[2].key>>
  <2>1. PICK z \in C \X D : /\ z[1][2].key = z[2][2].key
                            /\ w = <<RepoOf[z[1][1]], RepoOf[z[2][1]], z[1][2].key>>
      BY <1>2
  <2>2. z[1] \in C /\ z[2] \in D
      OBVIOUS
  <2> QED
      BY <2>1, <2>2
<1> QED
    BY <1>3, <1>4 DEF A, B, C, D

\* _UPSERT_HTTP_FLOWS.
LEMMA HttpFlowsMerge ==
    ASSUME NEW g, Shape(g), NEW F, NEW sha
    PROVE  Merges(g, UpsertHttpFlows(g, F), F, sha, AllPure(g, F, sha))
<1> DEFINE H == HttpFlows(F)
           R == Labelled(g, {"Route"})
           E == {<<e[1][1], "HTTP_FLOW", e[2]>> :
                    e \in {x \in H \X R : /\ Exists(g, x[1][1])
                                          /\ x[2][2] = x[1][2]
                                          /\ x[2][3][2] = x[1][3]}}
<1>1. UpsertHttpFlows(g, F) = Upsert(g, << >>, E)
    BY DEF UpsertHttpFlows
<1>2. ASSUME NEW e \in E
      PROVE  e[1][1] \in Classes /\ (AllPure(g, F, sha) => e \in TargetEdges(F, sha))
  <2> HIDE DEF H, R
  <2>1. PICK v \in H \X R : v[2][3][2] = v[1][3] /\ e = <<v[1][1], "HTTP_FLOW", v[2]>>
      OBVIOUS
  <2>2. PICK w \in H, n \in R : v[1] = w /\ v[2] = n
      BY <2>1
  <2>3. n[3][2] = w[3] /\ e = <<w[1], "HTTP_FLOW", n>>
      BY <2>1, <2>2
  <2>4. PICK x \in FeaturesOf(F, {"HttpClientCall"}), y \in FeaturesOf(F, {"Route"}) :
            x[2].key = y[2].key /\ w = <<FeatureNode(x[1], x[2]), RepoOf[y[1]], y[2].key>>
      BY FlowsAre DEF H
  <2>5. w[1] = FeatureNode(x[1], x[2]) /\ w[3] = y[2].key
      BY <2>4
  <2>6. FeatureNode(x[1], x[2])[1] \in Classes
    <3>1. PICK q \in DOMAIN F : \E ft \in Rec(F, q).feats : ft.kind \in {"HttpClientCall"} /\ x = <<q, ft>>
        BY FeaturesAre
    <3>2. FeatureNode(x[1], x[2])[1] = "HttpClientCall"
        BY <3>1 DEF FeatureNode
    <3> QED
        BY <3>2 DEF Classes, FeatureLabels, HttpLabels
  <2>7. n \in DOMAIN g.node /\ n[1] = "Route"
      BY DEF R, Labelled
  <2>8. ASSUME AllPure(g, F, sha) PROVE e \in TargetEdges(F, sha)
    <3>1. PICK kind : kind = "Route"
        OBVIOUS
    <3>2. kind \in FeatureLabels /\ n[1] = kind
        BY <2>7, <3>1 DEF FeatureLabels, HttpLabels
    <3>3. PICK u \in FeaturesOf(F, {kind}) :
              n = FeatureNode(u[1], u[2]) /\ n[2] = RepoOf[u[1]] /\ n[3][2] = u[2].key
        BY <2>7, <2>8, <3>2, PureFeature
    <3>4. Pair(F, x, u, "HttpClientCall", "Route")
        BY <2>3, <2>4, <2>5, <3>1, <3>3 DEF Pair
    <3>5. <<FeatureNode(x[1], x[2]), "HTTP_FLOW", FeatureNode(u[1], u[2])>>
             \in FlowEdges(F, "HttpClientCall", "HTTP_FLOW", "Route")
        BY <3>4, FlowHas
    <3> QED
        BY <2>3, <2>5, <3>3, <3>5 DEF TargetEdges, AllFlowEdges
  <2> QED
      BY <2>3, <2>5, <2>6, <2>8
<1> HIDE DEF E
<1> QED
    BY <1>1, <1>2, EdgesMerge

\* _UPSERT_KAFKA_FLOWS.
LEMMA KafkaFlowsMerge ==
    ASSUME NEW g, Shape(g), NEW F, NEW sha
    PROVE  Merges(g, UpsertKafkaFlows(g, F), F, sha, AllPure(g, F, sha))
<1> DEFINE match(label, repo, topic) ==
               {n \in Labelled(g, {label}) : n[2] = repo /\ n[3][2] = topic}
           of(f) == {<<a, "KAFKA_FLOW", b>> : a \in match("KafkaProducer", f[1], f[3]),
                                              b \in match("KafkaConsumer", f[2], f[3])}
           E == UNION {of(f) : f \in KafkaFlows(F)}
<1>1. UpsertKafkaFlows(g, F) = Upsert(g, << >>, E)
    BY DEF UpsertKafkaFlows
<1>2. ASSUME NEW e \in E
      PROVE  e[1][1] \in Classes /\ (AllPure(g, F, sha) => e \in TargetEdges(F, sha))
  <2>1. PICK f \in KafkaFlows(F) : e \in of(f)
      OBVIOUS
  <2>2. PICK a \in match("KafkaProducer", f[1], f[3]), b \in match("KafkaConsumer", f[2], f[3]) :
            e = <<a, "KAFKA_FLOW", b>>
      BY <2>1
  <2>3. /\ a \in DOMAIN g.node /\ a[1] = "KafkaProducer" /\ a[3][2] = f[3]
        /\ b \in DOMAIN g.node /\ b[1] = "KafkaConsumer" /\ b[3][2] = f[3]
      BY DEF Labelled
  <2>4. "KafkaProducer" \in Classes
      BY DEF Classes, FeatureLabels, KafkaLabels
  <2>5. ASSUME AllPure(g, F, sha) PROVE e \in TargetEdges(F, sha)
    <3>1. PICK k : k = "KafkaProducer"
        OBVIOUS
    <3>2. PICK l : l = "KafkaConsumer"
        OBVIOUS
    <3>3. k \in FeatureLabels /\ a[1] = k /\ l \in FeatureLabels /\ b[1] = l
        BY <2>3, <3>1, <3>2 DEF FeatureLabels, KafkaLabels
    <3>4. PICK x \in FeaturesOf(F, {k}) :
              a = FeatureNode(x[1], x[2]) /\ a[2] = RepoOf[x[1]] /\ a[3][2] = x[2].key
        BY <2>3, <2>5, <3>3, PureFeature
    <3>5. PICK y \in FeaturesOf(F, {l}) :
              b = FeatureNode(y[1], y[2]) /\ b[2] = RepoOf[y[1]] /\ b[3][2] = y[2].key
        BY <2>3, <2>5, <3>3, PureFeature
    <3>6. Pair(F, x, y, "KafkaProducer", "KafkaConsumer")
        BY <2>3, <3>1, <3>2, <3>4, <3>5 DEF Pair
    <3>7. <<FeatureNode(x[1], x[2]), "KAFKA_FLOW", FeatureNode(y[1], y[2])>>
             \in FlowEdges(F, "KafkaProducer", "KAFKA_FLOW", "KafkaConsumer")
        BY <3>6, FlowHas
    <3> QED
        BY <2>2, <3>4, <3>5, <3>7 DEF TargetEdges, AllFlowEdges
  <2> QED
      BY <2>2, <2>3, <2>4, <2>5
<1> HIDE DEF E
<1> QED
    BY <1>1, <1>2, EdgesMerge

-----------------------------------------------------------------------------
(***************************************************************************)
(* What a statement of a run does to the graph, and its shape.             *)
(***************************************************************************)
\* A statement that writes for a repository merges what it is to leave.
LEMMA ContentMerges ==
    ASSUME ParentsLocal, NEW g, NEW p, Parsed(p.files), NEW r \in Repos, NEW op \in ContentOps,
           NEW h, h = Apply(g, Stmt(op, r), p)
    PROVE  Merges(g, h, p.files, p.sha, Pure(g, p.files, p.sha, r))
<1>0. Stmt(op, r).op = op /\ Stmt(op, r).repo = r
    BY DEF Stmt
<1>00. PICK pure \in BOOLEAN : pure <=> Pure(g, p.files, p.sha, r)
    BY DEF Pure
<1>01. Merges(g, h, p.files, p.sha, pure) => Merges(g, h, p.files, p.sha, Pure(g, p.files, p.sha, r))
    BY <1>00 DEF Merges
<1>1. CASE op = "Repo"
  <2>1. h = UpsertRepo(g, r, p.sha)
      BY <1>0, <1>1 DEF Apply, FeatureLabels, HttpLabels, KafkaLabels
  <2> QED
      BY <1>01, <2>1, RepoMerges
<1>2. CASE op = "Commit"
  <2>1. h = UpsertCommit(g, r, p.sha)
      BY <1>0, <1>2 DEF Apply, FeatureLabels, HttpLabels, KafkaLabels
  <2> QED
      BY <1>01, <2>1, CommitMerges
<1>3. CASE op = "Files"
  <2>1. h = UpsertFiles(g, r, p.sha, p.files)
      BY <1>0, <1>3 DEF Apply, FeatureLabels, HttpLabels, KafkaLabels
  <2> QED
      BY <1>01, <2>1, FilesMerge
<1>4. CASE op = "Modules"
  <2>1. h = UpsertModules(g, r, p.files)
      BY <1>0, <1>4 DEF Apply, FeatureLabels, HttpLabels, KafkaLabels
  <2> QED
      BY <1>01, <2>1, ModulesMerge
<1>5. CASE op = "Symbols"
  <2>1. h = UpsertSymbols(g, r, p.files)
      BY <1>0, <1>5 DEF Apply, FeatureLabels, HttpLabels, KafkaLabels
  <2> QED
      BY <2>1, SymbolsMerge
<1>6. CASE op = "Chunks"
  <2>1. h = UpsertChunks(g, r, p.files)
      BY <1>0, <1>6 DEF Apply, FeatureLabels, HttpLabels, KafkaLabels
  <2> QED
      BY <1>01, <2>1, ChunksMerge
<1>7. CASE op \in FeatureLabels
  <2>1. h = UpsertFeatures(g, op, r, p.files)
      BY <1>0, <1>7 DEF Apply, FeatureLabels, HttpLabels, KafkaLabels
  <2> QED
      BY <1>7, <2>1, FeaturesMerge
<1> QED
    BY <1>1, <1>2, <1>3, <1>4, <1>5, <1>6, <1>7 DEF ContentOps

\* So do links and flows.
LEMMA LateMerges ==
    ASSUME NEW g, Shape(g), NEW p, NEW r, NEW op \in LateOps, op \in LinkOps => r \in Repos,
           NEW h, h = Apply(g, Stmt(op, r), p)
    PROVE  Merges(g, h, p.files, p.sha, AllPure(g, p.files, p.sha))
<1>0. Stmt(op, r).op = op /\ Stmt(op, r).repo = r
    BY DEF Stmt
<1>1. CASE op = "Calls"
  <2>1. h = UpsertCalls(g, r, p.files)
      BY <1>0, <1>1 DEF Apply, FeatureLabels, HttpLabels, KafkaLabels
  <2>2. r \in Repos
      BY <1>1 DEF LinkOps
  <2> QED
      BY <2>1, <2>2, CallsMerge
<1>2. CASE op = "Imports"
  <2>1. h = UpsertImports(g, r, p.files)
      BY <1>0, <1>2 DEF Apply, FeatureLabels, HttpLabels, KafkaLabels
  <2> QED
      BY <2>1, ImportsMerge
<1>3. CASE op = "HttpFlows"
  <2>1. h = UpsertHttpFlows(g, p.files)
      BY <1>0, <1>3 DEF Apply, FeatureLabels, HttpLabels, KafkaLabels
  <2> QED
      BY <2>1, HttpFlowsMerge
<1>4. CASE op = "KafkaFlows"
  <2>1. h = UpsertKafkaFlows(g, p.files)
      BY <1>0, <1>4 DEF Apply, FeatureLabels, HttpLabels, KafkaLabels
  <2> QED
      BY <2>1, KafkaFlowsMerge
<1> QED
    BY <1>1, <1>2, <1>3, <1>4 DEF LateOps, LinkOps

-----------------------------------------------------------------------------
\* h has nothing that g has not; the repositories are the same, and so are the
\* edges to commits that stay.
Thinned(g, h) ==
    /\ DOMAIN h.node \subseteq DOMAIN g.node /\ \A n \in DOMAIN h.node : h.node[n] = g.node[n]
    /\ h.edge \subseteq g.edge
    /\ \A n \in DOMAIN h.node : n[1] = "Commit" =>
          (<<RepoNode(n[2]), "HAS_COMMIT", n>> \in g.edge => <<RepoNode(n[2]), "HAS_COMMIT", n>> \in h.edge)

\* So it is when nodes are removed that are no repositories.
LEMMA RemovedThins ==
    ASSUME NEW g, NEW h, NEW N, Removed(g, h, N), \A n \in N : n[1] # "Repository"
    PROVE  Thinned(g, h)
<1>1. ASSUME NEW n \in DOMAIN h.node, NEW e \in g.edge, e = <<RepoNode(n[2]), "HAS_COMMIT", n>>
      PROVE  e \in h.edge
  <2>1. e[1][1] = "Repository" /\ e[3] = n
      BY <1>1 DEF RepoNode
  <2>2. e[1] \notin N /\ e[3] \notin N
      BY <2>1 DEF Removed
  <2> QED
      BY <2>2 DEF Removed
<1>2. h.edge \subseteq g.edge /\ DOMAIN h.node \subseteq DOMAIN g.node /\ \A n \in DOMAIN h.node : h.node[n] = g.node[n]
    BY DEF Removed
<1> QED
    BY <1>1, <1>2 DEF Thinned

\* Labels of the nodes that a statement clears.
ClearedBy(op) ==
    CASE op = "ClearRepo" -> {"Commit", "File", "Symbol", "Chunk"}
      [] op = "ClearModules" -> {"Module"}
      [] op = "ClearFeatures" -> FeatureLabels

\* A statement that clears or deletes takes no repository away.
LEMMA ApplyThins ==
    ASSUME NEW g, GraphOK(g), NEW p, NEW r, NEW op \in Destructive, NEW h, h = Apply(g, Stmt(op, r), p)
    PROVE  Thinned(g, h)
<1>0. Stmt(op, r).op = op /\ Stmt(op, r).repo = r
    BY DEF Stmt
<1>1. CASE op = "ClearRepo"
  <2>1. h = ClearRepo(g, r)
      BY <1>0, <1>1 DEF Apply, FeatureLabels, HttpLabels, KafkaLabels
  <2>2. \A n \in Commits(g, r) \cup Reached(g, r) : n[1] # "Repository"
      BY ReachedOK DEF Kind
  <2> QED
      BY <2>1, <2>2, ClearRepoIs, RemovedThins
<1>2. CASE op = "ClearModules"
  <2> DEFINE N == {n \in Labelled(g, {"Module"}) : n[2] = r}
  <2>1. h = DetachDelete(g, N)
      BY <1>0, <1>2 DEF Apply, ClearRepoModules, FeatureLabels, HttpLabels, KafkaLabels
  <2>2. \A n \in N : n[1] # "Repository"
      BY DEF Labelled
  <2> HIDE DEF N
  <2> QED
      BY <2>1, <2>2, DetachRemoves, RemovedThins
<1>3. CASE op = "ClearFeatures"
  <2> DEFINE N == {n \in Labelled(g, FeatureLabels) : n[2] = r}
  <2>1. h = DetachDelete(g, N)
      BY <1>0, <1>3 DEF Apply, ClearRepoRoutesAndClients, FeatureLabels, HttpLabels, KafkaLabels
  <2>2. \A n \in N : n[1] # "Repository"
      BY LabelsApart DEF Labelled
  <2> HIDE DEF N
  <2> QED
      BY <2>1, <2>2, DetachRemoves, RemovedThins
<1>4. CASE op = "DeleteFeatures"
  <2> DEFINE N == {n \in Labelled(g, FeatureLabels) : n[2] = r /\ n[3][1] \in DeletedIn(p, r)}
  <2>1. h = DetachDelete(g, N)
      BY <1>0, <1>4 DEF Apply, DeleteFeaturesForFiles, FeatureLabels, HttpLabels, KafkaLabels
  <2>2. \A n \in N : n[1] # "Repository"
      BY LabelsApart DEF Labelled
  <2> HIDE DEF N
  <2> QED
      BY <2>1, <2>2, DetachRemoves, RemovedThins
<1>5. CASE op = "DeleteModules"
  <2> DEFINE N == {n \in Labelled(g, {"Module"}) : n[2] = r /\ g.node[n] \in DeletedIn(p, r)}
  <2>1. h = DetachDelete(g, N)
      BY <1>0, <1>5 DEF Apply, DeleteModulesForFiles, FeatureLabels, HttpLabels, KafkaLabels
  <2>2. \A n \in N : n[1] # "Repository"
      BY DEF Labelled
  <2> HIDE DEF N
  <2> QED
      BY <2>1, <2>2, DetachRemoves, RemovedThins
<1>6. CASE op = "DeleteFiles"
  <2> DEFINE P == DeletedIn(p, r)
  <2>1. h = DeleteFiles(g, P)
      BY <1>0, <1>6 DEF Apply, FeatureLabels, HttpLabels, KafkaLabels
  <2>2. \A q \in P : RepoOf[q] = r
      BY DEF DeletedIn
  <2> HIDE DEF P
  <2>3. Kind(FilesAt(g, P), r, "File")
      BY <2>2, FilesAtOK
  <2>4. \A n \in WithContents(g, FilesAt(g, P)) : n[1] # "Repository"
      BY <2>3, WithContentsOK
  <2> QED
      BY <2>1, <2>4, DeleteFilesIs, RemovedThins
<1> QED
    BY <1>1, <1>2, <1>3, <1>4, <1>5, <1>6 DEF Destructive, ClearOps, DeleteOps

\* Nor does the deletion of flows.
LEMMA FlowsThin ==
    ASSUME NEW g, NEW p, NEW r, NEW op \in {"ClearHttpFlows", "ClearKafkaFlows"}, NEW h, h = Apply(g, Stmt(op, r), p)
    PROVE  Thinned(g, h)
<1>0. Stmt(op, r).op = op /\ Stmt(op, r).repo = r
    BY DEF Stmt
<1>1. PICK rel \in FlowRels : h = ClearFlows(g, rel)
  <2>1. CASE op = "ClearHttpFlows"
      BY <1>0, <2>1 DEF Apply, FlowRels, FeatureLabels, HttpLabels, KafkaLabels
  <2>2. CASE op = "ClearKafkaFlows"
      BY <1>0, <2>2 DEF Apply, FlowRels, FeatureLabels, HttpLabels, KafkaLabels
  <2> QED
      BY <2>1, <2>2
<1>2. h.node = g.node /\ h.edge = {e \in g.edge : e[2] # rel}
    BY <1>1 DEF ClearFlows
<1>3. \A n : <<RepoNode(n[2]), "HAS_COMMIT", n>>[2] # rel
    BY DEF FlowRels
<1> QED
    BY <1>2, <1>3 DEF Thinned

\* What clearing a repository leaves of it is what it could not reach.
LEMMA ClearLeaves ==
    ASSUME NEW g, GraphOK(g), Shape(g), NEW p, NEW r, NEW op \in ClearOps, NEW h, h = Apply(g, Stmt(op, r), p),
           NEW n \in DOMAIN h.node, n[2] = r, n[1] \in ClearedBy(op)
    PROVE  n \in Orphans(g, r)
<1>0. Stmt(op, r).op = op /\ Stmt(op, r).repo = r
    BY DEF Stmt
<1>1. CASE op = "ClearRepo"
  <2>1. h = ClearRepo(g, r)
      BY <1>0, <1>1 DEF Apply, FeatureLabels, HttpLabels, KafkaLabels
  <2>2. n \in DOMAIN g.node /\ n \notin Commits(g, r) /\ n \notin Reached(g, r)
      BY <2>1, ClearRepoIs DEF Removed
  <2>3. n[1] \in {"Commit", "File", "Symbol", "Chunk"}
      BY <1>1 DEF ClearedBy
  <2>4. n[1] # "Commit"
    <3>1. SUFFICES ASSUME n[1] = "Commit" PROVE FALSE
        OBVIOUS
    <3>2. PICK e : e = <<RepoNode(r), "HAS_COMMIT", n>>
        OBVIOUS
    <3>3. e \in g.edge
        BY <2>2, <3>1, <3>2 DEF Shape, Shapely
    <3>4. e[1] \in {RepoNode(r)} /\ e[2] = "HAS_COMMIT" /\ e[3] = n
        BY <3>2
    <3> QED
        BY <2>2, <3>3, <3>4 DEF Commits, Out
  <2> QED
      BY <2>2, <2>3, <2>4 DEF Orphans, Held
<1>2. CASE op = "ClearModules"
  <2> DEFINE N == {m \in Labelled(g, {"Module"}) : m[2] = r}
  <2>1. h = DetachDelete(g, N)
      BY <1>0, <1>2 DEF Apply, ClearRepoModules, FeatureLabels, HttpLabels, KafkaLabels
  <2>2. n[1] = "Module"
      BY <1>2 DEF ClearedBy
  <2>3. n \in DOMAIN g.node \ N
    <3> HIDE DEF N
    <3> QED
        BY <2>1, DetachRemoves DEF Removed
  <2> QED
      BY <2>2, <2>3 DEF Labelled
<1>3. CASE op = "ClearFeatures"
  <2> DEFINE N == {m \in Labelled(g, FeatureLabels) : m[2] = r}
  <2>1. h = DetachDelete(g, N)
      BY <1>0, <1>3 DEF Apply, ClearRepoRoutesAndClients, FeatureLabels, HttpLabels, KafkaLabels
  <2>2. n[1] \in FeatureLabels
      BY <1>3 DEF ClearedBy
  <2>3. n \in DOMAIN g.node \ N
    <3> HIDE DEF N
    <3> QED
        BY <2>1, DetachRemoves DEF Removed
  <2> QED
      BY <2>2, <2>3 DEF Labelled
<1> QED
    BY <1>1, <1>2, <1>3 DEF ClearOps

\* A merge keeps the shape,
LEMMA ShapeMerged ==
    ASSUME NEW g, Shape(g), NEW h, NEW F, NEW sha, NEW pure, Merges(g, h, F, sha, pure)
    PROVE  Shape(h)
<1>1. PICK N, E : Merged(g, h, N, E) /\ Shapely(N, E)
    BY DEF Merges
<1>2. DOMAIN h.node = DOMAIN g.node \cup N /\ h.edge = g.edge \cup E
    BY <1>1 DEF Merged
<1>3. \A n \in DOMAIN h.node : NodeShape(n) /\ (n[1] = "Commit" => <<RepoNode(n[2]), "HAS_COMMIT", n>> \in h.edge)
    BY <1>1, <1>2 DEF Shape, Shapely
<1>4. \A e \in h.edge : EdgeShape(e)
    BY <1>1, <1>2 DEF Shape, Shapely
<1> QED
    BY <1>3, <1>4 DEF Shape, Shapely

\* and so does taking away.
LEMMA ShapeThinned ==
    ASSUME NEW g, Shape(g), NEW h, Thinned(g, h)
    PROVE  Shape(h)
<1>1. \A n \in DOMAIN h.node : NodeShape(n) /\ (n[1] = "Commit" => <<RepoNode(n[2]), "HAS_COMMIT", n>> \in h.edge)
    BY DEF Shape, Shapely, Thinned
<1>2. \A e \in h.edge : EdgeShape(e)
    BY DEF Shape, Shapely, Thinned
<1> QED
    BY <1>1, <1>2 DEF Shape, Shapely

\* The statements that take away.
ThinOps == Destructive \cup {"ClearHttpFlows", "ClearKafkaFlows"}

\* Every statement takes away, or writes for a repository, or links.
LEMMA OpKinds ==
    /\ AllOps = ThinOps \cup ContentOps \cup LateOps
    /\ ContentOps \subseteq OwnOps /\ ClearOps \subseteq OwnOps /\ ThinOps \subseteq EarlyOps /\ ContentOps \subseteq EarlyOps
BY DEF AllOps, ThinOps, OwnOps, ContentOps, LateOps, FlowOps, LinkOps, EarlyOps, Destructive

\* The statement of a run that takes away does no more.
LEMMA StatementThins ==
    ASSUME NEW g, GraphOK(g), NEW p, Ready(p), p.plan[p.k].op \in ThinOps, NEW h, h = Apply(g, p.plan[p.k], p)
    PROVE  Thinned(g, h)
<1>1. PICK op, r : op = p.plan[p.k].op /\ r = p.plan[p.k].repo
    OBVIOUS
<1>2. p.plan[p.k] = Stmt(op, r)
    BY <1>1, StatementIs DEF Ready
<1>3. h = Apply(g, Stmt(op, r), p)
    BY <1>2
<1>4. CASE op \in Destructive
    BY <1>3, <1>4, ApplyThins
<1>5. CASE op \in {"ClearHttpFlows", "ClearKafkaFlows"}
    BY <1>3, <1>5, FlowsThin
<1> QED
    BY <1>1, <1>4, <1>5 DEF ThinOps

\* Where the statement of a run is one of a repository.
LEMMA StatementRepo ==
    ASSUME NEW p, Ready(p)
    PROVE  /\ p.plan[p.k] = Stmt(p.plan[p.k].op, p.plan[p.k].repo) /\ p.plan[p.k].op \in AllOps
           /\ p.plan[p.k].op \in OwnOps \cup LinkOps
                 => p.plan[p.k].repo \in Repos /\ p.plan[p.k].repo \in Range(p.scope)
<1>1. Range(p.scope) \subseteq Repos
    <2>1. p.scope \in Seq(Repos)
        BY DEF Ready
    <2> QED
        BY <2>1 DEF Range
<1> QED
    BY <1>1, StatementIs DEF Ready

\* Every other one merges.
LEMMA StatementMerges ==
    ASSUME ParentsLocal, NEW g, Shape(g), NEW p, Ready(p), p.plan[p.k].op \notin ThinOps,
           NEW h, h = Apply(g, p.plan[p.k], p)
    PROVE  \/ /\ p.plan[p.k].op \in ContentOps
              /\ Merges(g, h, p.files, p.sha, Pure(g, p.files, p.sha, p.plan[p.k].repo))
           \/ /\ p.plan[p.k].op \in LateOps
              /\ Merges(g, h, p.files, p.sha, AllPure(g, p.files, p.sha))
<1>1. PICK op, r : op = p.plan[p.k].op /\ r = p.plan[p.k].repo
    OBVIOUS
<1>2. /\ p.plan[p.k] = Stmt(op, r) /\ op \in AllOps
      /\ op \in OwnOps \cup LinkOps => r \in Repos
    BY <1>1, StatementRepo
<1>3. h = Apply(g, Stmt(op, r), p) /\ Parsed(p.files)
    BY <1>2 DEF Ready
<1>4. CASE op \in ContentOps
    <2>1. r \in Repos
        BY <1>2, <1>4, OpKinds
    <2>2. Merges(g, h, p.files, p.sha, Pure(g, p.files, p.sha, r))
        BY <1>3, <1>4, <2>1, ContentMerges
    <2> QED
        BY <1>1, <1>4, <2>2
<1>5. CASE op \in LateOps
    <2>1. op \in LinkOps => r \in Repos
        BY <1>2
    <2>2. Merges(g, h, p.files, p.sha, AllPure(g, p.files, p.sha))
        BY <1>3, <1>5, <2>1, LateMerges
    <2> QED
        BY <1>1, <1>5, <2>2
<1> QED
    BY <1>1, <1>2, <1>4, <1>5, OpKinds

\* A run keeps the shape of the graph.
LEMMA GoesShape ==
    ASSUME ParentsLocal, NEW g, GraphOK(g), Shape(g), NEW h, NEW p, Ready(p), NEW q, Goes(g, h, p, q)
    PROVE  Shape(h)
<1>1. CASE h = Apply(g, p.plan[p.k], p)
    <2>1. CASE p.plan[p.k].op \in ThinOps
        BY <1>1, <2>1, StatementThins, ShapeThinned
    <2>2. CASE p.plan[p.k].op \notin ThinOps
        BY <1>1, <2>2, StatementMerges, ShapeMerged
    <2> QED
        BY <2>1, <2>2
<1> QED
    BY <1>1 DEF Goes

\* The first graph is empty.
LEMMA ShapeInit == Init => Shape(graph)
BY DEF Init, EmptyGraph, Shape, Shapely

\* No step changes the shape.
LEMMA ShapeNext ==
    ASSUME ParentsLocal, TypeInv, Shape(graph), [Next]_vars
    PROVE  Shape(graph)'
<1>1. CASE UNCHANGED graph
    BY <1>1 DEF Shape, Shapely
<1>2. ASSUME NEW i \in Indexers, Writes(i) PROVE Shape(graph')
    <2>1. GraphOK(graph) /\ RunOK(proc[i])
        BY DEF TypeInv, RunsOK
    <2>2. AtStatement(i) /\ Goes(graph, graph', proc[i], proc'[i])
        BY <1>2 DEF Writes, WriteOn
    <2>3. Ready(proc[i])
        BY <2>1, <2>2, AtStatementReady
    <2> QED
        BY <2>1, <2>2, <2>3, GoesShape
<1>3. \A i \in Indexers : Reads(i) \/ Begins(i) \/ Returns(i) \/ Dead(i) => UNCHANGED graph
    BY DEF Reads, Begins, Returns, Dead, Ends
<1> QED
    BY <1>1, <1>2, <1>3, Moves

-----------------------------------------------------------------------------
(***************************************************************************)
(* What a refresh has cleared holds nothing but what is to be there.       *)
(***************************************************************************)
\* The node is one of those that indexing the files F leaves, with the right
\* properties and with no edge that should not be.
Clean(g, F, sha, n) ==
    /\ n \in TargetNodes(F, sha) /\ ValueIs(g, F, n)
    /\ \A e \in g.edge : e[1] = n \/ e[3] = n => e \in TargetEdges(F, sha)

\* A clean node stays clean where something is taken away,
LEMMA CleanThinned ==
    ASSUME NEW g, NEW h, Thinned(g, h), NEW F, NEW sha, NEW n \in DOMAIN h.node, Clean(g, F, sha, n)
    PROVE  Clean(h, F, sha, n)
<1>1. h.node[n] = g.node[n] /\ h.edge \subseteq g.edge
    BY DEF Thinned
<1>2. ValueIs(h, F, n)
    BY <1>1 DEF Clean, ValueIs
<1> QED
    BY <1>1, <1>2 DEF Clean

\* and where what is to be there is merged; what is merged is clean.
LEMMA CleanMerged ==
    ASSUME NEW g, GraphOK(g), NEW h, NEW F, NEW sha, Merges(g, h, F, sha, TRUE),
           NEW n \in DOMAIN h.node, n[1] \notin Lasting, n \in DOMAIN g.node => Clean(g, F, sha, n)
    PROVE  Clean(h, F, sha, n)
<1>1. PICK N, E : /\ Merged(g, h, N, E)
                  /\ \A m \in N : m[1] \notin Lasting => m \in TargetNodes(F, sha) /\ ValueIs(h, F, m)
                  /\ E \subseteq TargetEdges(F, sha)
    BY DEF Merges
<1>2. n \in TargetNodes(F, sha) /\ ValueIs(h, F, n)
  <2>1. CASE n \in N
      BY <1>1, <2>1
  <2>2. CASE n \notin N
    <3>1. n \in DOMAIN g.node /\ h.node[n] = g.node[n]
        BY <1>1, <2>2 DEF Merged
    <3> QED
        BY <3>1 DEF Clean, ValueIs
  <2> QED
      BY <2>1, <2>2
<1>3. ASSUME NEW e \in h.edge, e[1] = n \/ e[3] = n PROVE e \in TargetEdges(F, sha)
  <2>1. CASE e \in E
      BY <1>1, <2>1
  <2>2. CASE e \notin E
    <3>1. e \in g.edge
        BY <1>1, <2>2 DEF Merged
    <3>2. n \in DOMAIN g.node
        BY <1>3, <3>1 DEF GraphOK, NoDangling, Exists
    <3> QED
        BY <1>3, <3>1, <3>2 DEF Clean
  <2> QED
      BY <2>1, <2>2
<1> QED
    BY <1>2, <1>3 DEF Clean

-----------------------------------------------------------------------------
\* Of repository r, what clearing does not reach is clean, and so is all that
\* the run p has cleared: there is nothing but what p and its like have written.
CleanIn(g, p, r) ==
    /\ \A n \in Orphans(g, r) : Clean(g, p.files, p.sha, n)
    /\ \A op \in ClearOps : Passed(p, op, r) =>
          \A n \in DOMAIN g.node : n[2] = r /\ n[1] \in ClearedBy(op) => Clean(g, p.files, p.sha, n)
Upper(g, p) == \A r \in Repos : CleanIn(g, p, r)

\* A full refresh of the whole workspace, at its statements.
Full(p) == p.mode = "full" /\ p.scope = RepoOrder /\ p.plan = Plan(p)

\* The labels a refresh clears.
LEMMA ClearedLabels ==
    /\ \A l \in Classes : \E op \in ClearOps : l \in ClearedBy(op)
    /\ \A op \in ClearOps : ClearedBy(op) \cap Lasting = {}
BY DEF Classes, ClearOps, ClearedBy, Lasting, FeatureLabels, HttpLabels, KafkaLabels

\* Whose cleared nodes are clean, a repository is pure.
LEMMA ClearedPure ==
    ASSUME NEW g, NEW p, NEW r, CleanIn(g, p, r), \A op \in ClearOps : Passed(p, op, r)
    PROVE  Pure(g, p.files, p.sha, r)
<1>1. ASSUME NEW n \in DOMAIN g.node, n[1] \in Classes, n[2] = r PROVE n \in TargetNodes(p.files, p.sha)
  <2>1. PICK op \in ClearOps : n[1] \in ClearedBy(op)
      BY <1>1, ClearedLabels
  <2>2. Clean(g, p.files, p.sha, n)
      BY <1>1, <2>1 DEF CleanIn
  <2> QED
      BY <2>2 DEF Clean
<1> QED
    BY <1>1 DEF Pure

\* Clearing comes before all else of a repository.
LEMMA ClearsPassed ==
    ASSUME NEW p, Ready(p), Full(p), NEW r \in Range(p.scope), NEW low \in ClearOps,
           p.plan[p.k] = Stmt(p.plan[p.k].op, r) /\ p.plan[p.k].op \in ContentOps
    PROVE  Passed(p, low, r)
<1>1. PICK op : op = p.plan[p.k].op
    OBVIOUS
<1>2. op \in ContentOps /\ op \in OwnOps /\ low \in OwnOps
    BY <1>1, OpKinds
<1>3. Rank(low) < Rank(op)
    BY <1>2 DEF ContentOps, ClearOps, Rank, FeatureLabels, HttpLabels, KafkaLabels
<1>4. PlannedOp(p, r, low)
    BY DEF PlannedOp, Full
<1>5. WellPlanned(p) /\ p.k \in 1..Len(p.plan) /\ p.plan[p.k] = Stmt(op, r)
    BY <1>1 DEF Ready
<1> QED
    BY <1>2, <1>3, <1>4, <1>5, Earlier DEF Passed

\* A scope is a list, none of it twice.
ScopeList(p) == p.scope \in Seq(Range(p.scope)) /\ IsInjective(p.scope)

\* The whole workspace is such a list.
LEMMA FullScope == ASSUME NEW p, Full(p) PROVE Range(p.scope) = Repos /\ ScopeList(p)
BY GraphAssumption DEF Full, Repos, ScopeList

\* When the links and flows come, every repository has been cleared and written.
LEMMA LateAfterAll ==
    ASSUME NEW p, Ready(p), ScopeList(p), p.plan = Plan(p), p.plan[p.k].op \in LateOps,
           NEW r \in Range(p.scope), NEW op \in OwnOps, PlannedOp(p, r, op)
    PROVE  Passed(p, op, r)
<1>1. PICK j \in 1..Len(p.plan) : p.plan[j] = Stmt(op, r)
    BY DEF Ready, WellPlanned, Holds
<1>2. p.plan[j].op \in EarlyOps /\ p.plan[p.k].op \notin EarlyOps
    BY <1>1, EarlyLate DEF Stmt, EarlyOps
<1>3. \A a, b \in 1..Len(p.plan) : a < b /\ p.plan[b].op \in EarlyOps => p.plan[a].op \in EarlyOps
  <2>1. LateLast(Plan(p), Range(p.scope))
      BY PlanOrder DEF ScopeList
  <2> QED
      BY <2>1 DEF LateLast
<1>4. p.k \in 1..Len(p.plan) /\ Len(p.plan) \in Nat
  <2>1. p.plan \in Seq(Statements(Range(p.scope)))
      BY DEF Ready, WellPlanned
  <2> QED
      BY <2>1 DEF Ready
<1>5. j # p.k /\ ~ (p.k < j)
    BY <1>2, <1>3, <1>4
<1>6. j \in 1..(p.k - 1)
    BY <1>4, <1>5
<1> QED
    BY <1>1, <1>6 DEF Passed

\* A statement that takes away cuts nothing off that clearing reached.
LEMMA ThinOrphans ==
    ASSUME NEW g, GraphOK(g), NEW p, Ready(p), p.plan[p.k].op \in ThinOps,
           NEW h, h = Apply(g, p.plan[p.k], p), NEW r
    PROVE  Orphans(h, r) \subseteq Orphans(g, r)
<1>1. Effect(g, h, p, p.plan[p.k], r)
    BY StatementEffect
<1>2. p.plan[p.k].op \notin KeyOps
    BY DEF ThinOps, KeyOps, Destructive, ClearOps, DeleteOps
<1>3. CASE SamePart(g, h, r)
    BY <1>3, ReachedSame
<1> QED
    BY <1>1, <1>2, <1>3 DEF Effect

\* A statement of a full refresh takes away, or writes only what is to be there.
Gains(g, h, p) == Merges(g, h, p.files, p.sha, TRUE)
Thins(g, h) == Thinned(g, h) /\ \A r \in Repos : Orphans(h, r) \subseteq Orphans(g, r)

\* Every statement of a full refresh is of one of these kinds.
LEMMA FullStatement ==
    ASSUME ParentsLocal, NEW g, GraphOK(g), Shape(g), NEW p, Ready(p), Full(p), Upper(g, p),
           NEW h, h = Apply(g, p.plan[p.k], p)
    PROVE  Thins(g, h) \/ Gains(g, h, p)
<1>1. CASE p.plan[p.k].op \in ThinOps
    BY <1>1, StatementThins, ThinOrphans DEF Thins
<1>2. CASE p.plan[p.k].op \notin ThinOps
  <2>1. CASE /\ p.plan[p.k].op \in ContentOps
             /\ Merges(g, h, p.files, p.sha, Pure(g, p.files, p.sha, p.plan[p.k].repo))
    <3>1. PICK r \in Repos : r = p.plan[p.k].repo
        BY <2>1, StatementRepo, OpKinds
    <3>2. p.plan[p.k] = Stmt(p.plan[p.k].op, r) /\ r \in Range(p.scope)
        BY <2>1, <3>1, StatementRepo, FullScope
    <3>3. \A low \in ClearOps : Passed(p, low, r)
        BY <2>1, <3>2, ClearsPassed
    <3>4. Pure(g, p.files, p.sha, r)
        BY <3>1, <3>3, ClearedPure DEF Upper
    <3> QED
        BY <2>1, <3>1, <3>4 DEF Gains, Merges
  <2>2. CASE p.plan[p.k].op \in LateOps /\ Merges(g, h, p.files, p.sha, AllPure(g, p.files, p.sha))
    <3>1. ASSUME NEW r \in Repos PROVE Pure(g, p.files, p.sha, r)
      <4>1. r \in Range(p.scope) /\ ScopeList(p) /\ p.plan = Plan(p)
          BY <3>1, FullScope DEF Full
      <4>2. ASSUME NEW low \in ClearOps PROVE Passed(p, low, r)
        <5>1. low \in OwnOps /\ PlannedOp(p, r, low)
            BY <4>2, OpKinds DEF PlannedOp, Full
        <5> QED
            BY <2>2, <4>1, <5>1, LateAfterAll
      <4> QED
          BY <3>1, <4>2, ClearedPure DEF Upper
    <3> QED
        BY <2>2, <3>1 DEF AllPure, Gains, Merges
  <2> QED
      BY <1>2, <2>1, <2>2, StatementMerges
<1> QED
    BY <1>1, <1>2

-----------------------------------------------------------------------------
\* p and w write the same.
Twins(p, w) == p.mode = w.mode /\ p.scope = w.scope /\ p.files = w.files /\ p.sha = w.sha /\ p.plan = w.plan

\* What is clean for a run stays so when one that writes the same goes on.
LEMMA UpperKeeps ==
    ASSUME NEW g, GraphOK(g), Shape(g), NEW p, NEW h, Thins(g, h) \/ Gains(g, h, p),
           NEW w, Twins(p, w), Upper(g, w)
    PROVE  Upper(h, w)
<1> SUFFICES ASSUME NEW r \in Repos PROVE CleanIn(h, w, r)
    BY DEF Upper
<1>0. CleanIn(g, w, r) /\ w.files = p.files /\ w.sha = p.sha
    BY DEF Upper, Twins
<1>1. CASE Thins(g, h)
  <2>0. Thinned(g, h) /\ DOMAIN h.node \subseteq DOMAIN g.node /\ Orphans(h, r) \subseteq Orphans(g, r)
      BY <1>1 DEF Thins, Thinned
  <2>1. ASSUME NEW n \in Orphans(h, r) PROVE Clean(h, w.files, w.sha, n)
    <3>1. n \in DOMAIN h.node
        BY <2>1 DEF Orphans, Held
    <3> QED
        BY <1>0, <2>0, <2>1, <3>1, CleanThinned DEF CleanIn
  <2>2. ASSUME NEW op \in ClearOps, Passed(w, op, r), NEW n \in DOMAIN h.node, n[2] = r, n[1] \in ClearedBy(op)
        PROVE  Clean(h, w.files, w.sha, n)
      BY <1>0, <2>0, <2>2, CleanThinned DEF CleanIn
  <2> QED
      BY <2>1, <2>2 DEF CleanIn
<1>2. CASE Gains(g, h, p)
  <2>0. Merges(g, h, w.files, w.sha, TRUE) /\ g.edge \subseteq h.edge
      BY <1>0, <1>2 DEF Gains, Merges, Merged
  <2>1. ASSUME NEW n \in Orphans(h, r) PROVE Clean(h, w.files, w.sha, n)
    <3>1. n \in DOMAIN h.node /\ n[1] \notin Lasting /\ n \notin Reached(h, r) /\ n \in Held(h, r)
        BY <2>1 DEF Orphans, Held, Lasting
    <3>2. n \in DOMAIN g.node => n \in Orphans(g, r)
        BY <2>0, <3>1, ReachedGrows DEF Orphans, Held
    <3> QED
        BY <1>0, <2>0, <3>1, <3>2, CleanMerged DEF CleanIn
  <2>2. ASSUME NEW op \in ClearOps, Passed(w, op, r), NEW n \in DOMAIN h.node, n[2] = r, n[1] \in ClearedBy(op)
        PROVE  Clean(h, w.files, w.sha, n)
    <3>1. n[1] \notin Lasting
        BY <2>2, ClearedLabels
    <3>2. n \in DOMAIN g.node => Clean(g, w.files, w.sha, n)
        BY <1>0, <2>2 DEF CleanIn
    <3> QED
        BY <2>0, <3>1, <3>2, CleanMerged
  <2> QED
      BY <2>1, <2>2 DEF CleanIn
<1> QED
    BY <1>1, <1>2

\* A run that is not ahead of p has passed no more.
LEMMA PassedLower ==
    ASSUME NEW p, p.k \in Nat, NEW q, q.plan = p.plan, q.k \in Nat, q.k <= p.k, NEW op, NEW r, Passed(q, op, r)
    PROVE  Passed(p, op, r)
<1>1. PICK j \in 1..(q.k - 1) : q.plan[j] = Stmt(op, r)
    BY DEF Passed
<1>2. j \in 1..(p.k - 1)
    BY <1>1
<1> QED
    BY <1>1, <1>2 DEF Passed

\* So has what is clean for it.
LEMMA UpperLower ==
    ASSUME NEW g, NEW p, p.k \in Nat, NEW q, Twins(p, q), q.k \in Nat, q.k <= p.k, Upper(g, p)
    PROVE  Upper(g, q)
<1>1. p.files = q.files /\ p.sha = q.sha /\ p.plan = q.plan
    BY DEF Twins
<1>2. \A r, op : Passed(q, op, r) => Passed(p, op, r)
    BY <1>1, PassedLower
<1> QED
    BY <1>1, <1>2 DEF Upper, CleanIn

\* The run that goes on leaves clean what it has cleared by then.
LEMMA UpperGoes ==
    ASSUME ParentsLocal, NEW g, GraphOK(g), Shape(g), NEW p, Ready(p), Full(p), Upper(g, p),
           NEW h, NEW q, Goes(g, h, p, q)
    PROVE  Upper(h, q)
<1>0. Twins(p, q) /\ Twins(p, p) /\ q.k \in Nat \ {0} /\ p.k \in Nat
  <2>1. p.plan \in Seq(Statements(Range(p.scope))) /\ p.k \in 1..Len(p.plan)
      BY DEF Ready, WellPlanned
  <2> QED
      BY <2>1 DEF Goes, SamePlan, Twins
<1>1. CASE h = g /\ q.k <= p.k
    BY <1>0, <1>1, UpperLower
<1>2. CASE h = Apply(g, p.plan[p.k], p) /\ q.k <= p.k + 1
  <2>1. Thins(g, h) \/ Gains(g, h, p)
      BY <1>2, FullStatement
  <2>2. Upper(h, p)
      BY <1>0, <2>1, UpperKeeps
  <2>3. q.files = p.files /\ q.sha = p.sha /\ q.plan = p.plan
      BY <1>0 DEF Twins
  <2>4. ASSUME NEW r \in Repos, NEW op \in ClearOps, p.plan[p.k] = Stmt(op, r),
               NEW n \in DOMAIN h.node, n[2] = r, n[1] \in ClearedBy(op)
        PROVE  Clean(h, p.files, p.sha, n)
    <3>1. h = Apply(g, Stmt(op, r), p)
        BY <1>2, <2>4
    <3>2. n \in Orphans(g, r)
        BY <2>4, <3>1, ClearLeaves
    <3>3. Clean(g, p.files, p.sha, n)
        BY <3>2 DEF Upper, CleanIn
    <3>4. Thinned(g, h)
      <4>1. op \in Destructive
          BY DEF Destructive
      <4> QED
          BY <3>1, <4>1, ApplyThins
    <3> QED
        BY <3>3, <3>4, CleanThinned
  <2>5. ASSUME NEW r \in Repos PROVE CleanIn(h, q, r)
    <3>1. CleanIn(h, p, r)
        BY <2>2 DEF Upper
    <3>2. ASSUME NEW op \in ClearOps, Passed(q, op, r), NEW n \in DOMAIN h.node, n[2] = r, n[1] \in ClearedBy(op)
          PROVE  Clean(h, p.files, p.sha, n)
      <4>1. Passed(p, op, r) \/ p.plan[p.k] = Stmt(op, r)
          BY <1>0, <1>2, <2>3, <3>2, PassedNext
      <4> QED
          BY <2>4, <3>1, <3>2, <4>1 DEF CleanIn
    <3> QED
        BY <2>3, <3>1, <3>2 DEF CleanIn
  <2> QED
      BY <2>5 DEF Upper
<1> QED
    BY <1>1, <1>2 DEF Goes

-----------------------------------------------------------------------------
(***************************************************************************)
(* What a refresh has passed is there: each statement, if those before it  *)
(* did what they are for, finds what it needs.                             *)
(***************************************************************************)
\* The links and flows that a statement is to leave.
LateEdges(F, op, r) ==
    CASE op = "Calls" -> {e \in ResolvedCalls(F, r) : {e[1], e[3]} \subseteq DerivedNodes(F)}
      [] op = "Imports" -> {e \in ImportEdges(F) : e[1][2] = r}
      [] op = "HttpFlows" -> FlowEdges(F, "HttpClientCall", "HTTP_FLOW", "Route")
      [] op = "KafkaFlows" -> FlowEdges(F, "KafkaProducer", "KAFKA_FLOW", "KafkaConsumer")

\* The edges from the owners of the features of a kind in a repository.
OwnersThere(g, F, op, r) ==
    \A q \in InRepo(F, r) : \A ft \in Feats(q, F[q], op) :
        ft.owner \in SymbolsOf(F, r) => OwnerEdge(q, ft) \in g.edge

\* What the statement st of run p is to leave is there; so is all that the run
\* has passed.
Finished(g, p, st) ==
    /\ Done(g, p, st.repo, st.op)
    /\ st.op \in FeatureLabels => OwnersThere(g, p.files, st.op, st.repo)
    /\ st.op \in LateOps => LateEdges(p.files, st.op, st.repo) \subseteq g.edge
BuiltTo(g, p) == \A j \in 1..(p.k - 1) : Finished(g, p, p.plan[j])

\* For a run that writes the same it is the same,
LEMMA FinishedTwin ==
    ASSUME NEW p, NEW w, Twins(p, w), NEW g, NEW st, Finished(g, p, st)
    PROVE  Finished(g, w, st)
<1>1. w.files = p.files /\ w.sha = p.sha
    BY DEF Twins
<1>2. Done(g, w, st.repo, st.op)
    BY <1>1 DEF Finished, Done
<1> QED
    BY <1>1, <1>2 DEF Finished

\* if it is not ahead.
LEMMA BuiltToLower ==
    ASSUME NEW g, NEW p, p.k \in Nat, NEW q, Twins(p, q), q.k \in Nat, q.k <= p.k, BuiltTo(g, p)
    PROVE  BuiltTo(g, q)
<1>1. ASSUME NEW j \in 1..(q.k - 1) PROVE Finished(g, q, q.plan[j])
  <2>1. j \in 1..(p.k - 1)
      BY <1>1
  <2>2. q.plan[j] = p.plan[j] /\ Finished(g, p, p.plan[j])
      BY <2>1 DEF BuiltTo, Twins
  <2> QED
      BY <2>2, FinishedTwin
<1> QED
    BY <1>1 DEF BuiltTo

\* They stay where the repository is left alone or added to.
LEMMA OwnersKept ==
    ASSUME NEW g, NEW h, NEW F, NEW r, SameLocal(g, h, r) \/ Adds(g, h, F),
           NEW op \in FeatureLabels, OwnersThere(g, F, op, r)
    PROVE  OwnersThere(h, F, op, r)
<1>1. ASSUME NEW q \in InRepo(F, r), NEW ft \in Feats(q, F[q], op), ft.owner \in SymbolsOf(F, r)
      PROVE  OwnerEdge(q, ft) \in h.edge
  <2>1. PICK e : e = OwnerEdge(q, ft)
      OBVIOUS
  <2>2. e \in g.edge
      BY <1>1, <2>1 DEF OwnersThere
  <2>3. RepoOf[q] = r /\ ft.kind = op
      BY DEF InRepo, Feats
  <2>4. e[1][2] = r /\ e[3][2] = r /\ e[2] = OwnerRel(op)
      BY <2>1, <2>3 DEF OwnerEdge, SymbolNode, FeatureNode
  <2>5. OwnerRel(op) \in LocalRels
      BY DEF OwnerRel, LocalRels, FeatureLabels, HttpLabels, KafkaLabels
  <2> QED
      BY <2>1, <2>2, <2>4, <2>5 DEF SameLocal, Adds
<1> QED
    BY <1>1 DEF OwnersThere

\* A link or flow only adds.
LEMMA LateGrows ==
    ASSUME ParentsLocal, NEW g, Shape(g), NEW p, Ready(p), p.plan[p.k].op \in LateOps,
           NEW h, h = Apply(g, p.plan[p.k], p)
    PROVE  g.edge \subseteq h.edge
<1>1. p.plan[p.k].op \notin ThinOps
    BY OpKinds, EarlyLate
<1>2. PICK pure : Merges(g, h, p.files, p.sha, pure)
    BY <1>1, StatementMerges
<1> QED
    BY <1>2 DEF Merges, Merged

\* A statement undoes nothing of what the run has passed: clearing comes before
\* what it would clear, links and flows come last.
LEMMA FinishedKept ==
    ASSUME ParentsLocal, NEW g, GraphOK(g), Owned(g), Shape(g), NEW p, Ready(p), ScopeList(p), p.plan = Plan(p),
           NEW h, h = Apply(g, p.plan[p.k], p),
           NEW j \in 1..(p.k - 1), Finished(g, p, p.plan[j])
    PROVE  Finished(h, p, p.plan[j])
<1>0. /\ p.k \in 1..Len(p.plan) /\ Len(p.plan) \in Nat /\ j \in 1..Len(p.plan) /\ j < p.k
      /\ WellPlanned(p) /\ Parsed(p.files)
  <2>1. p.plan \in Seq(Statements(Range(p.scope)))
      BY DEF Ready, WellPlanned
  <2> QED
      BY <2>1 DEF Ready
<1>2. CASE p.plan[j].op \in LateOps
  <2>1. p.plan[p.k].op \in LateOps
    <3>1. \A a, b \in 1..Len(p.plan) : a < b /\ p.plan[b].op \in EarlyOps => p.plan[a].op \in EarlyOps
      <4>1. LateLast(Plan(p), Range(p.scope))
          BY PlanOrder DEF ScopeList
      <4> QED
          BY <4>1 DEF LateLast
    <3>2. p.plan[p.k].op \notin EarlyOps
        BY <1>0, <1>2, <3>1, EarlyLate
    <3> QED
        BY <1>0, <3>2, EarlyLate, StatementIs
  <2>2. g.edge \subseteq h.edge
      BY <2>1, LateGrows
  <2>3. p.plan[j].op \notin ContentOps /\ p.plan[j].op \notin FeatureLabels
      BY <1>2, EarlyLate, OpKinds DEF ContentOps
  <2> QED
      BY <1>2, <2>2, <2>3, DoneTrivial DEF Finished
<1>3. CASE p.plan[j].op \notin LateOps
  <2>1. CASE p.plan[j].op \notin ContentOps
    <3>1. p.plan[j].op \notin FeatureLabels
        BY <2>1 DEF ContentOps
    <3> QED
        BY <1>3, <2>1, <3>1, DoneTrivial DEF Finished
  <2>2. CASE p.plan[j].op \in ContentOps
    <3>1. PICK r \in Repos : r = p.plan[j].repo
      <4>1. p.plan[j].op \in OwnOps
          BY <2>2, OpKinds
      <4>2. p.plan[j].repo \in Range(p.scope)
          BY <1>0, <4>1, StatementIs
      <4>3. p.scope \in Seq(Repos)
          BY DEF Ready
      <4> QED
          BY <4>2, <4>3 DEF Range
    <3>2. LocalEffect(g, h, p, p.plan[p.k], r)
        BY StatementLocal
    <3>3. PICK op : op = p.plan[j].op
        OBVIOUS
    <3>4. Done(g, p, r, op)
        BY <3>1, <3>3 DEF Finished
    <3>5. SameLocal(g, h, r) \/ Adds(g, h, p.files)
      <4>1. ASSUME p.plan[p.k].repo = r, p.plan[p.k].op \in Destructive PROVE FALSE
        <5>1. Rank(p.plan[j].op) < Rank(p.plan[p.k].op)
          <6>1. p.plan[p.k].op \in OwnOps
              BY <4>1 DEF OwnOps
          <6> QED
              BY <1>0, <3>1, <4>1, <6>1 DEF WellPlanned
        <5>2. Rank(p.plan[j].op) \in 4..13
            BY <2>2 DEF ContentOps, Rank, FeatureLabels, HttpLabels, KafkaLabels
        <5>3. Rank(p.plan[p.k].op) \in 1..3
            BY <4>1 DEF Destructive, ClearOps, DeleteOps, Rank
        <5> QED
            BY <5>1, <5>2, <5>3
      <4> QED
          BY <3>2, <4>1 DEF LocalEffect
    <3>6. Done(h, p, r, op)
        BY <1>0, <3>4, <3>5, DoneSame, DoneAdds
    <3>7. ASSUME op \in FeatureLabels PROVE OwnersThere(h, p.files, op, r)
      <4>1. OwnersThere(g, p.files, op, r)
          BY <3>1, <3>3, <3>7 DEF Finished
      <4> QED
          BY <3>5, <3>7, <4>1, OwnersKept
    <3> QED
        BY <1>3, <3>1, <3>3, <3>6, <3>7 DEF Finished
  <2> QED
      BY <2>1, <2>2
<1> QED
    BY <1>2, <1>3

\* Everything that is written of the files is there.
AllThere(g, F) == FileNodes(F) \cup DerivedNodes(F) \subseteq DOMAIN g.node

\* It is, when all that writes is done.
LEMMA WholeThere ==
    ASSUME NEW g, GraphOK(g), NEW p, Parsed(p.files), \A r \in Repos : Whole(g, p, r)
    PROVE  AllThere(g, p.files) /\ LocalEdges(p.files) \subseteq g.edge
<1> DEFINE F == p.files
<1>0. \A q \in DOMAIN F : q \in Paths /\ RepoOf[q] \in Repos /\ q \in InRepo(F, RepoOf[q])
    BY PathRepo DEF InRepo
<1>1. ASSUME NEW q \in DOMAIN F, NEW op \in PartOps PROVE Has(g, q, F[q], op)
  <2>1. op \in ContentOps
      BY <1>1 DEF PartOps, ContentOps
  <2>2. Done(g, p, RepoOf[q], op)
      BY <1>0, <1>1, <2>1 DEF Whole
  <2> QED
      BY <1>0, <1>1, <2>2 DEF Done
<1>2. ASSUME NEW n \in FileNodes(F) PROVE n \in DOMAIN g.node
  <2>1. PICK q \in DOMAIN F : n = FileNode(q)
      BY <1>2 DEF FileNodes
  <2>2. Done(g, p, RepoOf[q], "Files")
      BY <1>0, <2>1 DEF Whole, ContentOps
  <2> QED
      BY <1>0, <2>1, <2>2 DEF Done, HashIs, In
<1>3. ASSUME NEW n \in DerivedNodes(F) PROVE n \in DOMAIN g.node
  <2>1. PICK q \in DOMAIN F, op \in PartOps :
            n \in PartNodes(q, F[q], op) \/ \E e \in PartEdges(q, F[q], op) : n = e[3]
      BY <1>3, NodesOfFile
  <2>2. PartNodes(q, F[q], op) \subseteq DOMAIN g.node /\ PartEdges(q, F[q], op) \subseteq g.edge
      BY <1>1, <2>1 DEF Has
  <2> QED
      BY <2>1, <2>2 DEF GraphOK, NoDangling, Exists
<1>4. ASSUME NEW e \in LocalEdges(F) PROVE e \in g.edge
  <2>1. PICK q \in DOMAIN F, op \in PartOps : e \in PartEdges(q, F[q], op)
      BY <1>4, EdgesOfFile
  <2> QED
      BY <1>1, <2>1 DEF Has
<1> QED
    BY <1>2, <1>3, <1>4 DEF AllThere

-----------------------------------------------------------------------------
\* _UPSERT_CALLS finds both ends.
LEMMA CallsLeave ==
    ASSUME NEW g, NEW F, AllThere(g, F), NEW r
    PROVE  LateEdges(F, "Calls", r) \subseteq UpsertCalls(g, r, F).edge
<1>1. LateEdges(F, "Calls", r) = {e \in ResolvedCalls(F, r) : {e[1], e[3]} \subseteq DerivedNodes(F)}
    BY DEF LateEdges
<1>2. UpsertCalls(g, r, F).edge = g.edge \cup {e \in ResolvedCalls(F, r) : Exists(g, e[1]) /\ Exists(g, e[3])}
    BY DEF UpsertCalls, Upsert
<1> QED
    BY <1>1, <1>2 DEF AllThere, Exists

\* An import is an edge from a file to a symbol.
LEMMA ImportIs ==
    ASSUME NEW F, NEW e \in ImportEdges(F)
    PROVE  \E p, q \in DOMAIN F : \E s \in Rec(F, p).imports \cap Rec(F, q).syms :
              e = <<FileNode(p), "IMPORTS", SymbolNode(RepoOf[q], s)>>
<1>1. PICK z \in (DOMAIN F) \X (DOMAIN F) :
          \E s \in Rec(F, z[1]).imports \cap Rec(F, z[2]).syms :
             e = <<FileNode(z[1]), "IMPORTS", SymbolNode(RepoOf[z[2]], s)>>
    BY DEF ImportEdges
<1>2. z[1] \in DOMAIN F /\ z[2] \in DOMAIN F
    OBVIOUS
<1> QED
    BY <1>1, <1>2

\* _UPSERT_IMPORTS finds the file and the symbol.
LEMMA ImportsLeave ==
    ASSUME NEW g, NEW F, Parsed(F), AllThere(g, F), NEW r
    PROVE  LateEdges(F, "Imports", r) \subseteq UpsertImports(g, r, F).edge
<1> DEFINE known == UNION {SymbolsOf(F, q) : q \in Repos}
           held == {q \in InRepo(F, r) : Exists(g, FileNode(q))}
           ends(p) == {s \in Labelled(g, {"Symbol"}) : s[3] \in Rec(F, p).imports \cap known}
<1>1. ASSUME NEW e \in ImportEdges(F), e[1][2] = r PROVE e \in UpsertImports(g, r, F).edge
  <2>1. PICK p, q \in DOMAIN F : \E s \in Rec(F, p).imports \cap Rec(F, q).syms :
              e = <<FileNode(p), "IMPORTS", SymbolNode(RepoOf[q], s)>>
      BY <1>1, ImportIs
  <2>2. PICK s \in Rec(F, p).imports \cap Rec(F, q).syms :
              e = <<FileNode(p), "IMPORTS", SymbolNode(RepoOf[q], s)>>
      BY <2>1
  <2>3. RepoOf[p] = r /\ p \in held
    <3>1. e[1] = FileNode(p)
        BY <2>2
    <3>2. RepoOf[p] = r
        BY <1>1, <3>1 DEF FileNode
    <3>3. FileNode(p) \in DOMAIN g.node
        BY <2>1 DEF AllThere, FileNodes
    <3> QED
        BY <2>1, <3>2, <3>3 DEF InRepo, Exists
  <2>4. SymbolNode(RepoOf[q], s) \in ends(p)
    <3>1. RepoOf[q] \in Repos /\ q \in InRepo(F, RepoOf[q])
        BY <2>1, PathRepo DEF InRepo
    <3>2. s \in SymbolsOf(F, RepoOf[q])
        BY <2>2, <3>1 DEF SymbolsOf
    <3>3. s \in known
        BY <3>1, <3>2
    <3>4. SymbolNode(RepoOf[q], s) \in DOMAIN g.node
        BY <2>1, <2>2, DerivedHas DEF AllThere
    <3>5. SymbolNode(RepoOf[q], s)[1] = "Symbol" /\ SymbolNode(RepoOf[q], s)[3] = s
        BY DEF SymbolNode
    <3> QED
        BY <2>2, <3>3, <3>4, <3>5 DEF Labelled
  <2>5. UpsertImports(g, r, F).edge = g.edge \cup UNION {{<<FileNode(x), "IMPORTS", n>> : n \in ends(x)} : x \in held}
      BY DEF UpsertImports, Upsert
  <2> QED
      BY <2>2, <2>3, <2>4, <2>5
<1>2. LateEdges(F, "Imports", r) = {e \in ImportEdges(F) : e[1][2] = r}
    BY DEF LateEdges
<1> QED
    BY <1>1, <1>2

\* An edge between two features joins a pair of them.
LEMMA FlowIs ==
    ASSUME NEW F, NEW source, NEW rel, NEW sink, NEW e \in FlowEdges(F, source, rel, sink)
    PROVE  \E x \in FeaturesOf(F, {source}), y \in FeaturesOf(F, {sink}) :
              x[2].key = y[2].key /\ e = <<FeatureNode(x[1], x[2]), rel, FeatureNode(y[1], y[2])>>
<1>1. PICK z \in FeaturesOf(F, {source}) \X FeaturesOf(F, {sink}) :
          z[1][2].key = z[2][2].key /\ e = <<FeatureNode(z[1][1], z[1][2]), rel, FeatureNode(z[2][1], z[2][2])>>
    BY DEF FlowEdges
<1>2. z[1] \in FeaturesOf(F, {source}) /\ z[2] \in FeaturesOf(F, {sink})
    OBVIOUS
<1> QED
    BY <1>1, <1>2

\* The node of a feature that is there.
LEMMA FeatureThere ==
    ASSUME NEW g, NEW F, AllThere(g, F), NEW kind \in FeatureLabels, NEW x \in FeaturesOf(F, {kind})
    PROVE  /\ FeatureNode(x[1], x[2]) \in Labelled(g, {kind})
           /\ FeatureNode(x[1], x[2])[2] = RepoOf[x[1]] /\ FeatureNode(x[1], x[2])[3][2] = x[2].key
<1>1. PICK q \in DOMAIN F : \E ft \in Rec(F, q).feats : ft.kind \in {kind} /\ x = <<q, ft>>
    BY FeaturesAre
<1>2. PICK ft \in Rec(F, q).feats : ft.kind = kind /\ x = <<q, ft>>
    BY <1>1
<1>3. FeatureNode(q, ft) \in DOMAIN g.node
    BY <1>2, DerivedHas DEF AllThere
<1>4. x[1] = q /\ x[2] = ft
    BY <1>2
<1>5. FeatureNode(q, ft)[1] = kind /\ FeatureNode(q, ft)[2] = RepoOf[q] /\ FeatureNode(q, ft)[3][2] = ft.key
    BY <1>2 DEF FeatureNode
<1> QED
    BY <1>3, <1>4, <1>5 DEF Labelled

\* The matchers find every pair.
LEMMA MatchersFind ==
    ASSUME NEW F
    PROVE  /\ \A x \in FeaturesOf(F, {"HttpClientCall"}), y \in FeaturesOf(F, {"Route"}) : x[2].key = y[2].key
                 => <<FeatureNode(x[1], x[2]), RepoOf[y[1]], y[2].key>> \in HttpFlows(F)
           /\ \A x \in FeaturesOf(F, {"KafkaProducer"}), y \in FeaturesOf(F, {"KafkaConsumer"}) : x[2].key = y[2].key
                 => <<RepoOf[x[1]], RepoOf[y[1]], x[2].key>> \in KafkaFlows(F)
<1>1. ASSUME NEW x \in FeaturesOf(F, {"HttpClientCall"}), NEW y \in FeaturesOf(F, {"Route"}), x[2].key = y[2].key
      PROVE  <<FeatureNode(x[1], x[2]), RepoOf[y[1]], y[2].key>> \in HttpFlows(F)
  <2>1. PICK z \in FeaturesOf(F, {"HttpClientCall"}) \X FeaturesOf(F, {"Route"}) : z[1] = x /\ z[2] = y
      BY PairIn
  <2> QED
      BY <1>1, <2>1 DEF HttpFlows
<1>2. ASSUME NEW x \in FeaturesOf(F, {"KafkaProducer"}), NEW y \in FeaturesOf(F, {"KafkaConsumer"}), x[2].key = y[2].key
      PROVE  <<RepoOf[x[1]], RepoOf[y[1]], x[2].key>> \in KafkaFlows(F)
  <2>1. PICK z \in FeaturesOf(F, {"KafkaProducer"}) \X FeaturesOf(F, {"KafkaConsumer"}) : z[1] = x /\ z[2] = y
      BY PairIn
  <2> QED
      BY <1>2, <2>1 DEF KafkaFlows
<1> QED
    BY <1>1, <1>2

\* _UPSERT_HTTP_FLOWS finds both ends of each.
LEMMA HttpFlowsLeave ==
    ASSUME NEW g, NEW F, AllThere(g, F), NEW r
    PROVE  LateEdges(F, "HttpFlows", r) \subseteq UpsertHttpFlows(g, F).edge
<1>1. ASSUME NEW e \in FlowEdges(F, "HttpClientCall", "HTTP_FLOW", "Route") PROVE e \in UpsertHttpFlows(g, F).edge
  <2>1. PICK x \in FeaturesOf(F, {"HttpClientCall"}), y \in FeaturesOf(F, {"Route"}) :
              x[2].key = y[2].key /\ e = <<FeatureNode(x[1], x[2]), "HTTP_FLOW", FeatureNode(y[1], y[2])>>
    <3>1. PICK source, rel, sink : source = "HttpClientCall" /\ rel = "HTTP_FLOW" /\ sink = "Route"
        OBVIOUS
    <3>2. e \in FlowEdges(F, source, rel, sink)
        BY <1>1, <3>1
    <3>3. \E x \in FeaturesOf(F, {source}), y \in FeaturesOf(F, {sink}) :
              x[2].key = y[2].key /\ e = <<FeatureNode(x[1], x[2]), rel, FeatureNode(y[1], y[2])>>
        BY <3>2, FlowIs
    <3> QED
        BY <3>1, <3>3
  <2>2. PICK n : n = FeatureNode(x[1], x[2])
      OBVIOUS
  <2>3. PICK m : m = FeatureNode(y[1], y[2])
      OBVIOUS
  <2>4. /\ n \in DOMAIN g.node
        /\ m \in Labelled(g, {"Route"}) /\ m[2] = RepoOf[y[1]] /\ m[3][2] = y[2].key
    <3>1. PICK kc \in FeatureLabels : kc = "HttpClientCall"
        BY DEF FeatureLabels, HttpLabels
    <3>2. PICK kr \in FeatureLabels : kr = "Route"
        BY DEF FeatureLabels, HttpLabels
    <3>3. x \in FeaturesOf(F, {kc}) /\ y \in FeaturesOf(F, {kr})
        BY <3>1, <3>2
    <3>4. n \in Labelled(g, {kc})
        BY <2>2, <3>3, FeatureThere
    <3>5. m \in Labelled(g, {kr}) /\ m[2] = RepoOf[y[1]] /\ m[3][2] = y[2].key
        BY <2>3, <3>3, FeatureThere
    <3> QED
        BY <3>2, <3>4, <3>5 DEF Labelled
  <2>5. PICK w \in HttpFlows(F) : w = <<n, RepoOf[y[1]], y[2].key>>
      BY <2>1, <2>2, MatchersFind
  <2>6. PICK z \in HttpFlows(F) \X Labelled(g, {"Route"}) : z[1] = w /\ z[2] = m
      BY <2>4, PairIn
  <2>7. Exists(g, z[1][1]) /\ z[2][2] = z[1][2] /\ z[2][3][2] = z[1][3] /\ z[1][1] = n
      BY <2>4, <2>5, <2>6 DEF Exists
  <2>8. e = <<z[1][1], "HTTP_FLOW", z[2]>>
      BY <2>1, <2>2, <2>3, <2>6, <2>7
  <2>9. UpsertHttpFlows(g, F).edge = g.edge \cup
           {<<v[1][1], "HTTP_FLOW", v[2]>> :
               v \in {u \in HttpFlows(F) \X Labelled(g, {"Route"}) :
                         Exists(g, u[1][1]) /\ u[2][2] = u[1][2] /\ u[2][3][2] = u[1][3]}}
      BY DEF UpsertHttpFlows, Upsert
  <2> QED
      BY <2>7, <2>8, <2>9
<1>2. LateEdges(F, "HttpFlows", r) = FlowEdges(F, "HttpClientCall", "HTTP_FLOW", "Route")
    BY DEF LateEdges
<1> QED
    BY <1>1, <1>2

\* _UPSERT_KAFKA_FLOWS finds both ends of each.
LEMMA KafkaFlowsLeave ==
    ASSUME NEW g, NEW F, AllThere(g, F), NEW r
    PROVE  LateEdges(F, "KafkaFlows", r) \subseteq UpsertKafkaFlows(g, F).edge
<1> DEFINE match(label, repo, topic) ==
               {n \in Labelled(g, {label}) : n[2] = repo /\ n[3][2] = topic}
           flows(v) == {<<a, "KAFKA_FLOW", b>> :
                            a \in match("KafkaProducer", v[1], v[3]), b \in match("KafkaConsumer", v[2], v[3])}
<1>1. ASSUME NEW e \in FlowEdges(F, "KafkaProducer", "KAFKA_FLOW", "KafkaConsumer")
      PROVE  e \in UpsertKafkaFlows(g, F).edge
  <2>1. PICK x \in FeaturesOf(F, {"KafkaProducer"}), y \in FeaturesOf(F, {"KafkaConsumer"}) :
              x[2].key = y[2].key /\ e = <<FeatureNode(x[1], x[2]), "KAFKA_FLOW", FeatureNode(y[1], y[2])>>
      BY FlowIs
  <2>2. PICK n : n = FeatureNode(x[1], x[2])
      OBVIOUS
  <2>3. PICK m : m = FeatureNode(y[1], y[2])
      OBVIOUS
  <2>4. /\ n \in Labelled(g, {"KafkaProducer"}) /\ n[2] = RepoOf[x[1]] /\ n[3][2] = x[2].key
        /\ m \in Labelled(g, {"KafkaConsumer"}) /\ m[2] = RepoOf[y[1]] /\ m[3][2] = y[2].key
    <3>1. PICK kc \in FeatureLabels : kc = "KafkaProducer"
        BY DEF FeatureLabels, KafkaLabels
    <3>2. PICK kr \in FeatureLabels : kr = "KafkaConsumer"
        BY DEF FeatureLabels, KafkaLabels
    <3>3. x \in FeaturesOf(F, {kc}) /\ y \in FeaturesOf(F, {kr})
        BY <3>1, <3>2
    <3>4. n \in Labelled(g, {kc}) /\ n[2] = RepoOf[x[1]] /\ n[3][2] = x[2].key
        BY <2>2, <3>3, FeatureThere
    <3>5. m \in Labelled(g, {kr}) /\ m[2] = RepoOf[y[1]] /\ m[3][2] = y[2].key
        BY <2>3, <3>3, FeatureThere
    <3> QED
        BY <3>1, <3>2, <3>4, <3>5
  <2>5. PICK w \in KafkaFlows(F) : w = <<RepoOf[x[1]], RepoOf[y[1]], x[2].key>>
      BY <2>1, MatchersFind
  <2>6. n \in match("KafkaProducer", w[1], w[3]) /\ m \in match("KafkaConsumer", w[2], w[3])
      BY <2>1, <2>4, <2>5
  <2>7. UpsertKafkaFlows(g, F).edge = g.edge \cup UNION {flows(v) : v \in KafkaFlows(F)}
      BY DEF UpsertKafkaFlows, Upsert
  <2>8. e \in flows(w)
      BY <2>1, <2>2, <2>3, <2>6
  <2> HIDE DEF flows
  <2> QED
      BY <2>7, <2>8
<1>2. LateEdges(F, "KafkaFlows", r) = FlowEdges(F, "KafkaProducer", "KAFKA_FLOW", "KafkaConsumer")
    BY DEF LateEdges
<1> QED
    BY <1>1, <1>2

\* One of _UPSERT_ROUTES, _HTTP_CLIENTS, _KAFKA_PRODUCERS, _KAFKA_CONSUMERS
\* finds the owners that are there.
LEMMA OwnersLeave ==
    ASSUME NEW g, NEW F, Parsed(F), NEW r, NEW op \in FeatureLabels, SymbolNodesOf(F, r) \subseteq DOMAIN g.node
    PROVE  OwnersThere(UpsertFeatures(g, op, r, F), F, op, r)
<1> DEFINE fs == {x \in FeaturesOf(F, {op}) : RepoOf[x[1]] = r}
           own == {<<SymbolNode(r, x[2].owner), OwnerRel(op), FeatureNode(x[1], x[2])>> :
                      x \in {y \in fs : Exists(g, SymbolNode(r, y[2].owner))}}
<1>1. own \subseteq UpsertFeatures(g, op, r, F).edge
    BY DEF UpsertFeatures, Upsert
<1>2. \A q \in InRepo(F, r) : \A ft \in Feats(q, F[q], op) : <<q, ft>> \in fs
    BY FeaturesOfOK
<1> HIDE DEF fs
<1>3. ASSUME NEW q \in InRepo(F, r), NEW ft \in Feats(q, F[q], op), ft.owner \in SymbolsOf(F, r)
      PROVE  OwnerEdge(q, ft) \in own
  <2>1. PICK x : x = <<q, ft>>
      OBVIOUS
  <2>2. x \in fs /\ x[1] = q /\ x[2] = ft
      BY <1>2, <2>1
  <2>3. Exists(g, SymbolNode(r, x[2].owner))
      BY <1>3, <2>2 DEF Exists, SymbolNodesOf
  <2>4. RepoOf[q] = r /\ ft.kind = op
      BY DEF InRepo, Feats
  <2>5. OwnerEdge(q, ft) = <<SymbolNode(r, x[2].owner), OwnerRel(op), FeatureNode(x[1], x[2])>>
      BY <2>2, <2>4 DEF OwnerEdge
  <2> QED
      BY <2>2, <2>3, <2>5
<1> HIDE DEF own
<1> QED
    BY <1>1, <1>3 DEF OwnersThere

\* What a link or a flow is to leave, with everything there.
LEMMA LateLeaves ==
    ASSUME NEW g, NEW p, Parsed(p.files), AllThere(g, p.files), NEW r, NEW op \in LateOps,
           NEW h, h = Apply(g, Stmt(op, r), p)
    PROVE  LateEdges(p.files, op, r) \subseteq h.edge
<1>0. Stmt(op, r).op = op /\ Stmt(op, r).repo = r
    BY DEF Stmt
<1>1. CASE op = "Calls"
  <2>1. h = UpsertCalls(g, r, p.files)
      BY <1>0, <1>1 DEF Apply, FeatureLabels, HttpLabels, KafkaLabels
  <2> QED
      BY <1>1, <2>1, CallsLeave
<1>2. CASE op = "Imports"
  <2>1. h = UpsertImports(g, r, p.files)
      BY <1>0, <1>2 DEF Apply, FeatureLabels, HttpLabels, KafkaLabels
  <2> QED
      BY <1>2, <2>1, ImportsLeave
<1>3. CASE op = "HttpFlows"
  <2>1. h = UpsertHttpFlows(g, p.files)
      BY <1>0, <1>3 DEF Apply, FeatureLabels, HttpLabels, KafkaLabels
  <2> QED
      BY <1>3, <2>1, HttpFlowsLeave
<1>4. CASE op = "KafkaFlows"
  <2>1. h = UpsertKafkaFlows(g, p.files)
      BY <1>0, <1>4 DEF Apply, FeatureLabels, HttpLabels, KafkaLabels
  <2> QED
      BY <1>4, <2>1, KafkaFlowsLeave
<1> QED
    BY <1>1, <1>2, <1>3, <1>4 DEF LateOps, LinkOps

\* A full refresh that has done what it passed has, in each repository.
LEMMA BuiltToRepo ==
    ASSUME NEW g, NEW p, BuiltTo(g, p), NEW r
    PROVE  Built(g, p, r)
BY DEF BuiltTo, Finished, Built

\* When the links and flows come, all is written.
LEMMA WholeBefore ==
    ASSUME NEW g, NEW p, Ready(p), Full(p), p.plan[p.k].op \in LateOps, BuiltTo(g, p), NEW r \in Repos
    PROVE  Whole(g, p, r)
<1>1. r \in Range(p.scope) /\ ScopeList(p) /\ p.plan = Plan(p)
    BY FullScope DEF Full
<1>2. ASSUME NEW op \in ContentOps PROVE Done(g, p, r, op)
  <2>1. CASE PlannedOp(p, r, op)
    <3>1. op \in OwnOps
        BY <1>2, OpKinds
    <3>2. PICK j \in 1..(p.k - 1) : p.plan[j] = Stmt(op, r)
        BY <1>1, <2>1, <3>1, LateAfterAll DEF Passed
    <3>3. Finished(g, p, p.plan[j])
        BY <3>2 DEF BuiltTo
    <3> QED
        BY <3>2, <3>3 DEF Finished, Stmt
  <2>2. CASE ~ PlannedOp(p, r, op)
      BY <1>2, <2>2, UnplannedDone DEF Ready
  <2> QED
      BY <2>1, <2>2
<1> QED
    BY <1>2 DEF Whole

\* The statement of a run that has done what it passed does what it is for.
LEMMA FinishedOwn ==
    ASSUME ParentsLocal, NEW g, GraphOK(g), Owned(g), NEW p, Ready(p), Full(p), BuiltTo(g, p),
           NEW h, h = Apply(g, p.plan[p.k], p)
    PROVE  Finished(h, p, p.plan[p.k])
<1>1. PICK op, r : op = p.plan[p.k].op /\ r = p.plan[p.k].repo
    OBVIOUS
<1>2. p.plan[p.k] = Stmt(op, r) /\ h = Apply(g, Stmt(op, r), p) /\ Parsed(p.files) /\ op \in AllOps
    BY <1>1, StatementRepo DEF Ready
<1>3. CASE op \in LateOps
  <2>1. AllThere(g, p.files)
    <3>1. \A q \in Repos : Whole(g, p, q)
        BY <1>1, <1>3, WholeBefore
    <3> QED
        BY <1>2, <3>1, WholeThere
  <2>2. LateEdges(p.files, op, r) \subseteq h.edge
      BY <1>2, <1>3, <2>1, LateLeaves
  <2>3. op \notin ContentOps /\ op \notin FeatureLabels
      BY <1>3, EarlyLate, OpKinds DEF ContentOps
  <2> QED
      BY <1>1, <2>2, <2>3, DoneTrivial DEF Finished
<1>4. CASE op \in ContentOps
  <2>1. r \in Repos /\ r \in Range(p.scope) /\ op \in OwnOps
      BY <1>1, <1>4, StatementRepo, OpKinds
  <2>2. LocalEffect(g, h, p, p.plan[p.k], r)
      BY <2>1, StatementLocal
  <2>3. op \notin Destructive /\ op \notin LateOps
    <3>1. op \notin LateOps
        BY <1>4, EarlyLate, OpKinds
    <3>2. op \notin Destructive
        BY <1>4 DEF ContentOps, Destructive, ClearOps, DeleteOps, FeatureLabels, HttpLabels, KafkaLabels
    <3> QED
        BY <3>1, <3>2
  <2>4. Needs(g, p, r, op) => Done(h, p, r, op)
      BY <1>1, <2>1, <2>2, <2>3 DEF LocalEffect
  <2>5. Needs(g, p, r, op)
    <3>1. WellPlanned(p) /\ p.k \in 1..Len(p.plan)
        BY DEF Ready
    <3> QED
        BY <1>2, <1>4, <2>1, <3>1, BuiltToRepo, BuiltFinds
  <2>6. ASSUME op \in FeatureLabels PROVE OwnersThere(h, p.files, op, r)
    <3>1. SymbolNodesOf(p.files, r) \subseteq DOMAIN g.node
        BY <2>5, <2>6 DEF Needs
    <3>2. Stmt(op, r).op = op /\ Stmt(op, r).repo = r
        BY DEF Stmt
    <3>3. h = UpsertFeatures(g, op, r, p.files)
        BY <1>2, <2>6, <3>2 DEF Apply, FeatureLabels, HttpLabels, KafkaLabels
    <3> QED
        BY <1>2, <2>6, <3>1, <3>3, OwnersLeave
  <2> QED
      BY <1>1, <2>3, <2>4, <2>5, <2>6 DEF Finished
<1>5. CASE op \notin LateOps /\ op \notin ContentOps
  <2>1. op \notin FeatureLabels
      BY <1>5 DEF ContentOps
  <2> QED
      BY <1>1, <1>5, <2>1, DoneTrivial DEF Finished
<1> QED
    BY <1>3, <1>4, <1>5

\* So the run goes on having done what it passed.
LEMMA BuiltToGoes ==
    ASSUME ParentsLocal, NEW g, GraphOK(g), Owned(g), Shape(g), NEW p, Ready(p), Full(p), BuiltTo(g, p),
           NEW h, NEW q, Goes(g, h, p, q)
    PROVE  BuiltTo(h, q)
<1>0. Twins(p, q) /\ q.k \in Nat \ {0} /\ p.k \in Nat
  <2>1. p.plan \in Seq(Statements(Range(p.scope))) /\ p.k \in 1..Len(p.plan)
      BY DEF Ready, WellPlanned
  <2> QED
      BY <2>1 DEF Goes, SamePlan, Twins
<1>1. CASE h = g /\ q.k <= p.k
    BY <1>0, <1>1, BuiltToLower
<1>2. CASE h = Apply(g, p.plan[p.k], p) /\ q.k <= p.k + 1
  <2>1. ScopeList(p) /\ p.plan = Plan(p)
      BY FullScope DEF Full
  <2>2. ASSUME NEW j \in 1..(q.k - 1) PROVE Finished(h, q, q.plan[j])
    <3>1. j \in 1..(p.k - 1) \/ j = p.k
        BY <1>0, <1>2
    <3>2. CASE j \in 1..(p.k - 1)
      <4>1. Finished(g, p, p.plan[j])
          BY <3>2 DEF BuiltTo
      <4>2. Finished(h, p, p.plan[j])
          BY <1>2, <2>1, <3>2, <4>1, FinishedKept
      <4> QED
          BY <1>0, <4>2, FinishedTwin DEF Twins
    <3>3. CASE j = p.k
      <4>1. Finished(h, p, p.plan[j])
          BY <1>2, <3>3, FinishedOwn
      <4> QED
          BY <1>0, <4>1, FinishedTwin DEF Twins
    <3> QED
        BY <3>1, <3>2, <3>3
  <2> QED
      BY <2>2 DEF BuiltTo
<1> QED
    BY <1>1, <1>2 DEF Goes

\* A run that goes on leaves what one that writes the same had done, or else is
\* not ahead of it and takes its place.
LEMMA OtherBuilt ==
    ASSUME ParentsLocal, NEW g, GraphOK(g), Owned(g), Shape(g), NEW p, Ready(p), Full(p),
           NEW h, NEW q, Goes(g, h, p, q), NEW w, Twins(p, w), w.k \in Nat, BuiltTo(g, w)
    PROVE  BuiltTo(h, w) \/ BuiltTo(h, q)
<1>0. p.k \in Nat /\ Twins(w, p)
  <2>1. p.plan \in Seq(Statements(Range(p.scope))) /\ p.k \in 1..Len(p.plan)
      BY DEF Ready, WellPlanned
  <2> QED
      BY <2>1 DEF Twins
<1>1. CASE p.k <= w.k
  <2>1. BuiltTo(g, p)
      BY <1>0, <1>1, BuiltToLower
  <2> QED
      BY <2>1, BuiltToGoes
<1>2. CASE w.k < p.k
  <2>1. CASE h = g
      BY <2>1
  <2>2. CASE h = Apply(g, p.plan[p.k], p)
    <3>1. ScopeList(p) /\ p.plan = Plan(p)
        BY FullScope DEF Full
    <3>2. ASSUME NEW j \in 1..(w.k - 1) PROVE Finished(h, w, w.plan[j])
      <4>1. j \in 1..(p.k - 1) /\ w.plan[j] = p.plan[j]
          BY <1>0, <1>2 DEF Twins
      <4>2. Finished(g, p, p.plan[j])
          BY <1>0, <3>2, <4>1, FinishedTwin DEF BuiltTo
      <4>3. Finished(h, p, p.plan[j])
          BY <2>2, <3>1, <4>1, <4>2, FinishedKept
      <4> QED
          BY <4>1, <4>3, FinishedTwin
    <3> QED
        BY <3>2 DEF BuiltTo
  <2> QED
      BY <2>1, <2>2 DEF Goes
<1> QED
    BY <1>0, <1>1, <1>2

-----------------------------------------------------------------------------
(***************************************************************************)
(* The runs that write, and the steps they take.                           *)
(***************************************************************************)
\* What a run writes is what it planned from its files, for some repositories.
RunPlanned(p) == p.pc = "write" => p.plan = Plan(p) /\ p.scope # << >>
PlanInv == \A i \in Indexers : RunPlanned(proc[i])

\* The run i is a full refresh of the workspace that is writing.
Refreshing(i) == proc[i].pc = "write" /\ proc[i].mode = "full" /\ proc[i].scope = RepoOrder

\* While full refreshes write, and only what they write is written, what each
\* has cleared is clean, and one of them has done what it passed.
RefreshInv ==
    /\ PlanInv /\ Shape(graph)
    /\ tangled = {} =>
          /\ \A i \in Indexers : Refreshing(i) => Upper(graph, proc[i])
          /\ (\E i \in Indexers : Refreshing(i)) => \E i \in Indexers : Refreshing(i) /\ BuiltTo(graph, proc[i])

\* The plan stays what it was.
LEMMA PlanKept ==
    ASSUME NEW p, NEW q, SamePlan(p, q), p.plan = Plan(p), p.scope # << >>
    PROVE  q.plan = Plan(q) /\ q.scope # << >>
BY PlanSame DEF SamePlan

\* A run that begins to write, by either account of its step.
LEMMA BeginsScope ==
    ASSUME NEW i \in Indexers, RunOK(proc[i]), Steps(i), proc[i].pc # "write", proc'[i].pc = "write"
    PROVE  proc'[i].scope # << >>
<1>1. Looks(proc[i], proc'[i])
    BY DEF Steps, Stays, Starts, Stops, Fetches, GoesOn
<1>2. proc[i].pc \in {"diff", "walk"} /\ proc'[i].scope = proc[i].scope
    BY <1>1 DEF Looks
<1>3. proc[i].idx \in 1..Len(proc[i].scope)
    BY <1>2 DEF RunOK
<1> QED
    BY <1>2, <1>3

\* So every run that writes has its plan.
LEMMA PlanNext ==
    ASSUME TypeInv, PlanInv, [Next]_vars
    PROVE  PlanInv'
<1> SUFFICES ASSUME NEW j \in Indexers, proc'[j].pc = "write" PROVE proc'[j].plan = Plan(proc'[j]) /\ proc'[j].scope # << >>
    BY DEF PlanInv, RunPlanned
<1>0. RunOK(proc[j]) /\ RunPlanned(proc[j])
    BY DEF TypeInv, RunsOK, PlanInv
<1>1. CASE UNCHANGED proc
    BY <1>0, <1>1 DEF RunPlanned
<1>2. CASE proc'[j] = proc[j]
    BY <1>0, <1>2 DEF RunPlanned
<1>3. CASE proc[j].pc = "write" /\ SamePlan(proc[j], proc'[j])
    BY <1>0, <1>3, PlanKept DEF RunPlanned
<1>4. ASSUME NEW i \in Indexers, Reads(i) PROVE proc'[j] = proc[j]
    BY <1>4 DEF Reads
<1>5. ASSUME NEW i \in Indexers, Begins(i)
      PROVE  \/ proc'[j] = proc[j] \/ (proc[j].pc = "write" /\ SamePlan(proc[j], proc'[j]))
             \/ proc'[j].plan = Plan(proc'[j]) /\ proc[j].pc # "write"
    BY <1>5 DEF Begins
<1>6. ASSUME NEW i \in Indexers, Writes(i)
      PROVE  proc'[j] = proc[j] \/ (proc[j].pc = "write" /\ SamePlan(proc[j], proc'[j]))
    BY <1>6 DEF Writes, WriteOn, Kept, AtStatement
<1>7. ASSUME NEW i \in Indexers, Returns(i) \/ Dead(i) PROVE proc'[j] = proc[j]
    BY <1>7 DEF Returns, Dead, Ends
<1>8. CASE proc'[j].plan = Plan(proc'[j]) /\ proc[j].pc # "write"
    BY <1>0, <1>8, EveryStep, BeginsScope
<1> QED
    BY <1>1, <1>2, <1>3, <1>4, <1>5, <1>6, <1>7, <1>8, Moves

-----------------------------------------------------------------------------
\* A run that writes at the same time as a full refresh writes the same, and
\* has met it.
LEMMA RefreshTwins ==
    ASSUME RunsOK, PlanInv, OrphanInv, tangled = {}, NEW i \in Indexers, Refreshing(i),
           NEW j \in Indexers, j # i, proc[j].pc = "write"
    PROVE  Refreshing(j) /\ Twins(proc[i], proc[j]) /\ proc[j].met # {}
<1>1. proc[j].scope # << >> /\ proc[j].scope \in Seq(Repos) /\ proc[j].plan = Plan(proc[j]) /\ proc[i].plan = Plan(proc[i])
    BY DEF PlanInv, RunPlanned, RunsOK, RunOK, Refreshing
<1>2. PICK r \in Repos : r \in Range(proc[j].scope)
  <2>1. proc[j].scope[1] \in Repos /\ 1 \in DOMAIN proc[j].scope
      BY <1>1
  <2> QED
      BY <2>1 DEF Range
<1>3. r \in Range(proc[i].scope)
    BY DEF Refreshing, Repos
<1>4. i \in Writers(r) /\ j \in Writers(r) /\ Overlaps(r)
    BY <1>2, <1>3 DEF Writers, Refreshing, OrphanInv
<1>5. Alike(proc[i], proc[j]) /\ r \in proc[j].met
    BY <1>4 DEF Overlaps, Alike
<1>6. Plan(proc[i]) = Plan(proc[j])
    BY <1>5, PlanSame DEF Alike
<1> QED
    BY <1>1, <1>5, <1>6 DEF Alike, Twins, Refreshing

\* A full refresh is one.
LEMMA RefreshFull ==
    ASSUME RunsOK, PlanInv, NEW i \in Indexers, Refreshing(i)
    PROVE  Full(proc[i]) /\ proc[i].k \in Nat \ {0}
BY DEF RunsOK, RunOK, PlanInv, RunPlanned, Refreshing, Full

\* What the invariant asks of the graph and the runs.
RefreshesOK(g, run, S) ==
    /\ \A i \in S : Upper(g, run[i])
    /\ S # {} => \E i \in S : BuiltTo(g, run[i])
Refreshes == {i \in Indexers : Refreshing(i)}

\* The invariant, said so.
LEMMA RefreshIs == RefreshInv <=> PlanInv /\ Shape(graph) /\ (tangled = {} => RefreshesOK(graph, proc, Refreshes))
<1>1. \A i : i \in Refreshes <=> i \in Indexers /\ Refreshing(i)
    BY DEF Refreshes
<1> QED
    BY <1>1 DEF RefreshInv, RefreshesOK

\* A run that reads.
LEMMA ReadsRefresh ==
    ASSUME RefreshesOK(graph, proc, Refreshes), NEW i \in Indexers, Reads(i)
    PROVE  RefreshesOK(graph, proc, Refreshes)'
<1>1. \A j \in Indexers : j \in Refreshes => j # i
    BY DEF Reads, Refreshes, Refreshing
<1>2. \A j \in Indexers : j \in Refreshes' => j # i
    BY DEF Reads, Refreshes, Refreshing
<1>3. graph' = graph /\ \A j \in Indexers : j # i => proc'[j] = proc[j]
    BY DEF Reads
<1>4. \A j \in Indexers : j \in Refreshes <=> j \in Refreshes'
    BY <1>1, <1>2, <1>3 DEF Refreshes, Refreshing
<1>5. Refreshes \subseteq Indexers /\ Refreshes' \subseteq Indexers
    BY DEF Refreshes
<1>6. Refreshes' = Refreshes
    BY <1>4, <1>5
<1>7. \A j \in Refreshes : proc'[j] = proc[j]
    BY <1>1, <1>3, <1>5
<1> QED
    BY <1>3, <1>6, <1>7 DEF RefreshesOK

\* With the runs that end, those that go on keep what they have, unless the one
\* that had done what it passed is the one that ends.
LEMMA EndsRefresh ==
    ASSUME RunsOK, RefreshesOK(graph, proc, Refreshes), NEW i \in Indexers, Ends(i),
           i \in Refreshes => \A j \in Refreshes \ {i} : BuiltTo(graph, proc[i]) => BuiltTo(graph, proc[j])
    PROVE  RefreshesOK(graph, proc, Refreshes)'
<1>1. graph' = graph /\ \A j \in Indexers : j # i => proc'[j] = proc[j]
    BY DEF Ends
<1>2. Refreshes' = Refreshes \ {i}
    BY <1>1 DEF Ends, Refreshes, Refreshing
<1>3. \A j \in Refreshes' : j \in Refreshes /\ j # i /\ proc'[j] = proc[j]
    BY <1>1, <1>2 DEF Refreshes
<1>4. \A j \in Refreshes' : Upper(graph', proc'[j])
    BY <1>1, <1>3 DEF RefreshesOK
<1>5. ASSUME Refreshes' # {} PROVE \E j \in Refreshes' : BuiltTo(graph', proc'[j])
  <2>1. PICK w \in Refreshes : BuiltTo(graph, proc[w])
      BY <1>3, <1>5 DEF RefreshesOK
  <2>2. CASE w # i
      BY <1>1, <1>2, <1>3, <2>1, <2>2
  <2>3. CASE w = i
      BY <1>1, <1>3, <1>5, <2>1, <2>3
  <2> QED
      BY <2>2, <2>3
<1> QED
    BY <1>4, <1>5 DEF RefreshesOK

\* A full refresh that returns had done all, and so had its like.
LEMMA ReturnsRefresh ==
    ASSUME RunsOK, PlanInv, OrphanInv, tangled = {}, RefreshesOK(graph, proc, Refreshes),
           NEW i \in Indexers, Returns(i)
    PROVE  RefreshesOK(graph, proc, Refreshes)'
<1>1. ASSUME i \in Refreshes, NEW j \in Refreshes \ {i}, BuiltTo(graph, proc[i]) PROVE BuiltTo(graph, proc[j])
  <2>1. Refreshing(i) /\ j \in Indexers /\ j # i /\ proc[j].pc = "write"
      BY <1>1 DEF Refreshes, Refreshing
  <2>2. Twins(proc[i], proc[j])
      BY <2>1, RefreshTwins
  <2>3. proc[j].k \in Nat \ {0} /\ proc[i].k \in Nat \ {0} /\ proc[j].k <= Len(proc[j].plan) + 1
      BY <2>1 DEF RunsOK, RunOK
  <2>4. proc[i].k = Len(proc[i].plan) + 1 /\ proc[i].plan = proc[j].plan
      BY <2>2 DEF Returns, Twins
  <2> QED
      BY <1>1, <2>2, <2>3, <2>4, BuiltToLower
<1> QED
    BY <1>1, EndsRefresh DEF Returns

\* A run that dies was alone, or tangles what it wrote.
LEMMA DeadRefresh ==
    ASSUME RunsOK, PlanInv, OrphanInv, tangled' = {}, RefreshesOK(graph, proc, Refreshes),
           NEW i \in Indexers, Dead(i)
    PROVE  RefreshesOK(graph, proc, Refreshes)'
<1>0. tangled = {} /\ proc[i].met = {} /\ proc[i].pc = "write"
    BY DEF Dead, Ends
<1>1. ASSUME i \in Refreshes, NEW j \in Refreshes \ {i} PROVE FALSE
  <2>1. Refreshing(j) /\ j \in Indexers /\ j # i
      BY <1>1 DEF Refreshes
  <2> QED
      BY <1>0, <2>1, RefreshTwins
<1> QED
    BY <1>1, EndsRefresh DEF Dead

\* Two runs as far along with the same plan.
LEMMA RefreshSame ==
    ASSUME NEW g, NEW p, p.k \in Nat, NEW q, SamePlan(p, q), q.k = p.k
    PROVE  /\ Upper(g, p) => Upper(g, q)
           /\ BuiltTo(g, p) => BuiltTo(g, q)
<1>1. Twins(p, q)
    BY DEF SamePlan, Twins
<1> QED
    BY <1>1, UpperLower, BuiltToLower

\* A full refresh that is the first to write finds nothing that it cannot clear.
LEMMA FirstUpper ==
    ASSUME OrphanInv, tangled = {}, \A j \in Indexers : proc[j].pc # "write", NEW q, q.k = 1
    PROVE  Upper(graph, q) /\ BuiltTo(graph, q)
<1>1. ASSUME NEW r \in Repos PROVE Orphans(graph, r) = {}
  <2>1. Writers(r) = {}
      BY DEF Writers
  <2> QED
      BY <1>1, <2>1 DEF OrphanInv, InHand
<1>2. \A op, r : ~ Passed(q, op, r)
    BY DEF Passed
<1> QED
    BY <1>1, <1>2 DEF Upper, CleanIn, BuiltTo

\* A run that begins to write.
LEMMA BeginsRefresh ==
    ASSUME RunsOK, PlanInv, PlanInv', OrphanInv, tangled' = {}, RefreshesOK(graph, proc, Refreshes),
           NEW i \in Indexers, Begins(i)
    PROVE  RefreshesOK(graph, proc, Refreshes)'
<1>0. tangled = {} /\ graph' = graph /\ proc'[i].pc = "write" /\ proc[i].pc # "write" /\ proc'[i].k = 1
    BY DEF Begins
<1>1. ASSUME NEW j \in Indexers, j # i, proc[j].pc = "write"
      PROVE  proc'[j].pc = "write" /\ SamePlan(proc[j], proc'[j]) /\ proc'[j].k = proc[j].k /\ proc[j].k \in Nat \ {0}
    BY <1>1 DEF Begins, RunsOK, RunOK
<1>2. ASSUME NEW j \in Refreshes PROVE j \in Refreshes' /\ j # i
    BY <1>0, <1>1, <1>2 DEF Refreshes, Refreshing, SamePlan
<1>3. ASSUME NEW j \in Refreshes', j # i PROVE j \in Refreshes
  <2>1. j \in Indexers /\ proc'[j].pc = "write"
      BY <1>3 DEF Refreshes, Refreshing
  <2>2. proc[j].pc = "write"
      BY <1>3, <2>1 DEF Begins
  <2> QED
      BY <1>1, <1>3, <2>1, <2>2 DEF Refreshes, Refreshing, SamePlan
<1>4. ASSUME NEW j \in Refreshes
      PROVE  /\ Upper(graph, proc[j]) => Upper(graph', proc'[j])
             /\ BuiltTo(graph, proc[j]) => BuiltTo(graph', proc'[j])
  <2>1. j \in Indexers /\ j # i /\ proc[j].pc = "write"
      BY <1>2, <1>4 DEF Refreshes, Refreshing
  <2> QED
      BY <1>0, <1>1, <2>1, RefreshSame
<1>5. ASSUME i \in Refreshes', NEW j \in Indexers, proc[j].pc = "write"
      PROVE  j \in Refreshes /\ Twins(proc[j], proc'[i])
  <2>1. j # i /\ proc[j].scope # << >> /\ proc[j].scope \in Seq(Repos) /\ proc[j].plan = Plan(proc[j])
      BY <1>0, <1>5 DEF PlanInv, RunPlanned, RunsOK, RunOK
  <2>2. PICK r \in Repos : r \in Range(proc[j].scope)
    <3>1. proc[j].scope[1] \in Repos /\ 1 \in DOMAIN proc[j].scope
        BY <2>1
    <3> QED
        BY <3>1 DEF Range
  <2>3. r \in Range(proc'[i].scope)
      BY <1>5 DEF Refreshes, Refreshing, Repos
  <2>4. Alike(proc'[i], proc[j])
      BY <1>5, <2>1, <2>2, <2>3 DEF Begins
  <2>5. proc'[i].plan = Plan(proc'[i]) /\ Plan(proc'[i]) = Plan(proc[j])
      BY <2>4, PlanSame DEF Begins, Alike
  <2> QED
      BY <1>5, <2>1, <2>4, <2>5 DEF Alike, Twins, Refreshes, Refreshing
<1>6. ASSUME i \in Refreshes' PROVE Upper(graph', proc'[i])
  <2>1. CASE \E j \in Indexers : proc[j].pc = "write"
    <3>1. PICK j \in Refreshes : Twins(proc[j], proc'[i])
        BY <1>5, <1>6, <2>1
    <3>2. Upper(graph, proc[j]) /\ proc[j].k \in Nat /\ proc'[i].k <= proc[j].k
        BY <1>0, <1>1, <1>2, <3>1 DEF RefreshesOK, Refreshes, Refreshing
    <3> QED
        BY <1>0, <3>1, <3>2, UpperLower
  <2>2. CASE \A j \in Indexers : proc[j].pc # "write"
      BY <1>0, <2>2, FirstUpper
  <2> QED
      BY <2>1, <2>2
<1>7. \A j \in Refreshes' : Upper(graph', proc'[j])
    BY <1>3, <1>4, <1>6 DEF RefreshesOK
<1>8. ASSUME Refreshes' # {} PROVE \E j \in Refreshes' : BuiltTo(graph', proc'[j])
  <2>1. CASE Refreshes # {}
      BY <1>2, <1>4, <2>1 DEF RefreshesOK
  <2>2. CASE Refreshes = {}
    <3>1. i \in Refreshes'
        BY <1>3, <1>8, <2>2
    <3>2. \A j \in Indexers : proc[j].pc # "write"
        BY <1>5, <2>2, <3>1
    <3> QED
        BY <1>0, <3>1, <3>2, FirstUpper
  <2> QED
      BY <2>1, <2>2
<1> QED
    BY <1>7, <1>8 DEF RefreshesOK

\* A run that executes a statement, or fails to.
LEMMA WritesRefresh ==
    ASSUME ParentsLocal, RunsOK, GraphOK(graph), Owned(graph), Shape(graph), PlanInv, OrphanInv, tangled' = {},
           RefreshesOK(graph, proc, Refreshes), NEW i \in Indexers, Writes(i)
    PROVE  RefreshesOK(graph, proc, Refreshes)'
<1> DEFINE p == proc[i]
           q == proc'[i]
<1>0. /\ tangled = {} /\ p.pc = "write" /\ RunOK(p)
      /\ Goes(graph, graph', p, q) /\ SamePlan(p, q) /\ Ready(p)
      /\ \A j \in Indexers \ {i} : proc'[j] = proc[j]
  <2>1. tangled \subseteq tangled'
      BY DEF Writes
  <2>2. AtStatement(i) /\ RunOK(p) /\ Goes(graph, graph', p, q)
      BY DEF Writes, WriteOn, RunsOK
  <2>3. Ready(p) /\ p.pc = "write"
      BY <2>2, AtStatementReady
  <2> QED
      BY <2>1, <2>2, <2>3 DEF Writes, WriteOn, Goes
<1>1. CASE Refreshes = {}
  <2>1. Refreshes' = {}
      BY <1>0, <1>1 DEF Refreshes, Refreshing, SamePlan
  <2> QED
      BY <2>1 DEF RefreshesOK
<1>2. CASE Refreshes # {}
  <2>1. PICK f \in Indexers : Refreshing(f)
      BY <1>2 DEF Refreshes
  <2>2. Refreshing(i)
      BY <1>0, <2>1, RefreshTwins
  <2>3. Full(p) /\ p.k \in Nat \ {0} /\ Upper(graph, p)
      BY <2>2, RefreshFull DEF RefreshesOK, Refreshes
  <2>4. ASSUME NEW j \in Refreshes, j # i PROVE Twins(p, proc[j]) /\ proc[j].k \in Nat /\ j \in Indexers /\ p.met # {}
    <3>1. j \in Indexers /\ Refreshing(j) /\ proc[j].pc = "write"
        BY <2>4 DEF Refreshes, Refreshing
    <3> QED
        BY <1>0, <2>2, <2>4, <3>1, RefreshTwins, RefreshFull
  <2>5. CASE q.pc # "write"
    <3>1. p.met = {}
        BY <2>5 DEF Writes
    <3>2. Refreshes' = {}
      <4>1. \A j \in Indexers : j # i => j \notin Refreshes
          BY <2>4, <3>1
      <4> QED
          BY <1>0, <2>5, <4>1 DEF Refreshes, Refreshing
    <3> QED
        BY <3>2 DEF RefreshesOK
  <2>6. CASE q.pc = "write"
    <3>1. Refreshes' = Refreshes /\ i \in Refreshes
      <4>1. Refreshing(i)' /\ i \in Refreshes
          BY <1>0, <2>2, <2>6 DEF Refreshing, SamePlan, Refreshes
      <4>2. \A j \in Indexers : j \in Refreshes <=> j \in Refreshes'
          BY <1>0, <4>1 DEF Refreshes, Refreshing
      <4> QED
          BY <4>1, <4>2 DEF Refreshes
    <3>2. ASSUME NEW j \in Refreshes PROVE Upper(graph', proc'[j])
      <4>1. CASE j = i
          BY <1>0, <2>3, <4>1, UpperGoes
      <4>2. CASE j # i
        <5>1. proc'[j] = proc[j] /\ Twins(p, proc[j]) /\ Upper(graph, proc[j])
            BY <1>0, <2>4, <4>2 DEF RefreshesOK
        <5>2. CASE graph' = graph
            BY <5>1, <5>2
        <5>3. CASE graph' = Apply(graph, p.plan[p.k], p)
          <6>1. Thins(graph, graph') \/ Gains(graph, graph', p)
              BY <1>0, <2>3, <5>3, FullStatement
          <6>2. Upper(graph', proc[j])
              BY <5>1, <6>1, UpperKeeps
          <6> QED
              BY <5>1, <6>2
        <5> QED
            BY <1>0, <5>2, <5>3 DEF Goes
      <4> QED
          BY <4>1, <4>2
    <3>3. PICK w \in Refreshes : BuiltTo(graph, proc[w])
        BY <1>2 DEF RefreshesOK
    <3>4. \E j \in Refreshes : BuiltTo(graph', proc'[j])
      <4>1. CASE w = i
          BY <1>0, <2>3, <3>1, <3>3, <4>1, BuiltToGoes
      <4>2. CASE w # i
        <5>1. proc'[w] = proc[w] /\ Twins(p, proc[w]) /\ proc[w].k \in Nat
            BY <1>0, <2>4, <4>2
        <5>2. BuiltTo(graph', proc[w]) \/ BuiltTo(graph', q)
            BY <1>0, <2>3, <3>3, <5>1, OtherBuilt
        <5> QED
            BY <3>1, <5>1, <5>2
      <4> QED
          BY <4>1, <4>2
    <3> QED
        BY <3>1, <3>2, <3>4 DEF RefreshesOK
  <2> QED
      BY <2>5, <2>6
<1> QED
    BY <1>1, <1>2

\* At first nobody writes.
LEMMA RefreshInit == Init => RefreshInv
<1> SUFFICES ASSUME Init PROVE RefreshInv
    OBVIOUS
<1>1. \A i \in Indexers : proc[i].pc # "write"
    BY DEF Init, NoRun
<1>2. Refreshes = {}
    BY <1>1 DEF Refreshes, Refreshing
<1> QED
    BY <1>1, <1>2, ShapeInit, RefreshIs DEF RefreshesOK, PlanInv, RunPlanned

\* And each step leaves what it finds of what the refreshes have cleared and
\* written.
LEMMA RefreshNext ==
    ASSUME ParentsLocal, TypeInv, OrphanInv, Owned(graph), RefreshInv, [Next]_vars
    PROVE  RefreshInv'
<1>1. RunsOK /\ GraphOK(graph) /\ PlanInv /\ Shape(graph)
    BY DEF TypeInv, RefreshInv
<1>2. PlanInv' /\ Shape(graph)'
    BY <1>1, PlanNext, ShapeNext
<1>3. ASSUME tangled' = {} PROVE RefreshesOK(graph, proc, Refreshes)'
  <2>1. tangled \subseteq tangled'
      BY Moves DEF Reads, Begins, Writes, Returns, Dead, Ends
  <2>2. tangled = {} /\ RefreshesOK(graph, proc, Refreshes)
      BY <1>3, <2>1, RefreshIs
  <2>3. CASE UNCHANGED <<graph, proc, tangled>>
    <3>1. Refreshes' = Refreshes
        BY <2>3 DEF Refreshes, Refreshing
    <3> QED
        BY <2>2, <2>3, <3>1 DEF RefreshesOK, Upper, CleanIn, BuiltTo
  <2> QED
      BY <1>1, <1>2, <1>3, <2>2, <2>3, Moves, ReadsRefresh, BeginsRefresh, WritesRefresh, ReturnsRefresh, DeadRefresh
<1>4. (PlanInv /\ Shape(graph) /\ (tangled = {} => RefreshesOK(graph, proc, Refreshes)))'
    BY <1>2, <1>3
<1>5. RefreshInv' <=> (PlanInv /\ Shape(graph) /\ (tangled = {} => RefreshesOK(graph, proc, Refreshes)))'
  <2>1. (RefreshInv <=> PlanInv /\ Shape(graph) /\ (tangled = {} => RefreshesOK(graph, proc, Refreshes)))'
      BY RefreshIs, PTL
  <2> QED
      BY <2>1
<1> QED
    BY <1>4, <1>5

-----------------------------------------------------------------------------
(***************************************************************************)
(* What a refresh leaves that is through.                                  *)
(***************************************************************************)
\* A full refresh that is through has passed all it planned.
Through(p) == WellPlanned(p) /\ Parsed(p.files) /\ Full(p) /\ p.k = Len(p.plan) + 1

\* Each statement of the plan is among those it has passed.
LEMMA ThroughPassed ==
    ASSUME NEW p, Through(p), NEW x, Holds(p.plan, x)
    PROVE  \E j \in 1..(p.k - 1) : p.plan[j] = x
<1>1. p.plan \in Seq(Statements(Range(p.scope)))
    BY DEF Through, WellPlanned
<1>2. Len(p.plan) \in Nat /\ p.k - 1 = Len(p.plan)
    BY <1>1 DEF Through
<1> QED
    BY <1>2 DEF Holds

\* So every node that does not last is clean,
LEMMA ThroughClean ==
    ASSUME NEW g, Shape(g), NEW p, Through(p), Upper(g, p), NEW n \in DOMAIN g.node, n[1] \notin Lasting
    PROVE  Clean(g, p.files, p.sha, n)
<1>1. n[1] \in Classes /\ n[2] \in Repos
    BY DEF Shape, Shapely, NodeShape
<1>2. PICK op \in ClearOps : n[1] \in ClearedBy(op)
    BY <1>1, ClearedLabels
<1>3. PICK r \in Repos : r = n[2]
    BY <1>1
<1>4. Holds(p.plan, Stmt(op, r))
  <2>1. PlannedOp(p, r, op) /\ op \in OwnOps /\ r \in Range(p.scope)
      BY <1>2, <1>3, OpKinds, FullScope DEF PlannedOp, Full, Through
  <2> QED
      BY <2>1 DEF Through, WellPlanned
<1>5. Passed(p, op, r)
    BY <1>4, ThroughPassed DEF Passed
<1> QED
    BY <1>2, <1>3, <1>5 DEF Upper, CleanIn

\* and everything is written.
LEMMA ThroughWhole ==
    ASSUME NEW g, NEW p, Through(p), BuiltTo(g, p), NEW r \in Repos
    PROVE  Whole(g, p, r)
<1>1. r \in Range(p.scope)
    BY FullScope DEF Through
<1> QED
    BY <1>1, BuiltToRepo, BuiltWhole DEF Through

\* Links and flows included.
LEMMA ThroughLate ==
    ASSUME NEW g, NEW p, Through(p), BuiltTo(g, p), NEW op \in LateOps, NEW r, Holds(p.plan, Stmt(op, r))
    PROVE  LateEdges(p.files, op, r) \subseteq g.edge
<1>1. PICK j \in 1..(p.k - 1) : p.plan[j] = Stmt(op, r)
    BY ThroughPassed
<1>2. Finished(g, p, p.plan[j])
    BY <1>1 DEF BuiltTo
<1> QED
    BY <1>1, <1>2 DEF Finished, Stmt

\* What the run planned of them.
LEMMA ThroughPlanned ==
    ASSUME NEW p, Through(p)
    PROVE  /\ \A r \in Repos, op \in LinkOps : LatePlanned(p, op, r) => Holds(p.plan, Stmt(op, r))
           /\ HttpFlows(p.files) # {} => Holds(p.plan, Stmt("HttpFlows", ""))
           /\ KafkaFlows(p.files) # {} => Holds(p.plan, Stmt("KafkaFlows", ""))
<1>1. ScopeList(p) /\ Range(p.scope) = Repos /\ p.plan = Plan(p)
    BY FullScope DEF Through, Full
<1> QED
    BY <1>1, PlanOrder DEF ScopeList

-----------------------------------------------------------------------------
\* The calls of the files are there,
LEMMA ExactCalls ==
    ASSUME NEW g, NEW p, Through(p), BuiltTo(g, p)
    PROVE  CallEdges(p.files) \subseteq g.edge
<1> DEFINE F == p.files
<1> SUFFICES ASSUME NEW e \in CallEdges(F) PROVE e \in g.edge
    OBVIOUS
<1>1. PICK r \in Repos : e \in ResolvedCalls(F, r) /\ {e[1], e[3]} \subseteq DerivedNodes(F)
    BY DEF CallEdges
<1>2. PICK op \in LinkOps : op = "Calls"
    BY DEF LinkOps
<1>3. Holds(p.plan, Stmt(op, r))
  <2>1. LatePlanned(p, op, r)
      BY <1>1, <1>2 DEF LatePlanned
  <2> QED
      BY <2>1, ThroughPlanned
<1>4. LateEdges(F, op, r) \subseteq g.edge
    BY <1>3, ThroughLate DEF LateOps
<1>5. e \in LateEdges(F, op, r)
    BY <1>1, <1>2 DEF LateEdges
<1> QED
    BY <1>4, <1>5

\* the imports,
LEMMA ExactImports ==
    ASSUME NEW g, NEW p, Through(p), BuiltTo(g, p)
    PROVE  ImportEdges(p.files) \subseteq g.edge
<1> DEFINE F == p.files
<1> SUFFICES ASSUME NEW e \in ImportEdges(F) PROVE e \in g.edge
    OBVIOUS
<1>1. PICK a, b \in DOMAIN F : \E s \in Rec(F, a).imports \cap Rec(F, b).syms :
              e = <<FileNode(a), "IMPORTS", SymbolNode(RepoOf[b], s)>>
    BY ImportIs
<1>2. PICK s \in Rec(F, a).imports \cap Rec(F, b).syms :
              e = <<FileNode(a), "IMPORTS", SymbolNode(RepoOf[b], s)>>
    BY <1>1
<1>3. PICK r \in Repos : r = RepoOf[a]
    BY <1>1, PathRepo DEF Through
<1>4. e[1][2] = r
  <2>1. e[1] = FileNode(a)
      BY <1>2
  <2> QED
      BY <1>3, <2>1, NodeParts
<1>5. PICK op \in LinkOps : op = "Imports"
    BY DEF LinkOps
<1>6. Holds(p.plan, Stmt(op, r))
  <2>1. RepoOf[b] \in Repos /\ a \in InRepo(F, r) /\ b \in InRepo(F, RepoOf[b])
      BY <1>1, <1>3, PathRepo DEF InRepo, Through
  <2>2. s \in UNION {SymbolsOf(F, q) : q \in Repos}
    <3>1. s \in SymbolsOf(F, RepoOf[b])
        BY <1>2, <2>1 DEF SymbolsOf
    <3> QED
        BY <2>1, <3>1
  <2>3. Rec(F, a).imports \cap UNION {SymbolsOf(F, q) : q \in Repos} # {}
      BY <1>2, <2>2
  <2>4. LatePlanned(p, op, r)
      BY <1>5, <2>1, <2>3 DEF LatePlanned
  <2> QED
      BY <2>4, ThroughPlanned
<1>7. LateEdges(F, op, r) \subseteq g.edge
    BY <1>6, ThroughLate DEF LateOps
<1>8. e \in LateEdges(F, op, r)
    BY <1>4, <1>5 DEF LateEdges
<1> QED
    BY <1>7, <1>8

\* and the flows.
LEMMA ExactFlows ==
    ASSUME NEW g, NEW p, Through(p), BuiltTo(g, p)
    PROVE  AllFlowEdges(p.files) \subseteq g.edge
<1> DEFINE F == p.files
<1>1. ASSUME NEW e \in FlowEdges(F, "HttpClientCall", "HTTP_FLOW", "Route") PROVE e \in g.edge
  <2>1. HttpFlows(F) # {}
    <3>1. PICK source, rel, sink : source = "HttpClientCall" /\ rel = "HTTP_FLOW" /\ sink = "Route"
        OBVIOUS
    <3>2. e \in FlowEdges(F, source, rel, sink)
        BY <1>1, <3>1
    <3>3. PICK x \in FeaturesOf(F, {source}), y \in FeaturesOf(F, {sink}) : x[2].key = y[2].key
        BY <3>2, FlowIs
    <3> QED
        BY <3>1, <3>3, MatchersFind
  <2>2. PICK op \in LateOps : op = "HttpFlows"
      BY DEF LateOps
  <2>3. PICK r : r = ""
      OBVIOUS
  <2>4. Holds(p.plan, Stmt(op, r))
      BY <2>1, <2>2, <2>3, ThroughPlanned
  <2>5. LateEdges(F, op, r) \subseteq g.edge
      BY <2>4, ThroughLate
  <2>6. e \in LateEdges(F, op, r)
      BY <1>1, <2>2 DEF LateEdges
  <2> QED
      BY <2>5, <2>6
<1>2. ASSUME NEW e \in FlowEdges(F, "KafkaProducer", "KAFKA_FLOW", "KafkaConsumer") PROVE e \in g.edge
  <2>1. KafkaFlows(F) # {}
    <3>1. PICK source, rel, sink : source = "KafkaProducer" /\ rel = "KAFKA_FLOW" /\ sink = "KafkaConsumer"
        OBVIOUS
    <3>2. e \in FlowEdges(F, source, rel, sink)
        BY <1>2, <3>1
    <3>3. PICK x \in FeaturesOf(F, {source}), y \in FeaturesOf(F, {sink}) : x[2].key = y[2].key
        BY <3>2, FlowIs
    <3> QED
        BY <3>1, <3>3, MatchersFind
  <2>2. PICK op \in LateOps : op = "KafkaFlows"
      BY DEF LateOps
  <2>3. PICK r : r = ""
      OBVIOUS
  <2>4. Holds(p.plan, Stmt(op, r))
      BY <2>1, <2>2, <2>3, ThroughPlanned
  <2>5. LateEdges(F, op, r) \subseteq g.edge
      BY <2>4, ThroughLate
  <2>6. e \in LateEdges(F, op, r)
      BY <1>2, <2>2 DEF LateEdges
  <2> QED
      BY <2>5, <2>6
<1> QED
    BY <1>1, <1>2 DEF AllFlowEdges

\* The owners of the features are joined to them.
LEMMA ExactOwners ==
    ASSUME NEW g, NEW p, Through(p), BuiltTo(g, p)
    PROVE  OwnerEdges(p.files) \subseteq g.edge
<1> DEFINE F == p.files
<1>1. ASSUME NEW r \in Repos, NEW op \in FeatureLabels PROVE OwnersThere(g, F, op, r)
  <2>1. CASE PlannedOp(p, r, op)
    <3>1. r \in Range(p.scope) /\ op \in OwnOps
        BY <1>1, FullScope DEF Through, OwnOps, ContentOps
    <3>2. Holds(p.plan, Stmt(op, r))
        BY <2>1, <3>1 DEF Through, WellPlanned
    <3>3. PICK j \in 1..(p.k - 1) : p.plan[j] = Stmt(op, r)
        BY <3>2, ThroughPassed
    <3>4. Finished(g, p, p.plan[j])
        BY DEF BuiltTo
    <3> QED
        BY <1>1, <3>3, <3>4 DEF Finished, Stmt
  <2>2. CASE ~ PlannedOp(p, r, op)
    <3>1. {x \in FeaturesOf(F, {op}) : RepoOf[x[1]] = r} = {}
        BY <1>1, <2>2 DEF PlannedOp
    <3>2. ASSUME NEW q \in InRepo(F, r) PROVE Feats(q, F[q], op) = {}
        BY <3>1, FeaturesOfOK DEF Through
    <3> QED
        BY <3>2 DEF OwnersThere
  <2> QED
      BY <2>1, <2>2
<1>2. ASSUME NEW e \in OwnerEdges(F) PROVE e \in g.edge
  <2>1. PICK x \in FeaturesOf(F, FeatureLabels) :
            /\ x[2].owner \in SymbolsOf(F, RepoOf[x[1]])
            /\ e = <<SymbolNode(RepoOf[x[1]], x[2].owner), OwnerRel(x[2].kind), FeatureNode(x[1], x[2])>>
      BY DEF OwnerEdges
  <2>2. PICK q \in DOMAIN F : x \in {<<q, ft>> : ft \in {y \in Rec(F, q).feats : y.kind \in FeatureLabels}}
      BY DEF FeaturesOf
  <2>3. PICK ft \in Rec(F, q).feats : ft.kind \in FeatureLabels /\ x = <<q, ft>>
      BY <2>2
  <2>4. x[1] = q /\ x[2] = ft
      BY <2>3
  <2>5. PICK op \in FeatureLabels : op = ft.kind
      BY <2>3
  <2>6. PICK r \in Repos : r = RepoOf[q]
      BY PathRepo DEF Through
  <2>7. e = OwnerEdge(q, ft)
      BY <2>1, <2>4 DEF OwnerEdge
  <2>8. q \in InRepo(F, r) /\ ft \in Feats(q, F[q], op) /\ ft.owner \in SymbolsOf(F, r)
      BY <2>1, <2>4, <2>5, <2>6 DEF InRepo, Feats, Rec
  <2> QED
      BY <1>1, <2>7, <2>8 DEF OwnersThere
<1> QED
    BY <1>2

\* The commit of each repository is there,
LEMMA ExactCommit ==
    ASSUME NEW g, Shape(g), NEW p, Through(p), BuiltTo(g, p), NEW r \in Repos
    PROVE  /\ CommitNode(r, p.sha) \in DOMAIN g.node
           /\ <<RepoNode(r), "HAS_COMMIT", CommitNode(r, p.sha)>> \in g.edge
<1>1. PICK n : n = CommitNode(r, p.sha)
    OBVIOUS
<1>2. n \in DOMAIN g.node
  <2>1. Done(g, p, r, "Commit")
      BY ThroughWhole DEF Whole, ContentOps
  <2> QED
      BY <1>1, <2>1 DEF Done, Exists
<1>3. n[1] = "Commit" /\ n[2] = r
    BY <1>1 DEF CommitNode
<1> QED
    BY <1>1, <1>2, <1>3 DEF Shape, Shapely

\* A CONTAINS edge to be left is one of the spine.
LEMMA ContainsIs ==
    ASSUME NEW F, Parsed(F), NEW sha, NEW e \in TargetEdges(F, sha), e[2] = "CONTAINS"
    PROVE  \E q \in DOMAIN F : e = <<CommitNode(RepoOf[q], sha), "CONTAINS", FileNode(q)>>
<1>1. CASE e \in SpineEdges(F, sha)
    BY <1>1 DEF SpineEdges
<1>2. CASE e \in LocalEdges(F)
  <2>1. e[2] \in LocalRels
      BY <1>2, DerivedMine DEF MineEdge
  <2> QED
      BY <2>1 DEF LocalRels
<1>3. CASE e \in AllFlowEdges(F)
    BY <1>3 DEF AllFlowEdges, FlowEdges
<1>4. CASE e \in CallEdges(F)
  <2>1. PICK r \in Repos : e \in ResolvedCalls(F, r)
      BY <1>4 DEF CallEdges
  <2> QED
      BY <2>1, CallsAre
<1>5. CASE e \in ImportEdges(F)
    BY <1>5, ImportIs
<1>6. CASE e \in OwnerEdges(F)
  <2>1. PICK x \in FeaturesOf(F, FeatureLabels) : e[2] = OwnerRel(x[2].kind)
      BY <1>6 DEF OwnerEdges
  <2>2. PICK q \in DOMAIN F : x \in {<<q, ft>> : ft \in {y \in Rec(F, q).feats : y.kind \in FeatureLabels}}
      BY DEF FeaturesOf
  <2>3. x[2].kind \in FeatureLabels
      BY <2>2
  <2> QED
      BY <2>1, <2>3 DEF OwnerRel, FeatureLabels, HttpLabels, KafkaLabels
<1> QED
    BY <1>1, <1>2, <1>3, <1>4, <1>5, <1>6 DEF TargetEdges

\* and it contains the files.
LEMMA ExactContains ==
    ASSUME NEW g, GraphOK(g), Shape(g), NEW p, Through(p), Upper(g, p), NEW q \in DOMAIN p.files,
           \A r \in Repos : Settled(g, p, r)
    PROVE  <<CommitNode(RepoOf[q], p.sha), "CONTAINS", FileNode(q)>> \in g.edge
<1>1. PICK r \in Repos : r = RepoOf[q]
    BY PathRepo DEF Through
<1>2. PICK n : n = FileNode(q)
    OBVIOUS
<1>3. n \in Reached(g, r)
  <2>1. n \in FileNodesOf(p.files, r)
      BY <1>1, <1>2 DEF FileNodesOf, InRepo
  <2> QED
      BY <2>1 DEF Settled, Wanted
<1>4. n[1] = "File"
    BY <1>2, NodeParts
<1>5. n \in FilesOf(g, r)
  <2>1. Within(FilesOf(g, r), r)
      BY ReachedOK, KindWithin
  <2>2. /\ Kind(Out(g, FilesOf(g, r), "DEFINES"), r, "Symbol")
        /\ Kind(Out(g, FilesOf(g, r), "HAS_CHUNK"), r, "Chunk")
      BY <2>1, OutOK
  <2> QED
      BY <1>3, <1>4, <2>2 DEF Reached, WithContents, Kind
<1>6. PICK e \in g.edge : e[2] = "CONTAINS" /\ e[3] = n
    BY <1>5 DEF FilesOf, Out
<1>7. e \in TargetEdges(p.files, p.sha)
  <2>1. n \in DOMAIN g.node
      BY <1>6 DEF GraphOK, NoDangling, Exists
  <2>2. Clean(g, p.files, p.sha, n)
      BY <1>4, <2>1, ThroughClean DEF Lasting
  <2> QED
      BY <1>6, <2>2 DEF Clean
<1>8. PICK f \in DOMAIN p.files : e = <<CommitNode(RepoOf[f], p.sha), "CONTAINS", FileNode(f)>>
    BY <1>6, <1>7, ContainsIs DEF Through
<1>9. f = q
  <2>1. FileNode(f) = FileNode(q)
      BY <1>2, <1>6, <1>8
  <2> QED
      BY <2>1 DEF FileNode
<1> QED
    BY <1>6, <1>8, <1>9

\* Nothing is there but what is to be, whatever does not last.
LEMMA ExactUpper ==
    ASSUME NEW g, GraphOK(g), Shape(g), NEW p, Through(p), Upper(g, p)
    PROVE  /\ \A n \in DOMAIN g.node : n[1] \notin Lasting => n \in TargetNodes(p.files, p.sha) /\ ValueIs(g, p.files, n)
           /\ g.edge \subseteq TargetEdges(p.files, p.sha)
<1>1. \A n \in DOMAIN g.node : n[1] \notin Lasting => Clean(g, p.files, p.sha, n)
    BY ThroughClean
<1>2. ASSUME NEW e \in g.edge PROVE e \in TargetEdges(p.files, p.sha)
  <2>1. EdgeShape(e) /\ e[1] \in DOMAIN g.node /\ e[3] \in DOMAIN g.node
      BY DEF Shape, Shapely, GraphOK, NoDangling, Exists
  <2> QED
      BY <1>1, <2>1 DEF EdgeShape, Clean
<1> QED
    BY <1>1, <1>2 DEF Clean

\* What is to be there is there.
LEMMA ExactLower ==
    ASSUME NEW g, GraphOK(g), Shape(g), NEW p, Through(p), Upper(g, p), BuiltTo(g, p),
           \A r \in Repos : Settled(g, p, r)
    PROVE  /\ \A n \in TargetNodes(p.files, p.sha) : n \in DOMAIN g.node /\ n[1] \notin Lasting
           /\ TargetEdges(p.files, p.sha) \subseteq g.edge
           /\ \A q \in DOMAIN p.files : g.node[FileNode(q)] = p.files[q]
<1>0. \A r \in Repos : Whole(g, p, r)
    BY ThroughWhole
<1>1. AllThere(g, p.files) /\ LocalEdges(p.files) \subseteq g.edge
    BY <1>0, WholeThere DEF Through
<1>2. ASSUME NEW n \in TargetNodes(p.files, p.sha) PROVE n \in DOMAIN g.node /\ n[1] \notin Lasting
  <2>1. n \in DOMAIN g.node
      BY <1>1, ExactCommit DEF TargetNodes, AllThere
  <2>2. n[1] \in Classes
      BY TargetIs
  <2> QED
      BY <2>1, <2>2, LabelsApart
<1>3. SpineEdges(p.files, p.sha) \subseteq g.edge
    BY ExactCommit, ExactContains DEF SpineEdges
<1>4. TargetEdges(p.files, p.sha) \subseteq g.edge
    BY <1>1, <1>3, ExactCalls, ExactImports, ExactFlows, ExactOwners DEF TargetEdges
<1>5. ASSUME NEW q \in DOMAIN p.files PROVE g.node[FileNode(q)] = p.files[q]
  <2>1. RepoOf[q] \in Repos /\ q \in InRepo(p.files, RepoOf[q])
      BY PathRepo DEF Through, InRepo
  <2>2. Done(g, p, RepoOf[q], "Files")
      BY <1>0, <2>1 DEF Whole, ContentOps
  <2> QED
      BY <2>1, <2>2 DEF Done, HashIs
<1> QED
    BY <1>2, <1>4, <1>5

\* So the graph is that of the files.
LEMMA ExactGraph ==
    ASSUME NEW g, GraphOK(g), Shape(g), NEW p, Through(p), Upper(g, p), BuiltTo(g, p),
           \A r \in Repos : Settled(g, p, r)
    PROVE  ExactlyIndexed(g, p.files, p.sha)
<1> DEFINE F == p.files
           commits == {CommitNode(r, p.sha) : r \in Repos}
           fileEdges == {<<CommitNode(RepoOf[q], p.sha), "CONTAINS", FileNode(q)>> : q \in DOMAIN F}
           repoEdges == {<<RepoNode(r), "HAS_COMMIT", CommitNode(r, p.sha)>> : r \in Repos}
<1>1. DOMAIN g.node \ Labelled(g, {"Repository", "KafkaTopic"}) = commits \cup FileNodes(F) \cup DerivedNodes(F)
  <2>1. commits \cup FileNodes(F) \cup DerivedNodes(F) = TargetNodes(F, p.sha)
      BY DEF TargetNodes
  <2>2. \A n : n \in DOMAIN g.node \ Labelled(g, {"Repository", "KafkaTopic"})
                  <=> n \in DOMAIN g.node /\ n[1] \notin Lasting
      BY DEF Labelled, Lasting
  <2>3. \A n : n \in DOMAIN g.node /\ n[1] \notin Lasting <=> n \in TargetNodes(F, p.sha)
      BY ExactUpper, ExactLower
  <2> QED
      BY <2>1, <2>2, <2>3
<1>2. g.edge = fileEdges \cup repoEdges \cup LocalEdges(F) \cup OwnerEdges(F)
                    \cup AllFlowEdges(F) \cup CallEdges(F) \cup ImportEdges(F)
  <2>1. g.edge \subseteq TargetEdges(F, p.sha)
      BY ExactUpper
  <2>2. TargetEdges(F, p.sha) \subseteq g.edge
      BY ExactLower
  <2> QED
      BY <2>1, <2>2 DEF TargetEdges, SpineEdges
<1>3. \A q \in DOMAIN F : g.node[FileNode(q)] = F[q]
    BY ExactLower
<1>4. ASSUME NEW n \in Labelled(g, {"Symbol"})
      PROVE  F[g.node[n][1]] = g.node[n][2] /\ n[3] \in Rec(F, g.node[n][1]).syms
  <2>1. n \in DOMAIN g.node /\ n[1] = "Symbol" /\ n[1] \notin Lasting
      BY DEF Labelled, Lasting
  <2>2. ValueIs(g, F, n)
      BY <2>1, ExactUpper
  <2> QED
      BY <2>1, <2>2 DEF ValueIs
<1>5. ASSUME NEW n \in Labelled(g, {"Chunk"}) PROVE g.node[n] = F[n[3][1]]
  <2>1. n \in DOMAIN g.node /\ n[1] = "Chunk" /\ n[1] \notin Lasting
      BY DEF Labelled, Lasting
  <2>2. ValueIs(g, F, n)
      BY <2>1, ExactUpper
  <2> QED
      BY <2>1, <2>2 DEF ValueIs
<1> QED
    BY <1>1, <1>2, <1>3, <1>4, <1>5 DEF ExactlyIndexed

-----------------------------------------------------------------------------
\* What the invariants hold of a full refresh that returns last.
LEMMA ReturnsExact ==
    ASSUME TypeInv, OrphanInv, RefreshInv, tangled = {}, NEW i \in Indexers, Refreshing(i), LastWriter(i),
           proc[i].k = Len(proc[i].plan) + 1
    PROVE  ExactlyIndexed(graph, proc[i].files, proc[i].sha)
<1>1. GraphOK(graph) /\ RunsOK /\ RunOK(proc[i]) /\ PlanInv /\ Shape(graph) /\ RefreshesOK(graph, proc, Refreshes)
    BY RefreshIs DEF TypeInv, RunsOK
<1>2. Through(proc[i])
    BY <1>1, RefreshFull DEF Through, RunOK, Refreshing
<1>3. Upper(graph, proc[i]) /\ BuiltTo(graph, proc[i])
  <2>1. Refreshes = {i}
      BY DEF Refreshes, Refreshing, LastWriter
  <2> QED
      BY <1>1, <2>1 DEF RefreshesOK
<1>4. ASSUME NEW r \in Repos PROVE Settled(graph, proc[i], r)
  <2>1. r \in Range(proc[i].scope)
      BY DEF Refreshing, Repos
  <2>2. Writers(r) = {i}
      BY <2>1 DEF Writers, Refreshing, LastWriter
  <2>3. Holder(graph, proc[i], r) \/ Settled(graph, proc[i], r)
      BY <1>4, <2>2 DEF OrphanInv, InHand
  <2> QED
      BY <1>2, <2>1, <2>3, HolderSettles DEF Through
<1> QED
    BY <1>1, <1>2, <1>3, <1>4, ExactGraph

\* The step by which a run returns.
LEMMA FinishesIs ==
    ASSUME TypeInv, [Next]_vars, NEW i \in Indexers, Finishes(i)
    PROVE  proc[i].k = Len(proc[i].plan) + 1 /\ UNCHANGED <<graph, tangled>>
<1>1. proc[i].pc = "write" /\ proc'[i].pc = "done"
    BY DEF Finishes
<1>2. proc'[i] # proc[i]
    BY <1>1
<1>3. PICK j \in Indexers : Reads(j) \/ Begins(j) \/ Writes(j) \/ Returns(j) \/ Dead(j)
    BY <1>2, Moves
<1>4. i = j
    BY <1>1, <1>2, <1>3 DEF Reads, Begins, Writes, WriteOn, Returns, Dead, Ends
<1>5. Returns(i)
    BY <1>1, <1>3, <1>4 DEF Reads, Begins, Writes, WriteOn, Dead
<1> QED
    BY <1>5 DEF Returns, Ends

\* A full refresh of the whole workspace that returns, the last of those that
\* write, leaves exactly the graph of the files it walked.
LEMMA ExactStep ==
    ASSUME TypeInv, OrphanInv, RefreshInv, [Next]_vars, NEW i \in Indexers, Finishes(i),
           proc[i].mode = "full", WholeWorkspace(proc[i]), LastWriter(i), tangled = {}
    PROVE  ExactlyIndexed(graph, proc[i].files, proc[i].sha)
<1>1. Refreshing(i)
    BY DEF Refreshing, Finishes, WholeWorkspace
<1> QED
    BY <1>1, FinishesIs, ReturnsExact

\* When a full refresh of the whole workspace returns (GraphWriter.write_repo for
\* every repository, then the links and flows), no other run is writing and none
\* was ever cut short among others, the graph is that of the files it walked:
\* nothing older is left and nothing is missing, whatever was in the graph before
\* and however often its statements were retried.
THEOREM RefreshExact == ASSUME ParentsLocal PROVE Spec => FullRefreshExact
<1>1. Init => RefreshInv
    BY RefreshInit
<1>2. TypeInv /\ OrphanInv /\ HashInv /\ RefreshInv /\ [Next]_vars => RefreshInv'
    BY RefreshNext DEF HashInv
<1>3. TypeInv /\ OrphanInv /\ RefreshInv /\ [Next]_vars =>
         \A i \in Indexers :
            Finishes(i) /\ proc[i].mode = "full" /\ WholeWorkspace(proc[i]) /\ LastWriter(i) /\ tangled = {}
                => ExactlyIndexed(graph, proc[i].files, proc[i].sha)
    BY ExactStep
<1> QED
    BY <1>1, <1>2, <1>3, Hashed, PTL DEF Spec, FullRefreshExact
=============================================================================
