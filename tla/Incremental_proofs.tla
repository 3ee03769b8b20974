-------------------------- MODULE Incremental_proofs --------------------------
(***************************************************************************)
(* What deltas rest on: that a hash in the graph vouches for its file,     *)
(* that a delta takes nothing away from the files it found unchanged, and  *)
(* that it has applied its diff when it returns.                           *)
(*                                                                         *)
(* A hash vouches for its file only between writes, so what is kept is     *)
(* finer (Vouching): of the runs that write a repository one has           *)
(* everything there that its statements were to leave so far (Built) or    *)
(* all of it (Whole), what each has cleared stays away (Cleared), and a    *)
(* delta leaves the files it neither writes nor deletes as good as they    *)
(* were (Spared).  A deletion spares them only if no two files of a        *)
(* repository define the same (Separate).                                  *)
(***************************************************************************)
EXTENDS Indexer_proofs

-----------------------------------------------------------------------------
(***************************************************************************)
(* What indexing derives from one file, statement by statement.             *)
(***************************************************************************)
\* The statements that write what is derived from a file.
PartOps == {"Modules", "Symbols", "Chunks"} \cup FeatureLabels

\* The edges of one file at one content.
ModuleEdge(q, c) == <<FileNode(q), "DEFINES_MODULE", ModuleNode(RepoOf[q], Parse[q][c].module)>>
DefineEdge(q, s) == <<FileNode(q), "DEFINES", SymbolNode(RepoOf[q], s)>>
EncloseEdge(q, e) == <<SymbolNode(RepoOf[q], e[1]), "ENCLOSES", SymbolNode(RepoOf[q], e[2])>>
OwnerEdge(q, ft) == <<SymbolNode(RepoOf[q], ft.owner), OwnerRel(ft.kind), FeatureNode(q, ft)>>
TopicEdge(q, ft) == <<FeatureNode(q, ft), TopicRel(ft.kind), TopicNode(ft.key)>>
ChunkEdge(q, k) == <<FileNode(q), "HAS_CHUNK", ChunkNode(q, k)>>

\* The features of a kind in a file, and those that a symbol of the file owns.
Feats(q, c, kind) == {x \in Parse[q][c].feats : x.kind = kind}
OwnedFeats(q, c, kind) == {x \in Feats(q, c, kind) : x.owner \in Parse[q][c].syms}
\* The pairs of symbols of a file of which one encloses the other.
Nestings(q, c) == {x \in Parse[q][c].encloses : x[1] \in Parse[q][c].syms}

\* What the statement op writes for file q at content c.
PartNodes(q, c, op) == IF op \in FeatureLabels THEN {FeatureNode(q, ft) : ft \in Feats(q, c, op)} ELSE {}
PartEdges(q, c, op) ==
    CASE op = "Modules" -> {ModuleEdge(q, c)}
      [] op = "Symbols" -> {DefineEdge(q, s) : s \in Parse[q][c].syms}
                               \cup {EncloseEdge(q, e) : e \in Nestings(q, c)}
      [] op = "Chunks" -> {ChunkEdge(q, k) : k \in Parse[q][c].chunks}
      [] op \in FeatureLabels ->
            {OwnerEdge(q, ft) : ft \in OwnedFeats(q, c, op)}
            \cup {TopicEdge(q, ft) : ft \in {x \in Feats(q, c, op) : op \in KafkaLabels}}

\* It is there; all of file q at content c is there.
Has(g, q, c, op) == PartNodes(q, c, op) \subseteq DOMAIN g.node /\ PartEdges(q, c, op) \subseteq g.edge
Vouched(g, q, c) == \A op \in PartOps : Has(g, q, c, op)

\* The graph holds file q; with the hash c.
In(g, q) == FileNode(q) \in DOMAIN g.node
HashIs(g, q, c) == In(g, q) /\ g.node[FileNode(q)] = c

\* The nodes that belong to file q at content c, or to nobody.
Mine(n, q, c) ==
    \/ n = FileNode(q)
    \/ n = ModuleNode(RepoOf[q], Parse[q][c].module)
    \/ n[1] = "Symbol" /\ n[2] = RepoOf[q] /\ n[3] \in Parse[q][c].syms
    \/ n[1] = "Chunk" /\ n[2] = RepoOf[q] /\ n[3][1] = q
    \/ n[1] \in FeatureLabels /\ n[2] = RepoOf[q] /\ n[3][1] = q
    \/ n[1] = "KafkaTopic" /\ n[2] = ""

\* The relationships of what one file defines.
LocalRels == {"DEFINES_MODULE", "DEFINES", "HAS_CHUNK", "ENCLOSES", "HANDLES", "INVOKES",
              "PRODUCES", "CONSUMES", "WRITES_TO", "READS_FROM"}

\* An edge of file q at content c.
MineEdge(e, q, c) ==
    /\ Mine(e[1], q, c) /\ Mine(e[3], q, c)
    /\ e[1][1] # "KafkaTopic" /\ e[1][2] = RepoOf[q] /\ e[2] \in LocalRels

\* What is derived from a file belongs to it.
LEMMA ModuleEdgeMine == \A q, c : MineEdge(ModuleEdge(q, c), q, c)
BY DEF MineEdge, Mine, ModuleEdge, FileNode, ModuleNode, LocalRels

\* A DEFINES edge to one of its symbols,
LEMMA DefineEdgeMine == \A q, c : \A s \in Parse[q][c].syms : MineEdge(DefineEdge(q, s), q, c)
BY DEF MineEdge, Mine, DefineEdge, FileNode, SymbolNode, LocalRels

\* a HAS_CHUNK edge,
LEMMA ChunkEdgeMine == \A q, c, k : MineEdge(ChunkEdge(q, k), q, c)
BY DEF MineEdge, Mine, ChunkEdge, FileNode, ChunkNode, LocalRels

\* an ENCLOSES edge between two of its symbols,
LEMMA EncloseEdgeMine ==
    ASSUME NEW q \in Paths, NEW c \in DOMAIN Parse[q], NEW e \in Nestings(q, c)
    PROVE  MineEdge(EncloseEdge(q, e), q, c)
<1>1. e[1] \in Parse[q][c].syms /\ e[2] \in Parse[q][c].syms
    BY ParseAssumption DEF Nestings
<1> QED
    BY <1>1 DEF MineEdge, Mine, EncloseEdge, SymbolNode, LocalRels

\* a route, client, producer or consumer,
LEMMA FeatureNodeMine ==
    ASSUME NEW q, NEW c, NEW op \in FeatureLabels, NEW ft \in Feats(q, c, op)
    PROVE  /\ Mine(FeatureNode(q, ft), q, c)
           /\ FeatureNode(q, ft)[1] = op /\ FeatureNode(q, ft)[2] = RepoOf[q]
BY DEF Mine, FeatureNode, Feats

\* and the edges of those to their owners and topics.
LEMMA FeatureEdgesMine ==
    ASSUME NEW q, NEW c, NEW op \in FeatureLabels
    PROVE  /\ \A ft \in OwnedFeats(q, c, op) : MineEdge(OwnerEdge(q, ft), q, c)
           /\ \A ft \in Feats(q, c, op) : op \in KafkaLabels => MineEdge(TopicEdge(q, ft), q, c)
<1>1. ASSUME NEW ft \in OwnedFeats(q, c, op) PROVE MineEdge(OwnerEdge(q, ft), q, c)
  <2>1. ft \in Feats(q, c, op) /\ ft.owner \in Parse[q][c].syms /\ ft.kind = op
      BY DEF OwnedFeats, Feats
  <2>2. Mine(FeatureNode(q, ft), q, c)
      BY <2>1, FeatureNodeMine
  <2>3. Mine(SymbolNode(RepoOf[q], ft.owner), q, c)
      BY <2>1 DEF Mine, SymbolNode
  <2>4. OwnerRel(op) \in LocalRels
      BY DEF OwnerRel, LocalRels, FeatureLabels, HttpLabels, KafkaLabels
  <2> QED
      BY <2>1, <2>2, <2>3, <2>4 DEF MineEdge, OwnerEdge, SymbolNode
<1>2. ASSUME NEW ft \in Feats(q, c, op), op \in KafkaLabels PROVE MineEdge(TopicEdge(q, ft), q, c)
  <2>1. ft.kind = op
      BY DEF Feats
  <2>2. Mine(FeatureNode(q, ft), q, c) /\ FeatureNode(q, ft)[1] # "KafkaTopic" /\ FeatureNode(q, ft)[2] = RepoOf[q]
      BY FeatureNodeMine DEF FeatureLabels, HttpLabels, KafkaLabels
  <2>3. Mine(TopicNode(ft.key), q, c)
      BY DEF Mine, TopicNode
  <2>4. TopicRel(op) \in LocalRels
      BY DEF TopicRel, LocalRels
  <2> QED
      BY <2>1, <2>2, <2>3, <2>4 DEF MineEdge, TopicEdge
<1> QED
    BY <1>1, <1>2

\* Whatever a statement writes for a file belongs to it.
LEMMA PartsMine ==
    ASSUME NEW q \in Paths, NEW c \in DOMAIN Parse[q], NEW op \in PartOps
    PROVE  /\ \A n \in PartNodes(q, c, op) :
                  Mine(n, q, c) /\ n[1] # "KafkaTopic" /\ n[2] = RepoOf[q]
           /\ \A e \in PartEdges(q, c, op) : MineEdge(e, q, c)
<1>1. CASE op = "Modules"
  <2>1. PartNodes(q, c, op) = {} /\ PartEdges(q, c, op) = {ModuleEdge(q, c)}
      BY <1>1 DEF PartNodes, PartEdges, FeatureLabels, HttpLabels, KafkaLabels
  <2> QED
      BY <2>1, ModuleEdgeMine
<1>2. CASE op = "Symbols"
  <2>1. /\ PartNodes(q, c, op) = {}
        /\ PartEdges(q, c, op) = {DefineEdge(q, s) : s \in Parse[q][c].syms}
                                     \cup {EncloseEdge(q, e) : e \in Nestings(q, c)}
      BY <1>2 DEF PartNodes, PartEdges, FeatureLabels, HttpLabels, KafkaLabels
  <2>2. \A e \in {DefineEdge(q, s) : s \in Parse[q][c].syms} : MineEdge(e, q, c)
      BY DefineEdgeMine
  <2>3. \A e \in {EncloseEdge(q, e) : e \in Nestings(q, c)} : MineEdge(e, q, c)
      BY EncloseEdgeMine
  <2> QED
      BY <2>1, <2>2, <2>3
<1>3. CASE op = "Chunks"
  <2>1. PartNodes(q, c, op) = {} /\ PartEdges(q, c, op) = {ChunkEdge(q, k) : k \in Parse[q][c].chunks}
      BY <1>3 DEF PartNodes, PartEdges, FeatureLabels, HttpLabels, KafkaLabels
  <2> QED
      BY <2>1, ChunkEdgeMine
<1>4. CASE op \in FeatureLabels
  <2>1. /\ PartNodes(q, c, op) = {FeatureNode(q, ft) : ft \in Feats(q, c, op)}
        /\ PartEdges(q, c, op) = {OwnerEdge(q, ft) : ft \in OwnedFeats(q, c, op)}
              \cup {TopicEdge(q, ft) : ft \in {x \in Feats(q, c, op) : op \in KafkaLabels}}
      BY <1>4 DEF PartNodes, PartEdges, FeatureLabels, HttpLabels, KafkaLabels
  <2>2. ASSUME NEW n \in PartNodes(q, c, op)
        PROVE  Mine(n, q, c) /\ n[1] # "KafkaTopic" /\ n[2] = RepoOf[q]
    <3>1. PICK ft \in Feats(q, c, op) : n = FeatureNode(q, ft)
        BY <2>1
    <3> QED
        BY <1>4, <3>1, FeatureNodeMine DEF FeatureLabels, HttpLabels, KafkaLabels
  <2>3. \A e \in {OwnerEdge(q, ft) : ft \in OwnedFeats(q, c, op)} : MineEdge(e, q, c)
      BY <1>4, FeatureEdgesMine
  <2>4. \A e \in {TopicEdge(q, ft) : ft \in {x \in Feats(q, c, op) : op \in KafkaLabels}} : MineEdge(e, q, c)
      BY <1>4, FeatureEdgesMine
  <2> QED
      BY <2>1, <2>2, <2>3, <2>4
<1> QED
    BY <1>1, <1>2, <1>3, <1>4 DEF PartOps

-----------------------------------------------------------------------------
(***************************************************************************)
(* What of it a statement leaves alone.                                     *)
(***************************************************************************)
\* From g to h nothing changes in repository r but what links it to others.
SameLocal(g, h, r) ==
    /\ \A n : n[2] = r /\ n[1] # "KafkaTopic" =>
          /\ n \in DOMAIN h.node <=> n \in DOMAIN g.node
          /\ n \in DOMAIN g.node => h.node[n] = g.node[n]
    /\ \A e : e[1][2] = r /\ (e[3][2] = r \/ e[3][1] = "KafkaTopic") /\ e[2] \in LocalRels =>
          (e \in h.edge <=> e \in g.edge)

\* Where a node of a file is.
LEMMA MinePlace ==
    ASSUME NEW q, NEW c, NEW n, Mine(n, q, c)
    PROVE  n[2] = RepoOf[q] \/ (n[1] = "KafkaTopic" /\ n[2] = "")
<1>1. FileNode(q)[2] = RepoOf[q] /\ ModuleNode(RepoOf[q], Parse[q][c].module)[2] = RepoOf[q]
    BY DEF FileNode, ModuleNode
<1> QED
    BY <1>1 DEF Mine

\* What a file's hash vouches for changes only with the file's repository.
LEMMA HasSame ==
    ASSUME NEW g, NEW h, NEW q \in Paths, SameLocal(g, h, RepoOf[q]),
           NEW c \in DOMAIN Parse[q], NEW op \in PartOps
    PROVE  Has(g, q, c, op) <=> Has(h, q, c, op)
<1>1. \A n \in PartNodes(q, c, op) : n \in DOMAIN h.node <=> n \in DOMAIN g.node
    BY PartsMine DEF SameLocal
<1>2. ASSUME NEW e \in PartEdges(q, c, op) PROVE e \in h.edge <=> e \in g.edge
  <2>1. MineEdge(e, q, c)
      BY PartsMine
  <2>2. Mine(e[3], q, c) /\ e[1][2] = RepoOf[q] /\ e[2] \in LocalRels
      BY <2>1 DEF MineEdge
  <2>3. e[3][2] = RepoOf[q] \/ e[3][1] = "KafkaTopic"
      BY <2>2, MinePlace
  <2> QED
      BY <2>2, <2>3 DEF SameLocal
<1> QED
    BY <1>1, <1>2 DEF Has

\* Nor does the graph lose or gain a file.
LEMMA HashSame ==
    ASSUME NEW g, NEW h, NEW q, SameLocal(g, h, RepoOf[q])
    PROVE  /\ In(g, q) <=> In(h, q)
           /\ In(g, q) => h.node[FileNode(q)] = g.node[FileNode(q)]
BY DEF SameLocal, In, FileNode

\* A statement of another repository.
LEMMA TouchesLocal ==
    ASSUME NEW g, GraphOK(g), NEW h, GraphOK(h), NEW q \in Repos, Touches(g, h, q), NEW r, r # q
    PROVE  SameLocal(g, h, r)
<1>0. q # ""
    BY GraphAssumption
<1>1. ASSUME NEW n, n[2] = r, n[1] # "KafkaTopic"
      PROVE  /\ n \in DOMAIN h.node <=> n \in DOMAIN g.node
             /\ n \in DOMAIN g.node => h.node[n] = g.node[n]
    BY <1>1 DEF Touches
<1>2. ASSUME NEW e, e[1][2] = r, e[3][2] = r \/ e[3][1] = "KafkaTopic", e[2] \in LocalRels
      PROVE  e \in h.edge <=> e \in g.edge
  <2>1. e[2] \notin FlowRels
      BY <1>2 DEF LocalRels, FlowRels
  <2>2. ASSUME e \in g.edge \cup h.edge, e[3][1] = "KafkaTopic" PROVE e[3][2] = ""
    <3>1. e[3] \in DOMAIN g.node \/ e[3] \in DOMAIN h.node
        BY <2>2 DEF GraphOK, NoDangling, Exists
    <3>2. NodeOK(e[3])
        BY <3>1 DEF GraphOK
    <3> QED
        BY <2>2, <3>2 DEF NodeOK
  <2>3. e \in g.edge \cup h.edge => e[3][2] # q
      BY <1>0, <1>2, <2>2
  <2> QED
      BY <1>2, <2>1, <2>3 DEF Touches
<1> QED
    BY <1>1, <1>2 DEF SameLocal

\* The relationships that link files with others.
LinkRels == {"CALLS", "IMPORTS"} \cup FlowRels

\* A statement that changes nothing but links.
Linked(g, h) ==
    /\ DOMAIN h.node = DOMAIN g.node /\ \A n \in DOMAIN g.node : h.node[n] = g.node[n]
    /\ \A e : e[2] \notin LinkRels => (e \in h.edge <=> e \in g.edge)

\* Links and flows change nothing else.
LEMMA LinkedLocal == \A g, h, r : Linked(g, h) => SameLocal(g, h, r)
<1>1. LinkRels \cap LocalRels = {}
    BY DEF LinkRels, LocalRels, FlowRels
<1> QED
    BY <1>1 DEF Linked, SameLocal

\* Merging links is such a statement.
LEMMA LinksLinked ==
    ASSUME NEW g, NEW E, \A e \in E : e[2] \in LinkRels
    PROVE  Linked(g, Upsert(g, << >>, E))
<1>1. DOMAIN << >> = {}
    OBVIOUS
<1>2. Merged(g, Upsert(g, << >>, E), DOMAIN << >>, E)
    BY UpsertMerges
<1> QED
    BY <1>1, <1>2 DEF Linked, Merged

-----------------------------------------------------------------------------
(***************************************************************************)
(* Whose the nodes of a graph are.                                          *)
(***************************************************************************)
\* A file is tied to symbols and chunks of its own.
EdgeOwned(e) ==
    /\ e[2] = "DEFINES" => e[3][3] \in Syms(e[1][3])
    /\ e[2] = "HAS_CHUNK" => e[3][3][1] = e[1][3]

\* A module's file_path is that of a file which yields it, a file's hash that of
\* a content which was parsed.
NodeOwned(g, n) ==
    /\ n[1] = "Module" => /\ g.node[n] \in Paths /\ RepoOf[g.node[n]] = n[2]
                          /\ n[3] \in Mods(g.node[n])
    /\ n[1] = "File" => g.node[n] \in DOMAIN Parse[n[3]]

Owned(g) == (\A e \in g.edge : EdgeOwned(e)) /\ (\A n \in DOMAIN g.node : NodeOwned(g, n))

\* That is kept by merging what is owned, by removing, and by linking.
LEMMA OwnedMerged ==
    ASSUME NEW g, Owned(g), NEW h, NEW N, NEW E, Merged(g, h, N, E),
           \A e \in E : EdgeOwned(e), \A n \in N : NodeOwned(h, n)
    PROVE  Owned(h)
<1>1. \A e \in h.edge : EdgeOwned(e)
    BY DEF Owned, Merged
<1>2. ASSUME NEW n \in DOMAIN h.node PROVE NodeOwned(h, n)
  <2>1. CASE n \notin N
      BY <1>2, <2>1 DEF Owned, Merged, NodeOwned
  <2> QED
      BY <2>1
<1> QED
    BY <1>1, <1>2 DEF Owned

\* Removing nodes leaves the others whose they are,
LEMMA OwnedRemoved ==
    ASSUME NEW g, Owned(g), NEW h, NEW N, Removed(g, h, N)
    PROVE  Owned(h)
BY DEF Owned, Removed, NodeOwned

\* and so does linking them.
LEMMA OwnedLinked ==
    ASSUME NEW g, Owned(g), NEW h, Linked(g, h)
    PROVE  Owned(h)
<1>1. ASSUME NEW e \in h.edge PROVE EdgeOwned(e)
  <2>1. CASE e[2] \in LinkRels
      BY <2>1 DEF EdgeOwned, LinkRels, FlowRels
  <2>2. CASE e[2] \notin LinkRels
      BY <2>2 DEF Linked, Owned
  <2> QED
      BY <2>1, <2>2
<1>2. \A n \in DOMAIN h.node : NodeOwned(h, n)
    BY DEF Owned, Linked, NodeOwned
<1> QED
    BY <1>1, <1>2 DEF Owned

-----------------------------------------------------------------------------
(***************************************************************************)
(* What the statements add.                                                 *)
(***************************************************************************)
\* h has all of g, and files have the hashes they had or those of F.
Adds(g, h, F) ==
    /\ DOMAIN g.node \subseteq DOMAIN h.node /\ g.edge \subseteq h.edge
    /\ \A q : In(h, q) =>
          \/ In(g, q) /\ h.node[FileNode(q)] = g.node[FileNode(q)]
          \/ q \in DOMAIN F /\ h.node[FileNode(q)] = F[q]

\* What is there stays there.
LEMMA HasAdds == \A g, h, F, q, c, op : Adds(g, h, F) /\ Has(g, q, c, op) => Has(h, q, c, op)
BY DEF Adds, Has

\* A merge adds, if the files it merges get their own hashes.
LEMMA AddsMerged ==
    ASSUME NEW g, NEW h, NEW N, NEW E, Merged(g, h, N, E), NEW F,
           \A n \in N : n[1] = "File" => n[3] \in DOMAIN F /\ h.node[n] = F[n[3]]
    PROVE  Adds(g, h, F)
<1>1. ASSUME NEW q, In(h, q)
      PROVE  \/ In(g, q) /\ h.node[FileNode(q)] = g.node[FileNode(q)]
             \/ q \in DOMAIN F /\ h.node[FileNode(q)] = F[q]
  <2>1. FileNode(q)[1] = "File" /\ FileNode(q)[3] = q
      BY DEF FileNode
  <2>2. CASE FileNode(q) \in N
      BY <2>1, <2>2
  <2>3. CASE FileNode(q) \notin N
      BY <1>1, <2>3 DEF In, Merged
  <2> QED
      BY <2>2, <2>3
<1> QED
    BY <1>1 DEF Adds, Merged

\* What a statement op of repository r does with the graph, and that it leaves
\* what it is for if it finds what it needs.
Contributes(g, h, F, r, op, found) ==
    /\ Adds(g, h, F) /\ Owned(h)
    /\ found => \A q \in InRepo(F, r) : Has(h, q, F[q], op)

\* Upsert sets the properties it is given.
LEMMA UpsertSets == \A g, props, E : \A n \in DOMAIN props : Upsert(g, props, E).node[n] = props[n]
BY DEF Upsert, Over

\* Of a parsed file.
LEMMA ParsedIn ==
    ASSUME NEW F, Parsed(F), NEW r, NEW q \in InRepo(F, r)
    PROVE  /\ q \in DOMAIN F /\ q \in Paths /\ RepoOf[q] = r
           /\ F[q] \in DOMAIN Parse[q] /\ Rec(F, q) = Parse[q][F[q]]
           /\ Rec(F, q).syms \subseteq Syms(q) /\ Rec(F, q).module \in Mods(q)
BY DEF InRepo, Parsed, Rec, Syms, Mods

\* A merge contributes what it merges.
LEMMA MergeContributes ==
    ASSUME NEW g, Owned(g), NEW h, NEW N, NEW E, Merged(g, h, N, E), NEW F, NEW r, NEW op, NEW found,
           \A n \in N : n[1] = "File" => n[3] \in DOMAIN F /\ h.node[n] = F[n[3]],
           \A n \in N : NodeOwned(h, n), \A e \in E : EdgeOwned(e),
           found => \A q \in InRepo(F, r) : PartNodes(q, F[q], op) \subseteq N /\ PartEdges(q, F[q], op) \subseteq E
    PROVE  Contributes(g, h, F, r, op, found)
<1>1. Adds(g, h, F)
    BY AddsMerged
<1>2. Owned(h)
    BY OwnedMerged
<1>3. ASSUME found, NEW q \in InRepo(F, r) PROVE Has(h, q, F[q], op)
    BY <1>3 DEF Has, Merged
<1> QED
    BY <1>1, <1>2, <1>3 DEF Contributes

\* Nodes that are neither files nor modules.
LEMMA OtherOwned == \A g, n : n[1] \notin {"File", "Module"} => NodeOwned(g, n)
BY DEF NodeOwned

\* _UPSERT_MODULES.
LEMMA ModulesContribute ==
    ASSUME NEW g, Owned(g), NEW r, NEW F, Parsed(F)
    PROVE  Contributes(g, UpsertModules(g, r, F), F, r, "Modules", FilesIn(g, F, r) = InRepo(F, r))
<1> DEFINE M == {ModuleNode(r, Rec(F, p).module) : p \in InRepo(F, r)}
           props == [n \in M |-> CHOOSE p \in InRepo(F, r) : Rec(F, p).module = n[3]]
           E == {<<FileNode(p), "DEFINES_MODULE", ModuleNode(r, Rec(F, p).module)>> : p \in FilesIn(g, F, r)}
           h == UpsertModules(g, r, F)
<1>1. h = Upsert(g, props, E) /\ DOMAIN props = M
    BY DEF UpsertModules, FilesIn
<1>2. ASSUME NEW n \in M
      PROVE  n[1] = "Module" /\ n[2] = r /\ props[n] \in InRepo(F, r) /\ Rec(F, props[n]).module = n[3]
  <2>1. PICK p \in InRepo(F, r) : n = ModuleNode(r, Rec(F, p).module)
      OBVIOUS
  <2>2. n[1] = "Module" /\ n[2] = r /\ Rec(F, p).module = n[3]
      BY <2>1 DEF ModuleNode
  <2>3. props[n] = CHOOSE x \in InRepo(F, r) : Rec(F, x).module = n[3]
      OBVIOUS
  <2> HIDE DEF M, props
  <2> QED
      BY <2>2, <2>3
<1>3. ASSUME NEW e \in E PROVE e[2] = "DEFINES_MODULE"
    OBVIOUS
<1>4. ASSUME FilesIn(g, F, r) = InRepo(F, r), NEW q \in InRepo(F, r)
      PROVE  ModuleEdge(q, F[q]) \in E
    BY <1>4, ParsedIn DEF ModuleEdge
<1> HIDE DEF M, props, E, h
<1>5. Merged(g, h, M, E) /\ \A n \in M : h.node[n] = props[n]
    BY <1>1, UpsertMerges, UpsertSets
<1>6. ASSUME NEW n \in M PROVE NodeOwned(h, n)
    BY <1>2, <1>5, ParsedIn DEF NodeOwned
<1>7. \A e \in E : EdgeOwned(e)
    BY <1>3 DEF EdgeOwned
<1>8. ASSUME FilesIn(g, F, r) = InRepo(F, r), NEW q \in InRepo(F, r)
      PROVE  PartNodes(q, F[q], "Modules") \subseteq M /\ PartEdges(q, F[q], "Modules") \subseteq E
  <2>1. PartNodes(q, F[q], "Modules") = {} /\ PartEdges(q, F[q], "Modules") = {ModuleEdge(q, F[q])}
      BY DEF PartNodes, PartEdges, FeatureLabels, HttpLabels, KafkaLabels
  <2> QED
      BY <1>4, <1>8, <2>1
<1>9. Contributes(g, h, F, r, "Modules", FilesIn(g, F, r) = InRepo(F, r))
    BY <1>2, <1>5, <1>6, <1>7, <1>8, MergeContributes
<1> QED
    BY <1>9 DEF h

\* _UPSERT_SYMBOLS.
LEMMA SymbolsContribute ==
    ASSUME NEW g, Owned(g), NEW r, NEW F, Parsed(F)
    PROVE  Contributes(g, UpsertSymbols(g, r, F), F, r, "Symbols", FilesIn(g, F, r) = InRepo(F, r))
<1> DEFINE definer(s) == CHOOSE p \in InRepo(F, r) : s \in Rec(F, p).syms
           N == SymbolNodesOf(F, r)
           props == [n \in N |-> <<definer(n[3]), F[definer(n[3])]>>]
           there == DOMAIN g.node \cup N
           enc(p) == {<<SymbolNode(r, e[1]), "ENCLOSES", SymbolNode(r, e[2])>> :
                          e \in {x \in Rec(F, p).encloses : SymbolNode(r, x[1]) \in there}}
           C == UNION {enc(p) : p \in FilesIn(g, F, r)}
           D == DefinesEdges(F, r, FilesIn(g, F, r))
           h == UpsertSymbols(g, r, F)
<1>1. h = Upsert(g, props, D \cup C)
    BY DEF UpsertSymbols, SymbolNodesOf, DefinesEdges, FilesIn
<1>2. DOMAIN props = N
    OBVIOUS
<1>3. Merged(g, h, N, D \cup C)
  <2> HIDE DEF props, C, D, h, N
  <2> QED
      BY <1>1, <1>2, UpsertMerges
<1>4. \A n \in N : n[1] = "Symbol"
    BY DEF SymbolNodesOf, SymbolNode
<1>5. \A e \in C : e[2] = "ENCLOSES"
    OBVIOUS
<1>6. ASSUME NEW e \in D PROVE EdgeOwned(e)
  <2>1. PICK p \in FilesIn(g, F, r) : e \in {<<FileNode(p), "DEFINES", SymbolNode(r, s)>> : s \in Rec(F, p).syms}
      BY DEF DefinesEdges
  <2>2. PICK s \in Rec(F, p).syms : e = <<FileNode(p), "DEFINES", SymbolNode(r, s)>>
      BY <2>1
  <2>3. s \in Syms(p)
      BY ParsedIn DEF FilesIn
  <2>4. FileNode(p)[3] = p /\ SymbolNode(r, s)[3] = s
      BY DEF FileNode, SymbolNode
  <2> QED
      BY <2>2, <2>3, <2>4 DEF EdgeOwned
<1>7. ASSUME FilesIn(g, F, r) = InRepo(F, r), NEW q \in InRepo(F, r)
      PROVE  PartNodes(q, F[q], "Symbols") \subseteq N /\ PartEdges(q, F[q], "Symbols") \subseteq D \cup C
  <2>1. /\ PartNodes(q, F[q], "Symbols") = {}
        /\ PartEdges(q, F[q], "Symbols") = {DefineEdge(q, s) : s \in Parse[q][F[q]].syms}
                                               \cup {EncloseEdge(q, e) : e \in Nestings(q, F[q])}
      BY DEF PartNodes, PartEdges, FeatureLabels, HttpLabels, KafkaLabels
  <2>2. RepoOf[q] = r /\ Rec(F, q) = Parse[q][F[q]]
      BY ParsedIn
  <2>3. ASSUME NEW s \in Parse[q][F[q]].syms PROVE DefineEdge(q, s) \in D
      BY <1>7, <2>2 DEF DefineEdge, DefinesEdges
  <2>4. ASSUME NEW e \in Nestings(q, F[q]) PROVE EncloseEdge(q, e) \in C
    <3>1. e \in Rec(F, q).encloses /\ e[1] \in Rec(F, q).syms
        BY <2>2 DEF Nestings
    <3>2. e[1] \in SymbolsOf(F, r)
        BY <3>1 DEF SymbolsOf
    <3>3. SymbolNode(r, e[1]) \in there
        BY <3>2 DEF SymbolNodesOf
    <3>4. EncloseEdge(q, e) \in enc(q)
        BY <2>2, <3>1, <3>3 DEF EncloseEdge
    <3> QED
        BY <1>7, <3>4
  <2> HIDE DEF C, D, N
  <2> QED
      BY <2>1, <2>3, <2>4
<1> HIDE DEF N, C, D, h
<1>8. \A n \in N : NodeOwned(h, n)
    BY <1>4, OtherOwned
<1>9. \A e \in D \cup C : EdgeOwned(e)
    BY <1>5, <1>6 DEF EdgeOwned
<1>10. Contributes(g, h, F, r, "Symbols", FilesIn(g, F, r) = InRepo(F, r))
    BY <1>3, <1>4, <1>7, <1>8, <1>9, MergeContributes
<1> QED
    BY <1>10 DEF h

\* _UPSERT_CHUNKS.
LEMMA ChunksContribute ==
    ASSUME NEW g, Owned(g), NEW r, NEW F, Parsed(F)
    PROVE  Contributes(g, UpsertChunks(g, r, F), F, r, "Chunks", FilesIn(g, F, r) = InRepo(F, r))
<1> DEFINE N == ChunkNodesOf(F, r)
           E == ChunkEdges(F, r, FilesIn(g, F, r))
           h == UpsertChunks(g, r, F)
<1>1. Merged(g, h, N, E)
    BY UpsertChunksIs
<1>2. \A n \in N : n[1] = "Chunk"
    BY DEF ChunkNodesOf, ChunkNode
<1>3. ASSUME NEW e \in E PROVE EdgeOwned(e)
  <2>1. PICK x \in ChunksOf(F, r) : e = <<FileNode(x[1]), "HAS_CHUNK", ChunkNode(x[1], x[2])>>
      BY DEF ChunkEdges
  <2>2. FileNode(x[1])[3] = x[1] /\ ChunkNode(x[1], x[2])[3][1] = x[1]
      BY DEF FileNode, ChunkNode
  <2> QED
      BY <2>1, <2>2 DEF EdgeOwned
<1>4. ASSUME FilesIn(g, F, r) = InRepo(F, r), NEW q \in InRepo(F, r)
      PROVE  PartNodes(q, F[q], "Chunks") \subseteq N /\ PartEdges(q, F[q], "Chunks") \subseteq E
  <2>1. PartNodes(q, F[q], "Chunks") = {} /\ PartEdges(q, F[q], "Chunks") = {ChunkEdge(q, k) : k \in Parse[q][F[q]].chunks}
      BY DEF PartNodes, PartEdges, FeatureLabels, HttpLabels, KafkaLabels
  <2>2. ASSUME NEW k \in Parse[q][F[q]].chunks PROVE ChunkEdge(q, k) \in E
    <3>1. <<q, k>> \in {<<q, x>> : x \in Rec(F, q).chunks}
        BY ParsedIn
    <3>2. <<q, k>> \in ChunksOf(F, r)
        BY <3>1 DEF ChunksOf
    <3>3. <<q, k>>[1] = q /\ <<q, k>>[2] = k
        OBVIOUS
    <3> QED
        BY <1>4, <3>2, <3>3 DEF ChunkEdge, ChunkEdges
  <2> QED
      BY <2>1, <2>2
<1> HIDE DEF N, E, h
<1>5. \A n \in N : NodeOwned(h, n)
    BY <1>2, OtherOwned
<1>6. Contributes(g, h, F, r, "Chunks", FilesIn(g, F, r) = InRepo(F, r))
    BY <1>1, <1>2, <1>3, <1>4, <1>5, MergeContributes
<1> QED
    BY <1>6 DEF h

\* The features of a repository's files.
LEMMA FeaturesOfOK ==
    ASSUME NEW F, Parsed(F), NEW r, NEW op
    PROVE  /\ \A x \in {y \in FeaturesOf(F, {op}) : RepoOf[y[1]] = r} :
                  x[1] \in InRepo(F, r) /\ x[2] \in Feats(x[1], F[x[1]], op)
           /\ \A q \in InRepo(F, r) : \A ft \in Feats(q, F[q], op) :
                  <<q, ft>> \in {y \in FeaturesOf(F, {op}) : RepoOf[y[1]] = r}
<1>1. ASSUME NEW x \in FeaturesOf(F, {op}), RepoOf[x[1]] = r
      PROVE  x[1] \in InRepo(F, r) /\ x[2] \in Feats(x[1], F[x[1]], op)
  <2>1. PICK p \in DOMAIN F : x \in {<<p, ft>> : ft \in {y \in Rec(F, p).feats : y.kind \in {op}}}
      BY <1>1 DEF FeaturesOf
  <2>2. PICK ft \in Rec(F, p).feats : ft.kind = op /\ x = <<p, ft>>
      BY <2>1
  <2>3. x[1] = p /\ x[2] = ft
      BY <2>2
  <2> QED
      BY <1>1, <2>2, <2>3 DEF InRepo, Feats, Rec
<1>2. ASSUME NEW q \in InRepo(F, r), NEW ft \in Feats(q, F[q], op)
      PROVE  <<q, ft>> \in FeaturesOf(F, {op}) /\ RepoOf[<<q, ft>>[1]] = r
  <2>1. <<q, ft>> \in {<<q, x>> : x \in {y \in Rec(F, q).feats : y.kind \in {op}}}
      BY DEF Feats, Rec
  <2>2. q \in DOMAIN F /\ RepoOf[q] = r /\ <<q, ft>>[1] = q
      BY DEF InRepo
  <2> QED
      BY <2>1, <2>2 DEF FeaturesOf
<1> QED
    BY <1>1, <1>2

\* One of _UPSERT_ROUTES, _HTTP_CLIENTS, _KAFKA_PRODUCERS, _KAFKA_CONSUMERS.
LEMMA FeaturesContribute ==
    ASSUME NEW g, Owned(g), NEW r, NEW F, Parsed(F), NEW op \in FeatureLabels
    PROVE  Contributes(g, UpsertFeatures(g, op, r, F), F, r, op, SymbolNodesOf(F, r) \subseteq DOMAIN g.node)
<1> DEFINE fs == {x \in FeaturesOf(F, {op}) : RepoOf[x[1]] = r}
           topics == IF op \in KafkaLabels THEN {TopicNode(x[2].key) : x \in fs} ELSE {}
           nodes == {FeatureNode(x[1], x[2]) : x \in fs}
           N == nodes \cup topics
           props == [n \in N |-> n[3]]
           own == {<<SymbolNode(r, x[2].owner), OwnerRel(op), FeatureNode(x[1], x[2])>> :
                      x \in {y \in fs : Exists(g, SymbolNode(r, y[2].owner))}}
           to == {<<FeatureNode(x[1], x[2]), TopicRel(op), TopicNode(x[2].key)>> :
                      x \in {y \in fs : op \in KafkaLabels}}
           h == UpsertFeatures(g, op, r, F)
<1>1. h = Upsert(g, props, own \cup to) /\ DOMAIN props = N
    BY DEF UpsertFeatures
<1>2. Merged(g, h, N, own \cup to)
  <2> HIDE DEF h, props, N, own, to
  <2> QED
      BY <1>1, UpsertMerges
<1>3. \A x \in fs : x[1] \in InRepo(F, r) /\ x[2] \in Feats(x[1], F[x[1]], op)
    BY FeaturesOfOK
<1>4. \A q \in InRepo(F, r) : \A ft \in Feats(q, F[q], op) : <<q, ft>> \in fs
    BY FeaturesOfOK
<1> HIDE DEF fs
<1>5. ASSUME NEW n \in N PROVE n[1] \notin {"File", "Module"}
  <2>1. CASE n \in nodes
    <3>1. PICK x \in fs : n = FeatureNode(x[1], x[2])
        BY <2>1
    <3>2. n[1] = op
        BY <1>3, <3>1 DEF FeatureNode, Feats
    <3> QED
        BY <3>2 DEF FeatureLabels, HttpLabels, KafkaLabels
  <2>2. CASE n \in topics
    <3>1. PICK x \in fs : n = TopicNode(x[2].key)
        BY <2>2
    <3> QED
        BY <3>1 DEF TopicNode
  <2> QED
      BY <2>1, <2>2
<1>6. OwnerRel(op) \notin {"DEFINES", "HAS_CHUNK"} /\ TopicRel(op) \notin {"DEFINES", "HAS_CHUNK"}
    BY DEF OwnerRel, TopicRel, FeatureLabels, HttpLabels, KafkaLabels
<1>7. ASSUME NEW e \in own \cup to PROVE EdgeOwned(e)
  <2>1. e[2] = OwnerRel(op) \/ e[2] = TopicRel(op)
      OBVIOUS
  <2> QED
      BY <1>6, <2>1 DEF EdgeOwned
<1>8. ASSUME SymbolNodesOf(F, r) \subseteq DOMAIN g.node, NEW q \in InRepo(F, r)
      PROVE  PartNodes(q, F[q], op) \subseteq N /\ PartEdges(q, F[q], op) \subseteq own \cup to
  <2>1. /\ PartNodes(q, F[q], op) = {FeatureNode(q, ft) : ft \in Feats(q, F[q], op)}
        /\ PartEdges(q, F[q], op) = {OwnerEdge(q, ft) : ft \in OwnedFeats(q, F[q], op)}
              \cup {TopicEdge(q, ft) : ft \in {x \in Feats(q, F[q], op) : op \in KafkaLabels}}
      BY DEF PartNodes, PartEdges, FeatureLabels, HttpLabels, KafkaLabels
  <2>2. RepoOf[q] = r /\ Rec(F, q) = Parse[q][F[q]]
      BY ParsedIn
  <2>3. ASSUME NEW ft \in Feats(q, F[q], op)
        PROVE  <<q, ft>> \in fs /\ <<q, ft>>[1] = q /\ <<q, ft>>[2] = ft /\ ft.kind = op
      BY <1>4 DEF Feats
  <2>4. ASSUME NEW ft \in Feats(q, F[q], op) PROVE FeatureNode(q, ft) \in nodes
    <3> DEFINE x == <<q, ft>>
    <3>1. x \in fs /\ FeatureNode(q, ft) = FeatureNode(x[1], x[2])
        BY <2>3
    <3> HIDE DEF x
    <3> QED
        BY <3>1
  <2>5. ASSUME NEW ft \in OwnedFeats(q, F[q], op) PROVE OwnerEdge(q, ft) \in own
    <3> DEFINE x == <<q, ft>>
    <3>1. ft \in Feats(q, F[q], op) /\ ft.owner \in Rec(F, q).syms
        BY <2>2 DEF OwnedFeats
    <3>2. ft.owner \in SymbolsOf(F, r)
        BY <3>1 DEF SymbolsOf
    <3>3. SymbolNode(r, ft.owner) \in DOMAIN g.node
        BY <1>8, <3>2 DEF SymbolNodesOf
    <3>4. x \in fs /\ x[1] = q /\ x[2] = ft /\ ft.kind = op
        BY <2>3, <3>1
    <3>5. Exists(g, SymbolNode(r, x[2].owner))
        BY <3>3, <3>4 DEF Exists
    <3>6. OwnerEdge(q, ft) = <<SymbolNode(r, x[2].owner), OwnerRel(op), FeatureNode(x[1], x[2])>>
        BY <2>2, <3>4 DEF OwnerEdge
    <3> HIDE DEF x
    <3> QED
        BY <3>4, <3>5, <3>6
  <2>6. ASSUME NEW ft \in Feats(q, F[q], op), op \in KafkaLabels PROVE TopicEdge(q, ft) \in to
    <3> DEFINE x == <<q, ft>>
    <3>1. x \in fs /\ x[1] = q /\ x[2] = ft /\ ft.kind = op
        BY <2>3
    <3>2. TopicEdge(q, ft) = <<FeatureNode(x[1], x[2]), TopicRel(op), TopicNode(x[2].key)>>
        BY <3>1 DEF TopicEdge
    <3> HIDE DEF x
    <3> QED
        BY <2>6, <3>1, <3>2
  <2> HIDE DEF nodes, topics, own, to
  <2> QED
      BY <2>1, <2>4, <2>5, <2>6
<1> HIDE DEF N, own, to, h
<1>9. \A n \in N : NodeOwned(h, n)
    BY <1>5, OtherOwned
<1>10. Contributes(g, h, F, r, op, SymbolNodesOf(F, r) \subseteq DOMAIN g.node)
    BY <1>2, <1>5, <1>7, <1>8, <1>9, MergeContributes
<1> QED
    BY <1>10 DEF h

\* _UPSERT_FILES.
LEMMA FilesContribute ==
    ASSUME NEW g, Owned(g), NEW r, NEW sha, NEW F, Parsed(F), NEW h, h = UpsertFiles(g, r, sha, F)
    PROVE  /\ Adds(g, h, F) /\ Owned(h)
           /\ Exists(g, CommitNode(r, sha)) => \A q \in InRepo(F, r) : HashIs(h, q, F[q])
<1>1. CASE ~ Exists(g, CommitNode(r, sha))
  <2>1. h = g
      BY <1>1 DEF UpsertFiles
  <2> QED
      BY <1>1, <2>1 DEF Adds
<1>2. CASE Exists(g, CommitNode(r, sha))
  <2> DEFINE N == {FileNode(p) : p \in InRepo(F, r)}
             props == [n \in N |-> F[n[3]]]
             E == {<<CommitNode(r, sha), "CONTAINS", FileNode(p)>> : p \in InRepo(F, r)}
  <2>1. h = Upsert(g, props, E) /\ DOMAIN props = N
      BY <1>2 DEF UpsertFiles
  <2>2. \A n \in N : props[n] = F[n[3]]
      OBVIOUS
  <2>3. ASSUME NEW n \in N
        PROVE  n[1] = "File" /\ n[3] \in InRepo(F, r) /\ n = FileNode(n[3])
    <3>1. PICK p \in InRepo(F, r) : n = FileNode(p)
        OBVIOUS
    <3>2. FileNode(p)[1] = "File" /\ FileNode(p)[3] = p
        BY DEF FileNode
    <3> QED
        BY <3>1, <3>2
  <2>4. \A e \in E : EdgeOwned(e)
      BY DEF EdgeOwned
  <2>5. \A q \in InRepo(F, r) : FileNode(q) \in N /\ FileNode(q)[3] = q
      BY DEF FileNode
  <2> HIDE DEF N, props, E
  <2>6. Merged(g, h, N, E) /\ \A n \in N : h.node[n] = props[n]
      BY <2>1, UpsertMerges, UpsertSets
  <2>7. Adds(g, h, F)
      BY <2>2, <2>3, <2>6, AddsMerged, ParsedIn
  <2>8. \A n \in N : NodeOwned(h, n)
      BY <2>2, <2>3, <2>6, ParsedIn DEF NodeOwned
  <2>9. Owned(h)
      BY <2>4, <2>6, <2>8, OwnedMerged
  <2>10. \A q \in InRepo(F, r) : HashIs(h, q, F[q])
      BY <2>2, <2>5, <2>6 DEF HashIs, In, Merged
  <2> QED
      BY <2>7, <2>9, <2>10
<1> QED
    BY <1>1, <1>2

\* _UPSERT_REPO and _UPSERT_COMMIT.
LEMMA RepoContributes ==
    ASSUME NEW g, Owned(g), NEW r, NEW sha, NEW F
    PROVE  /\ Adds(g, UpsertRepo(g, r, sha), F) /\ Owned(UpsertRepo(g, r, sha))
           /\ Exists(UpsertRepo(g, r, sha), RepoNode(r))
<1> DEFINE h == UpsertRepo(g, r, sha)
<1>1. Merged(g, h, {RepoNode(r)}, {})
    BY UpsertRepoIs
<1>2. RepoNode(r)[1] = "Repository"
    BY DEF RepoNode
<1> HIDE DEF h
<1>3. NodeOwned(h, RepoNode(r))
    BY <1>2, OtherOwned
<1>4. Adds(g, h, F)
    BY <1>1, <1>2, AddsMerged
<1>5. Owned(h)
    BY <1>1, <1>3, OwnedMerged
<1>6. Exists(h, RepoNode(r))
    BY <1>1 DEF Merged, Exists
<1> QED
    BY <1>4, <1>5, <1>6 DEF h

\* _UPSERT_COMMIT.
LEMMA CommitContributes ==
    ASSUME NEW g, Owned(g), NEW r, NEW sha, NEW F
    PROVE  /\ Adds(g, UpsertCommit(g, r, sha), F) /\ Owned(UpsertCommit(g, r, sha))
           /\ Exists(g, RepoNode(r)) => Exists(UpsertCommit(g, r, sha), CommitNode(r, sha))
<1> DEFINE h == UpsertCommit(g, r, sha)
<1>1. CASE ~ Exists(g, RepoNode(r))
  <2>1. h = g
      BY <1>1, UpsertCommitIs
  <2> QED
      BY <1>1, <2>1 DEF Adds
<1>2. CASE Exists(g, RepoNode(r))
  <2>1. Merged(g, h, {CommitNode(r, sha)}, {CommitEdge(r, sha)})
      BY <1>2, UpsertCommitIs
  <2>2. CommitNode(r, sha)[1] = "Commit" /\ CommitEdge(r, sha)[2] = "HAS_COMMIT"
      BY DEF CommitNode, CommitEdge
  <2> HIDE DEF h
  <2>3. NodeOwned(h, CommitNode(r, sha)) /\ EdgeOwned(CommitEdge(r, sha))
      BY <2>2, OtherOwned DEF EdgeOwned
  <2>4. Adds(g, h, F)
      BY <2>1, <2>2, AddsMerged
  <2>5. Owned(h)
      BY <2>1, <2>3, OwnedMerged
  <2>6. Exists(h, CommitNode(r, sha))
      BY <2>1 DEF Merged, Exists
  <2> QED
      BY <2>4, <2>5, <2>6 DEF h
<1> QED
    BY <1>1, <1>2

-----------------------------------------------------------------------------
(***************************************************************************)
(* The statements of a run.                                                 *)
(***************************************************************************)
\* What the statement op of run p for repository r is for.
Done(g, p, r, op) ==
    /\ op = "Repo" => Exists(g, RepoNode(r))
    /\ op = "Commit" => Exists(g, CommitNode(r, p.sha))
    /\ op = "Files" => \A q \in InRepo(p.files, r) : HashIs(g, q, p.files[q])
    /\ op \in PartOps => \A q \in InRepo(p.files, r) : Has(g, q, p.files[q], op)

\* What it has to find in the graph.
Needs(g, p, r, op) ==
    /\ op = "Commit" => Exists(g, RepoNode(r))
    /\ op = "Files" => Exists(g, CommitNode(r, p.sha))
    /\ op \in {"Modules", "Symbols", "Chunks"} => FilesIn(g, p.files, r) = InRepo(p.files, r)
    /\ op \in FeatureLabels => SymbolNodesOf(p.files, r) \subseteq DOMAIN g.node

\* A statement that writes only adds, and does what it is for.
LEMMA ApplyContent ==
    ASSUME NEW g, Owned(g), NEW p, Parsed(p.files), NEW r, NEW op \in ContentOps,
           NEW h, h = Apply(g, Stmt(op, r), p)
    PROVE  Adds(g, h, p.files) /\ Owned(h) /\ (Needs(g, p, r, op) => Done(h, p, r, op))
<1>0. Stmt(op, r).op = op /\ Stmt(op, r).repo = r
    BY DEF Stmt
<1>1. CASE op = "Repo"
  <2>1. h = UpsertRepo(g, r, p.sha)
      BY <1>0, <1>1 DEF Apply, FeatureLabels, HttpLabels, KafkaLabels
  <2> QED
      BY <1>1, <2>1, RepoContributes DEF Done, PartOps, FeatureLabels, HttpLabels, KafkaLabels
<1>2. CASE op = "Commit"
  <2>1. h = UpsertCommit(g, r, p.sha)
      BY <1>0, <1>2 DEF Apply, FeatureLabels, HttpLabels, KafkaLabels
  <2> QED
      BY <1>2, <2>1, CommitContributes DEF Done, Needs, PartOps, FeatureLabels, HttpLabels, KafkaLabels
<1>3. CASE op = "Files"
  <2>1. h = UpsertFiles(g, r, p.sha, p.files)
      BY <1>0, <1>3 DEF Apply, FeatureLabels, HttpLabels, KafkaLabels
  <2>2. /\ Adds(g, h, p.files) /\ Owned(h)
        /\ Exists(g, CommitNode(r, p.sha)) => \A q \in InRepo(p.files, r) : HashIs(h, q, p.files[q])
      BY <2>1, FilesContribute
  <2> QED
      BY <1>3, <2>2 DEF Done, Needs, PartOps, FeatureLabels, HttpLabels, KafkaLabels
<1>4. CASE op = "Modules"
  <2>1. h = UpsertModules(g, r, p.files)
      BY <1>0, <1>4 DEF Apply, FeatureLabels, HttpLabels, KafkaLabels
  <2>2. Contributes(g, h, p.files, r, op, FilesIn(g, p.files, r) = InRepo(p.files, r))
      BY <1>4, <2>1, ModulesContribute
  <2> QED
      BY <1>4, <2>2 DEF Done, Needs, Contributes
<1>5. CASE op = "Symbols"
  <2>1. h = UpsertSymbols(g, r, p.files)
      BY <1>0, <1>5 DEF Apply, FeatureLabels, HttpLabels, KafkaLabels
  <2>2. Contributes(g, h, p.files, r, op, FilesIn(g, p.files, r) = InRepo(p.files, r))
      BY <1>5, <2>1, SymbolsContribute
  <2> QED
      BY <1>5, <2>2 DEF Done, Needs, Contributes
<1>6. CASE op = "Chunks"
  <2>1. h = UpsertChunks(g, r, p.files)
      BY <1>0, <1>6 DEF Apply, FeatureLabels, HttpLabels, KafkaLabels
  <2>2. Contributes(g, h, p.files, r, op, FilesIn(g, p.files, r) = InRepo(p.files, r))
      BY <1>6, <2>1, ChunksContribute
  <2> QED
      BY <1>6, <2>2 DEF Done, Needs, Contributes
<1>7. CASE op \in FeatureLabels
  <2>1. h = UpsertFeatures(g, op, r, p.files)
      BY <1>0, <1>7 DEF Apply, FeatureLabels, HttpLabels, KafkaLabels
  <2>2. Contributes(g, h, p.files, r, op, SymbolNodesOf(p.files, r) \subseteq DOMAIN g.node)
      BY <1>7, <2>1, FeaturesContribute
  <2>3. op \notin {"Repo", "Commit", "Files"}
      BY <1>7 DEF FeatureLabels, HttpLabels, KafkaLabels
  <2> QED
      BY <1>7, <2>2, <2>3 DEF Done, Needs, Contributes
<1> QED
    BY <1>1, <1>2, <1>3, <1>4, <1>5, <1>6, <1>7 DEF ContentOps

\* The calls that are resolved are CALLS.
LEMMA CallsAre == \A F, r : \A e \in ResolvedCalls(F, r) : e[2] = "CALLS"
<1> SUFFICES ASSUME NEW F, NEW r, NEW e \in ResolvedCalls(F, r) PROVE e[2] = "CALLS"
    OBVIOUS
<1> DEFINE index == UNION {{SymbolNode(s, x) : x \in SymbolsOf(F, s)} : s \in Repos}
           found(x) == {n \in index : n[3] = x}
           target(p, x) ==
               CASE SymbolNode(r, x) \in index -> {SymbolNode(r, x)}
                 [] SymbolNode(r, x) \notin index /\ x \in Rec(F, p).imports ->
                       {SymbolNode(r, n[3]) : n \in found(x)}
                 [] OTHER -> IF Cardinality(found(x)) = 1 THEN found(x) ELSE {}
           of(p) == UNION {{<<SymbolNode(r, c[1]), "CALLS", n>> : n \in target(p, c[2])} :
                               c \in Rec(F, p).calls}
<1>1. ResolvedCalls(F, r) = UNION {of(p) : p \in InRepo(F, r)}
    BY DEF ResolvedCalls
<1> HIDE DEF target
<1>2. PICK p \in InRepo(F, r) : e \in of(p)
    BY <1>1
<1>3. PICK c \in Rec(F, p).calls : e \in {<<SymbolNode(r, c[1]), "CALLS", n>> : n \in target(p, c[2])}
    BY <1>2
<1> QED
    BY <1>3

\* Links and flows are links.
LEMMA ApplyLinks ==
    ASSUME NEW g, NEW p, NEW r, NEW op \in LinkOps \cup FlowOps
    PROVE  Linked(g, Apply(g, Stmt(op, r), p))
<1>0. Stmt(op, r).op = op /\ Stmt(op, r).repo = r
    BY DEF Stmt
<1> DEFINE h == Apply(g, Stmt(op, r), p)
<1>1. CASE op = "Calls"
  <2> DEFINE E == {e \in ResolvedCalls(p.files, r) : Exists(g, e[1]) /\ Exists(g, e[3])}
  <2>1. h = Upsert(g, << >>, E)
      BY <1>0, <1>1 DEF Apply, FeatureLabels, HttpLabels, KafkaLabels, UpsertCalls
  <2>2. ASSUME NEW e \in ResolvedCalls(p.files, r) PROVE e[2] = "CALLS"
      BY CallsAre
  <2> HIDE DEF h
  <2>3. \A e \in E : e[2] \in LinkRels
      BY <2>2 DEF LinkRels
  <2> HIDE DEF E
  <2> QED
      BY <2>1, <2>3, LinksLinked DEF h
<1>2. CASE op = "Imports"
  <2> DEFINE F == p.files
             known == UNION {SymbolsOf(F, q) : q \in Repos}
             E == UNION {{<<FileNode(x), "IMPORTS", n>> :
                      n \in {s \in Labelled(g, {"Symbol"}) : s[3] \in Rec(F, x).imports \cap known}} :
                  x \in {q \in InRepo(F, r) : Exists(g, FileNode(q))}}
  <2>1. h = Upsert(g, << >>, E)
      BY <1>0, <1>2 DEF Apply, FeatureLabels, HttpLabels, KafkaLabels, UpsertImports
  <2>2. \A e \in E : e[2] \in LinkRels
      BY DEF LinkRels
  <2> HIDE DEF E, h
  <2> QED
      BY <2>1, <2>2, LinksLinked DEF h
<1>3. CASE op = "HttpFlows"
  <2> DEFINE E == {<<e[1][1], "HTTP_FLOW", e[2]>> :
                      e \in {x \in HttpFlows(p.files) \X Labelled(g, {"Route"}) :
                                /\ Exists(g, x[1][1])
                                /\ x[2][2] = x[1][2]
                                /\ x[2][3][2] = x[1][3]}}
  <2>1. h = Upsert(g, << >>, E)
      BY <1>0, <1>3 DEF Apply, FeatureLabels, HttpLabels, KafkaLabels, UpsertHttpFlows
  <2>2. \A e \in E : e[2] \in LinkRels
      BY DEF LinkRels, FlowRels
  <2> HIDE DEF E, h
  <2> QED
      BY <2>1, <2>2, LinksLinked DEF h
<1>4. CASE op = "KafkaFlows"
  <2> DEFINE match(label, repo, topic) ==
               {n \in Labelled(g, {label}) : n[2] = repo /\ n[3][2] = topic}
             E == UNION {{<<a, "KAFKA_FLOW", b>> :
                      a \in match("KafkaProducer", e[1], e[3]),
                      b \in match("KafkaConsumer", e[2], e[3])} : e \in KafkaFlows(p.files)}
  <2>1. h = Upsert(g, << >>, E)
      BY <1>0, <1>4 DEF Apply, FeatureLabels, HttpLabels, KafkaLabels, UpsertKafkaFlows
  <2>2. \A e \in E : e[2] \in LinkRels
      BY DEF LinkRels, FlowRels
  <2> HIDE DEF E, h
  <2> QED
      BY <2>1, <2>2, LinksLinked DEF h
<1>5. ASSUME NEW rel \in FlowRels PROVE Linked(g, ClearFlows(g, rel))
  <2>1. ClearFlows(g, rel).node = g.node /\ ClearFlows(g, rel).edge = {e \in g.edge : e[2] # rel}
      BY DEF ClearFlows
  <2> QED
      BY <2>1 DEF Linked, LinkRels
<1>6. CASE op = "ClearHttpFlows"
  <2>1. h = ClearFlows(g, "HTTP_FLOW")
      BY <1>0, <1>6 DEF Apply, FeatureLabels, HttpLabels, KafkaLabels
  <2> QED
      BY <1>5, <2>1 DEF FlowRels
<1>7. CASE op = "ClearKafkaFlows"
  <2>1. h = ClearFlows(g, "KAFKA_FLOW")
      BY <1>0, <1>7 DEF Apply, FeatureLabels, HttpLabels, KafkaLabels
  <2> QED
      BY <1>5, <2>1 DEF FlowRels
<1> QED
    BY <1>1, <1>2, <1>3, <1>4, <1>6, <1>7 DEF LinkOps, FlowOps

-----------------------------------------------------------------------------
(***************************************************************************)
(* The statements that clear and delete.                                    *)
(***************************************************************************)
\* Clearing and deleting remove nodes of the repository.
LEMMA ApplyRemoves ==
    ASSUME NEW g, GraphOK(g), NEW p, NEW r, NEW op \in Destructive,
           NEW h, h = Apply(g, Stmt(op, r), p)
    PROVE  \E N : Removed(g, h, N)
<1>0. Stmt(op, r).op = op /\ Stmt(op, r).repo = r
    BY DEF Stmt
<1>1. CASE op = "ClearRepo"
  <2>1. h = ClearRepo(g, r)
      BY <1>0, <1>1 DEF Apply, FeatureLabels, HttpLabels, KafkaLabels
  <2> QED
      BY <2>1, ClearRepoIs
<1>2. CASE op = "ClearModules"
  <2>1. h = ClearRepoModules(g, r)
      BY <1>0, <1>2 DEF Apply, FeatureLabels, HttpLabels, KafkaLabels
  <2> QED
      BY <2>1, DetachRemoves DEF ClearRepoModules
<1>3. CASE op = "ClearFeatures"
  <2>1. h = ClearRepoRoutesAndClients(g, r)
      BY <1>0, <1>3 DEF Apply, FeatureLabels, HttpLabels, KafkaLabels
  <2> QED
      BY <2>1, DetachRemoves DEF ClearRepoRoutesAndClients
<1>4. CASE op = "DeleteFeatures"
  <2>1. h = DeleteFeaturesForFiles(g, r, DeletedIn(p, r))
      BY <1>0, <1>4 DEF Apply, FeatureLabels, HttpLabels, KafkaLabels
  <2> QED
      BY <2>1, DetachRemoves DEF DeleteFeaturesForFiles
<1>5. CASE op = "DeleteModules"
  <2>1. h = DeleteModulesForFiles(g, r, DeletedIn(p, r))
      BY <1>0, <1>5 DEF Apply, FeatureLabels, HttpLabels, KafkaLabels
  <2> QED
      BY <2>1, DetachRemoves DEF DeleteModulesForFiles
<1>6. CASE op = "DeleteFiles"
  <2>1. h = DeleteFiles(g, DeletedIn(p, r))
      BY <1>0, <1>6 DEF Apply, FeatureLabels, HttpLabels, KafkaLabels
  <2> QED
      BY <2>1, DeleteFilesIs
<1> QED
    BY <1>1, <1>2, <1>3, <1>4, <1>5, <1>6 DEF Destructive, ClearOps, DeleteOps

\* What of the files not deleted a deletion does not remove.
LEMMA DeleteSpares ==
    ASSUME Separate, NEW g, GraphOK(g), Owned(g), NEW p, p.deleted \subseteq Paths, NEW r, NEW op \in DeleteOps,
           NEW h, h = Apply(g, Stmt(op, r), p)
    PROVE  \E N : /\ Removed(g, h, N)
                  /\ \A n \in N, q \in Paths \ p.deleted : \A c \in DOMAIN Parse[q] : ~ Mine(n, q, c)
<1>0. Stmt(op, r).op = op /\ Stmt(op, r).repo = r
    BY DEF Stmt
<1> DEFINE P == DeletedIn(p, r)
<1>1. P \subseteq p.deleted /\ P \subseteq Paths /\ \A q \in P : RepoOf[q] = r
    BY DEF DeletedIn
<1> HIDE DEF P
<1>2. CASE op = "DeleteFeatures"
  <2> DEFINE N == {n \in Labelled(g, FeatureLabels) : n[2] = r /\ n[3][1] \in P}
  <2>1. h = DetachDelete(g, N)
      BY <1>0, <1>2 DEF Apply, FeatureLabels, HttpLabels, KafkaLabels, DeleteFeaturesForFiles, P
  <2>2. ASSUME NEW n \in N, NEW q \in Paths \ p.deleted, NEW c \in DOMAIN Parse[q], Mine(n, q, c)
        PROVE  FALSE
    <3>1. n[1] \in FeatureLabels /\ n[3][1] \in P
        BY DEF Labelled
    <3>2. FileNode(q)[1] = "File" /\ ModuleNode(RepoOf[q], Parse[q][c].module)[1] = "Module"
        BY DEF FileNode, ModuleNode
    <3>3. n[1] \notin {"File", "Module", "Symbol", "Chunk", "KafkaTopic"}
        BY <3>1 DEF FeatureLabels, HttpLabels, KafkaLabels
    <3>4. n # FileNode(q) /\ n # ModuleNode(RepoOf[q], Parse[q][c].module)
        BY <3>2, <3>3
    <3>5. n[3][1] = q
        BY <2>2, <3>3, <3>4 DEF Mine
    <3> QED
        BY <1>1, <3>1, <3>5
  <2> HIDE DEF N
  <2> QED
      BY <2>1, <2>2, DetachRemoves
<1>3. CASE op = "DeleteModules"
  <2> DEFINE N == {n \in Labelled(g, {"Module"}) : n[2] = r /\ g.node[n] \in P}
  <2>1. h = DetachDelete(g, N)
      BY <1>0, <1>3 DEF Apply, FeatureLabels, HttpLabels, KafkaLabels, DeleteModulesForFiles, P
  <2>2. ASSUME NEW n \in N, NEW q \in Paths \ p.deleted, NEW c \in DOMAIN Parse[q], Mine(n, q, c)
        PROVE  FALSE
    <3>1. n \in DOMAIN g.node /\ n[1] = "Module" /\ g.node[n] \in P
        BY DEF Labelled
    <3>2. n = ModuleNode(RepoOf[q], Parse[q][c].module)
        BY <2>2, <3>1 DEF Mine, FileNode, FeatureLabels, HttpLabels, KafkaLabels
    <3>3. n[2] = RepoOf[q] /\ n[3] = Parse[q][c].module
        BY <3>2 DEF ModuleNode
    <3>4. n[3] \in Mods(q)
        BY <3>3 DEF Mods
    <3>5. g.node[n] \in Paths /\ RepoOf[g.node[n]] = n[2] /\ n[3] \in Mods(g.node[n])
        BY <3>1 DEF Owned, NodeOwned
    <3>6. g.node[n] # q
        BY <1>1, <3>1
    <3> QED
        BY <3>3, <3>4, <3>5, <3>6 DEF Separate
  <2> HIDE DEF N
  <2> QED
      BY <2>1, <2>2, DetachRemoves
<1>4. CASE op = "DeleteFiles"
  <2> DEFINE f == FilesAt(g, P)
             N == WithContents(g, f)
  <2>1. Removed(g, h, N)
    <3>1. h = DeleteFiles(g, P)
        BY <1>0, <1>4 DEF Apply, FeatureLabels, HttpLabels, KafkaLabels, P
    <3> QED
        BY <3>1, DeleteFilesIs
  <2>2. ASSUME NEW n \in f PROVE n[1] = "File" /\ n[3] \in P /\ n[2] = RepoOf[n[3]]
    <3>1. n \in DOMAIN g.node /\ n[1] = "File" /\ n[3] \in P
        BY DEF FilesAt, Labelled
    <3>2. n = FileNode(n[3])
        BY <3>1 DEF GraphOK, NodeOK
    <3>3. FileNode(n[3])[2] = RepoOf[n[3]]
        BY DEF FileNode
    <3> QED
        BY <3>1, <3>2, <3>3
  <2> HIDE DEF f
  <2>3. ASSUME NEW n \in N, NEW q \in Paths \ p.deleted, NEW c \in DOMAIN Parse[q], Mine(n, q, c)
        PROVE  FALSE
    <3>1. CASE n \in f
      <4>1. n = FileNode(q)
          BY <2>2, <2>3, <3>1 DEF Mine, ModuleNode, FeatureLabels, HttpLabels, KafkaLabels
      <4>2. n[3] = q
          BY <4>1 DEF FileNode
      <4> QED
          BY <1>1, <2>2, <3>1, <4>2
    <3>2. CASE n \in Out(g, f, "DEFINES")
      <4>1. PICK e \in g.edge : e[1] \in f /\ e[2] = "DEFINES" /\ n = e[3]
          BY <3>2 DEF Out
      <4>2. n[1] = "Symbol" /\ n[3] \in Syms(e[1][3]) /\ n[2] = e[1][2]
          BY <4>1 DEF GraphOK, EdgeOK, Owned, EdgeOwned, Struct
      <4>3. n[3] \in Parse[q][c].syms /\ n[2] = RepoOf[q]
          BY <2>3, <4>2 DEF Mine, FileNode, ModuleNode, FeatureLabels, HttpLabels, KafkaLabels
      <4>4. n[3] \in Syms(q)
          BY <4>3 DEF Syms
      <4>5. e[1][3] \in P /\ e[1][2] = RepoOf[e[1][3]]
          BY <2>2, <4>1
      <4>6. e[1][3] \in Paths /\ e[1][3] # q /\ RepoOf[e[1][3]] = RepoOf[q]
          BY <1>1, <4>2, <4>3, <4>5
      <4> QED
          BY <4>2, <4>4, <4>6 DEF Separate
    <3>3. CASE n \in Out(g, f, "HAS_CHUNK")
      <4>1. PICK e \in g.edge : e[1] \in f /\ e[2] = "HAS_CHUNK" /\ n = e[3]
          BY <3>3 DEF Out
      <4>2. n[1] = "Chunk" /\ n[3][1] = e[1][3]
          BY <4>1 DEF GraphOK, EdgeOK, Owned, EdgeOwned
      <4>3. n[3][1] = q
          BY <2>3, <4>2 DEF Mine, FileNode, ModuleNode, FeatureLabels, HttpLabels, KafkaLabels
      <4> QED
          BY <1>1, <2>2, <4>1, <4>2, <4>3
    <3> QED
        BY <3>1, <3>2, <3>3 DEF WithContents
  <2> HIDE DEF N
  <2> QED
      BY <2>1, <2>3
<1> QED
    BY <1>2, <1>3, <1>4 DEF DeleteOps

\* What is spared of a file is there as before.
LEMMA HasSpared ==
    ASSUME NEW g, NEW h, NEW N, Removed(g, h, N), NEW q \in Paths, NEW c \in DOMAIN Parse[q],
           \A n \in N : ~ Mine(n, q, c), NEW op \in PartOps, Has(g, q, c, op)
    PROVE  Has(h, q, c, op)
<1>1. \A n \in PartNodes(q, c, op) : n \in DOMAIN h.node
    BY PartsMine DEF Removed, Has
<1>2. \A e \in PartEdges(q, c, op) : e \in h.edge
    BY PartsMine DEF MineEdge, Removed, Has
<1> QED
    BY <1>1, <1>2 DEF Has

\* Removing adds no file and changes no hash.
LEMMA HashRemoved ==
    ASSUME NEW g, NEW h, NEW N, Removed(g, h, N), NEW q, In(h, q)
    PROVE  In(g, q) /\ h.node[FileNode(q)] = g.node[FileNode(q)]
BY DEF Removed, In

\* After _CLEAR_REPO the repository has no files but some it could not reach.
LEMMA ClearedFiles ==
    ASSUME NEW g, NEW p, NEW r, NEW h, h = Apply(g, Stmt("ClearRepo", r), p),
           NEW q, RepoOf[q] = r, In(h, q)
    PROVE  FileNode(q) \in Orphans(g, r)
<1>0. Stmt("ClearRepo", r).op = "ClearRepo" /\ Stmt("ClearRepo", r).repo = r
    BY DEF Stmt
<1>1. h = ClearRepo(g, r)
    BY <1>0 DEF Apply, FeatureLabels, HttpLabels, KafkaLabels
<1>2. Removed(g, h, Commits(g, r) \cup Reached(g, r))
    BY <1>1, ClearRepoIs
<1>3. FileNode(q)[1] = "File" /\ FileNode(q)[2] = r
    BY DEF FileNode
<1>4. FileNode(q) \in DOMAIN g.node /\ FileNode(q) \notin Reached(g, r)
    BY <1>2 DEF Removed, In
<1>5. FileNode(q) \in Held(g, r)
    BY <1>3, <1>4 DEF Held
<1> QED
    BY <1>4, <1>5 DEF Orphans

\* After _DELETE_FILES the deleted files are gone.
LEMMA DeletedFiles ==
    ASSUME NEW g, NEW p, NEW r, NEW h, h = Apply(g, Stmt("DeleteFiles", r), p),
           NEW q \in p.deleted, RepoOf[q] = r
    PROVE  ~ In(h, q)
<1>0. Stmt("DeleteFiles", r).op = "DeleteFiles" /\ Stmt("DeleteFiles", r).repo = r
    BY DEF Stmt
<1>1. h = DeleteFiles(g, DeletedIn(p, r))
    BY <1>0 DEF Apply, FeatureLabels, HttpLabels, KafkaLabels
<1>2. Removed(g, h, WithContents(g, FilesAt(g, DeletedIn(p, r))))
    BY <1>1, DeleteFilesIs
<1>3. q \in DeletedIn(p, r)
    BY DEF DeletedIn
<1>4. FileNode(q)[1] = "File" /\ FileNode(q)[3] = q
    BY DEF FileNode
<1>5. FileNode(q) \in DOMAIN g.node => FileNode(q) \in FilesAt(g, DeletedIn(p, r))
    BY <1>3, <1>4 DEF FilesAt, Labelled
<1> QED
    BY <1>2, <1>5 DEF Removed, In, WithContents

-----------------------------------------------------------------------------
(***************************************************************************)
(* What is kept of the hashes.                                              *)
(***************************************************************************)
\* The hashes of repository r vouch for their files, those of X aside, if no two
\* files can define the same.
Good(g, r, X) == Separate =>
    \A q \in Paths \ X : RepoOf[q] = r /\ In(g, q) => Vouched(g, q, g.node[FileNode(q)])

\* The statement op for repository r is behind the run p.
Passed(p, op, r) == \E j \in 1..(p.k - 1) : p.plan[j] = Stmt(op, r)

\* What the run p has cleared or deleted has not come back but by what it writes.
Cleared(g, p, r) ==
    /\ Passed(p, "ClearRepo", r) => \A q \in Paths : RepoOf[q] = r /\ In(g, q) => q \in DOMAIN p.files
    /\ Passed(p, "DeleteFiles", r) => \A q \in p.deleted \ DOMAIN p.files : RepoOf[q] = r => ~ In(g, q)

\* The files that a delta neither writes nor deletes are as good as they were.
Spared(g, p, r) == p.mode = "delta" => Good(g, r, DOMAIN p.files \cup p.deleted)

\* What the run p has written so far of repository r is there; all of it is.
Built(g, p, r) == \A j \in 1..(p.k - 1) : p.plan[j].repo = r => Done(g, p, r, p.plan[j].op)
Whole(g, p, r) == \A op \in ContentOps : Done(g, p, r, op)

\* The hashes of repository r vouch for their files when nobody writes it and no
\* run died writing it; while it is written, one of the runs that write it has
\* all its statements were to leave so far.
Vouching(g, r) ==
    /\ Writers(r) = {} /\ r \notin torn => Good(g, r, {})
    /\ \A i \in Writers(r) : Cleared(g, proc[i], r) /\ (r \notin torn => Spared(g, proc[i], r))
    /\ Writers(r) # {} => \E i \in Writers(r) : Built(g, proc[i], r) \/ Whole(g, proc[i], r)

HashInv == Owned(graph) /\ \A r \in Repos \ tangled : Vouching(graph, r)

\* Statements that are done trivially.
LEMMA DoneTrivial == \A g, p, r, op : op \notin ContentOps => Done(g, p, r, op)
BY DEF Done, ContentOps, PartOps

\* What a statement left stays where the repository is left alone,
LEMMA DoneSame ==
    ASSUME NEW g, NEW h, NEW r, SameLocal(g, h, r), NEW p, Parsed(p.files), NEW op, Done(g, p, r, op)
    PROVE  Done(h, p, r, op)
<1>1. op = "Repo" => Exists(h, RepoNode(r))
    BY DEF Done, Exists, SameLocal, RepoNode
<1>2. op = "Commit" => Exists(h, CommitNode(r, p.sha))
    BY DEF Done, Exists, SameLocal, CommitNode
<1>3. op = "Files" => \A q \in InRepo(p.files, r) : HashIs(h, q, p.files[q])
    BY HashSame, ParsedIn DEF Done, HashIs
<1>4. ASSUME op \in PartOps, NEW q \in InRepo(p.files, r) PROVE Has(h, q, p.files[q], op)
  <2>1. q \in Paths /\ RepoOf[q] = r /\ p.files[q] \in DOMAIN Parse[q]
      BY ParsedIn
  <2> QED
      BY <1>4, <2>1, HasSame DEF Done
<1> QED
    BY <1>1, <1>2, <1>3, <1>4 DEF Done

\* and where something is added.
LEMMA DoneAdds ==
    ASSUME NEW g, NEW h, NEW r, NEW p, Adds(g, h, p.files), Parsed(p.files), NEW op, Done(g, p, r, op)
    PROVE  Done(h, p, r, op)
<1>1. op = "Repo" => Exists(h, RepoNode(r))
    BY DEF Done, Exists, Adds
<1>2. op = "Commit" => Exists(h, CommitNode(r, p.sha))
    BY DEF Done, Exists, Adds
<1>3. ASSUME op = "Files", NEW q \in InRepo(p.files, r) PROVE HashIs(h, q, p.files[q])
  <2>1. HashIs(g, q, p.files[q])
      BY <1>3 DEF Done
  <2>2. In(h, q)
      BY <2>1 DEF HashIs, In, Adds
  <2> QED
      BY <2>1, <2>2 DEF HashIs, Adds
<1>4. ASSUME op \in PartOps, NEW q \in InRepo(p.files, r) PROVE Has(h, q, p.files[q], op)
    BY <1>4, HasAdds DEF Done
<1> QED
    BY <1>1, <1>2, <1>3, <1>4 DEF Done

\* A file's hash is that of a content that was parsed.
LEMMA HashParsed ==
    ASSUME NEW g, Owned(g), NEW q, In(g, q)
    PROVE  g.node[FileNode(q)] \in DOMAIN Parse[q]
<1>1. FileNode(q)[1] = "File" /\ FileNode(q)[3] = q
    BY DEF FileNode
<1> QED
    BY <1>1 DEF Owned, NodeOwned, In

\* Hashes go on vouching where the repository is left alone,
LEMMA GoodSame ==
    ASSUME NEW g, Owned(g), NEW h, NEW r, SameLocal(g, h, r), NEW X, Good(g, r, X)
    PROVE  Good(h, r, X)
<1>1. ASSUME Separate, NEW q \in Paths \ X, RepoOf[q] = r, In(h, q), NEW op \in PartOps
      PROVE  Has(h, q, h.node[FileNode(q)], op)
  <2> DEFINE c == g.node[FileNode(q)]
  <2>1. In(g, q) /\ h.node[FileNode(q)] = c
      BY <1>1, HashSame
  <2>2. c \in DOMAIN Parse[q] /\ Has(g, q, c, op)
      BY <1>1, <2>1, HashParsed DEF Good, Vouched
  <2> HIDE DEF c
  <2> QED
      BY <1>1, <2>1, <2>2, HasSame
<1> QED
    BY <1>1 DEF Good, Vouched

\* and where files of their own are added.
LEMMA GoodAdds ==
    ASSUME NEW g, NEW h, NEW F, Adds(g, h, F), NEW r, NEW X, DOMAIN F \subseteq X, Good(g, r, X)
    PROVE  Good(h, r, X)
<1>1. ASSUME Separate, NEW q \in Paths \ X, RepoOf[q] = r, In(h, q), NEW op \in PartOps
      PROVE  Has(h, q, h.node[FileNode(q)], op)
  <2>1. In(g, q) /\ h.node[FileNode(q)] = g.node[FileNode(q)]
      BY <1>1 DEF Adds
  <2>2. Has(g, q, g.node[FileNode(q)], op)
      BY <1>1, <2>1 DEF Good, Vouched
  <2> QED
      BY <2>1, <2>2, HasAdds
<1> QED
    BY <1>1 DEF Good, Vouched

\* A deletion spares the files it does not delete.
LEMMA GoodSpared ==
    ASSUME NEW g, GraphOK(g), Owned(g), NEW p, p.deleted \subseteq Paths, NEW s, NEW op \in DeleteOps,
           NEW h, h = Apply(g, Stmt(op, s), p), NEW r, NEW X, p.deleted \subseteq X, Good(g, r, X)
    PROVE  Good(h, r, X)
<1> SUFFICES ASSUME Separate PROVE Good(h, r, X)
    BY DEF Good
<1>1. PICK N : /\ Removed(g, h, N)
               /\ \A n \in N, q \in Paths \ p.deleted : \A c \in DOMAIN Parse[q] : ~ Mine(n, q, c)
    BY DeleteSpares
<1>2. ASSUME NEW q \in Paths \ X, RepoOf[q] = r, In(h, q), NEW op2 \in PartOps
      PROVE  Has(h, q, h.node[FileNode(q)], op2)
  <2> DEFINE c == g.node[FileNode(q)]
  <2>1. In(g, q) /\ h.node[FileNode(q)] = c
      BY <1>1, <1>2, HashRemoved
  <2>2. c \in DOMAIN Parse[q] /\ Has(g, q, c, op2)
      BY <1>2, <2>1, HashParsed DEF Good, Vouched
  <2>3. \A n \in N : ~ Mine(n, q, c)
      BY <1>1, <2>2
  <2> HIDE DEF c
  <2> QED
      BY <1>1, <2>1, <2>2, <2>3, HasSpared
<1> QED
    BY <1>2 DEF Good, Vouched

\* A repository that a step leaves alone, for any run.
LEMMA RunSame ==
    ASSUME NEW g, Owned(g), NEW h, NEW r, SameLocal(g, h, r), NEW w, Parsed(w.files)
    PROVE  /\ Cleared(g, w, r) => Cleared(h, w, r)
           /\ Spared(g, w, r) => Spared(h, w, r)
           /\ Built(g, w, r) => Built(h, w, r)
           /\ Whole(g, w, r) => Whole(h, w, r)
<1>1. \A q \in Paths : RepoOf[q] = r => (In(h, q) <=> In(g, q))
    BY HashSame
<1>2. Cleared(g, w, r) => Cleared(h, w, r)
  <2>1. \A q \in w.deleted : RepoOf[q] = r => (In(h, q) <=> In(g, q))
      BY HashSame
  <2> QED
      BY <1>1, <2>1 DEF Cleared
<1>3. Spared(g, w, r) => Spared(h, w, r)
    BY GoodSame DEF Spared
<1> QED
    BY <1>2, <1>3, DoneSame DEF Built, Whole

\* A run that adds takes nothing from one that writes the same files.
LEMMA RunAdds ==
    ASSUME NEW g, NEW h, NEW r, NEW w, Adds(g, h, w.files), Parsed(w.files)
    PROVE  /\ Cleared(g, w, r) => Cleared(h, w, r)
           /\ Spared(g, w, r) => Spared(h, w, r)
           /\ Built(g, w, r) => Built(h, w, r)
           /\ Whole(g, w, r) => Whole(h, w, r)
<1>1. \A q : In(h, q) => In(g, q) \/ q \in DOMAIN w.files
    BY DEF Adds
<1>2. Cleared(g, w, r) => Cleared(h, w, r)
    BY <1>1 DEF Cleared
<1>3. Spared(g, w, r) => Spared(h, w, r)
    BY GoodAdds DEF Spared
<1> QED
    BY <1>2, <1>3, DoneAdds DEF Built, Whole

\* A run that removes brings nothing back.
LEMMA ClearedRemoved ==
    ASSUME NEW g, NEW h, NEW N, Removed(g, h, N), NEW w, NEW r, Cleared(g, w, r)
    PROVE  Cleared(h, w, r)
BY HashRemoved DEF Cleared

\* What was there for a run is there for one that writes the same and is not ahead.
LEMMA RunLower ==
    ASSUME NEW g, NEW p, NEW q, p.files = q.files, p.sha = q.sha, p.deleted = q.deleted, p.mode = q.mode,
           p.plan = q.plan, p.k \in Nat, q.k \in Nat, q.k <= p.k, NEW r
    PROVE  /\ Cleared(g, p, r) => Cleared(g, q, r)
           /\ Spared(g, p, r) => Spared(g, q, r)
           /\ Built(g, p, r) => Built(g, q, r)
           /\ Whole(g, p, r) => Whole(g, q, r)
<1>1. \A j \in 1..(q.k - 1) : j \in 1..(p.k - 1)
    OBVIOUS
<1>2. \A op : Passed(q, op, r) => Passed(p, op, r)
    BY <1>1 DEF Passed
<1>3. \A op : Done(g, p, r, op) <=> Done(g, q, r, op)
    BY DEF Done
<1> QED
    BY <1>1, <1>2, <1>3 DEF Cleared, Spared, Built, Whole

-----------------------------------------------------------------------------
(***************************************************************************)
(* The order of a run's statements.                                         *)
(***************************************************************************)
\* A run that has done what it passed finds what its next statement needs.
LEMMA BuiltFinds ==
    ASSUME NEW g, GraphOK(g), NEW p, WellPlanned(p), Parsed(p.files), p.k \in 1..Len(p.plan),
           NEW r \in Range(p.scope), NEW op \in ContentOps, p.plan[p.k] = Stmt(op, r), Built(g, p, r)
    PROVE  Needs(g, p, r, op)
<1>0. ContentOps \subseteq OwnOps
    BY DEF OwnOps
<1>1. ASSUME NEW low \in ContentOps, Rank(low) < Rank(op), PlannedOp(p, r, low)
      PROVE  Done(g, p, r, low)
  <2>1. PICK j \in 1..(p.k - 1) : p.plan[j] = Stmt(low, r)
      BY <1>0, <1>1, Earlier
  <2>2. p.plan[j].op = low /\ p.plan[j].repo = r
      BY <2>1 DEF Stmt
  <2> QED
      BY <2>2 DEF Built
<1>2. {"Repo", "Commit", "Files", "Symbols"} \subseteq ContentOps
    BY DEF ContentOps
<1>3. /\ Rank("Repo") = 4 /\ Rank("Commit") = 5 /\ Rank("Files") = 6 /\ Rank("Symbols") = 8
      /\ \A x \in {"Modules", "Symbols", "Chunks"} : Rank(x) > 6
      /\ \A x \in FeatureLabels : Rank(x) > 8
    BY DEF Rank, FeatureLabels, HttpLabels, KafkaLabels
<1>4. op = "Commit" => Exists(g, RepoNode(r))
  <2>1. PlannedOp(p, r, "Repo")
      BY DEF PlannedOp
  <2> QED
      BY <1>1, <1>2, <1>3, <2>1 DEF Done
<1>5. op = "Files" => Exists(g, CommitNode(r, p.sha))
  <2>1. PlannedOp(p, r, "Commit")
      BY DEF PlannedOp
  <2> QED
      BY <1>1, <1>2, <1>3, <2>1 DEF Done
<1>6. ASSUME op \in {"Modules", "Symbols", "Chunks"} PROVE FilesIn(g, p.files, r) = InRepo(p.files, r)
  <2>1. CASE InRepo(p.files, r) = {}
      BY <2>1 DEF FilesIn
  <2>2. CASE InRepo(p.files, r) # {}
    <3>1. PlannedOp(p, r, "Files")
        BY <2>2 DEF PlannedOp
    <3>2. Done(g, p, r, "Files")
        BY <1>1, <1>2, <1>3, <1>6, <3>1
    <3> QED
        BY <3>2 DEF Done, HashIs, In, FilesIn, Exists
  <2> QED
      BY <2>1, <2>2
<1>7. ASSUME op \in FeatureLabels PROVE SymbolNodesOf(p.files, r) \subseteq DOMAIN g.node
  <2>1. CASE SymbolsOf(p.files, r) = {}
      BY <2>1 DEF SymbolNodesOf
  <2>2. CASE SymbolsOf(p.files, r) # {}
    <3>1. PlannedOp(p, r, "Symbols")
        BY <2>2 DEF PlannedOp
    <3>2. Done(g, p, r, "Symbols")
        BY <1>1, <1>2, <1>3, <1>7, <3>1
    <3>3. ASSUME NEW n \in SymbolNodesOf(p.files, r) PROVE n \in DOMAIN g.node
      <4>1. PICK s \in SymbolsOf(p.files, r) : n = SymbolNode(r, s)
          BY DEF SymbolNodesOf
      <4>2. PICK q \in InRepo(p.files, r) : s \in Rec(p.files, q).syms
          BY DEF SymbolsOf
      <4>3. RepoOf[q] = r /\ Rec(p.files, q) = Parse[q][p.files[q]]
          BY ParsedIn
      <4>4. DefineEdge(q, s) \in PartEdges(q, p.files[q], "Symbols")
        <5>1. PartEdges(q, p.files[q], "Symbols") = {DefineEdge(q, x) : x \in Parse[q][p.files[q]].syms}
                                       \cup {EncloseEdge(q, e) : e \in Nestings(q, p.files[q])}
            BY DEF PartEdges, FeatureLabels, HttpLabels, KafkaLabels
        <5> QED
            BY <4>2, <4>3, <5>1
      <4>5. DefineEdge(q, s) \in g.edge
          BY <3>2, <4>4 DEF Done, PartOps, Has
      <4>6. DefineEdge(q, s)[3] = n
          BY <4>1, <4>3 DEF DefineEdge
      <4> QED
          BY <4>5, <4>6 DEF GraphOK, NoDangling, Exists
    <3> QED
        BY <3>3
  <2> QED
      BY <2>1, <2>2
<1> QED
    BY <1>4, <1>5, <1>6, <1>7 DEF Needs

\* What a run does not plan has nothing to leave.
LEMMA UnplannedDone ==
    ASSUME NEW g, NEW p, Parsed(p.files), NEW r, NEW op \in ContentOps, ~ PlannedOp(p, r, op)
    PROVE  Done(g, p, r, op)
<1>1. op \notin {"Repo", "Commit"}
    BY DEF PlannedOp
<1>2. CASE op \in {"Files", "Modules"}
  <2>1. InRepo(p.files, r) = {}
      BY <1>2 DEF PlannedOp
  <2> QED
      BY <1>1, <2>1 DEF Done
<1>3. CASE op = "Symbols"
  <2>1. SymbolsOf(p.files, r) = {}
      BY <1>3 DEF PlannedOp
  <2>2. ASSUME NEW q \in InRepo(p.files, r) PROVE Has(g, q, p.files[q], op)
    <3>1. Parse[q][p.files[q]].syms = {}
        BY <2>1, ParsedIn DEF SymbolsOf
    <3>2. Nestings(q, p.files[q]) = {}
        BY <3>1 DEF Nestings
    <3>3. PartNodes(q, p.files[q], op) = {}
        BY <1>3 DEF PartNodes, FeatureLabels, HttpLabels, KafkaLabels
    <3>4. PartEdges(q, p.files[q], op) = {DefineEdge(q, s) : s \in Parse[q][p.files[q]].syms}
                               \cup {EncloseEdge(q, e) : e \in Nestings(q, p.files[q])}
        BY <1>3 DEF PartEdges, FeatureLabels, HttpLabels, KafkaLabels
    <3>5. PartEdges(q, p.files[q], op) = {}
        BY <3>1, <3>2, <3>4
    <3> QED
        BY <3>3, <3>5 DEF Has
  <2> QED
      BY <1>3, <2>2 DEF Done
<1>4. CASE op = "Chunks"
  <2>1. ChunksOf(p.files, r) = {}
      BY <1>4 DEF PlannedOp
  <2>2. ASSUME NEW q \in InRepo(p.files, r) PROVE Has(g, q, p.files[q], op)
    <3>1. Parse[q][p.files[q]].chunks = {}
      <4>1. ASSUME NEW k \in Rec(p.files, q).chunks PROVE FALSE
        <5>1. <<q, k>> \in {<<q, x>> : x \in Rec(p.files, q).chunks}
            OBVIOUS
        <5>2. <<q, k>> \in ChunksOf(p.files, r)
            BY <5>1 DEF ChunksOf
        <5> QED
            BY <2>1, <5>2
      <4>2. Rec(p.files, q) = Parse[q][p.files[q]]
          BY ParsedIn
      <4> QED
          BY <4>1, <4>2
    <3>2. PartNodes(q, p.files[q], op) = {}
        BY <1>4 DEF PartNodes, FeatureLabels, HttpLabels, KafkaLabels
    <3>3. PartEdges(q, p.files[q], op) = {ChunkEdge(q, k) : k \in Parse[q][p.files[q]].chunks}
        BY <1>4 DEF PartEdges, FeatureLabels, HttpLabels, KafkaLabels
    <3> QED
        BY <3>1, <3>2, <3>3 DEF Has
  <2> QED
      BY <1>4, <2>2 DEF Done
<1>5. CASE op \in FeatureLabels
  <2>1. {x \in FeaturesOf(p.files, {op}) : RepoOf[x[1]] = r} = {}
      BY <1>5 DEF PlannedOp
  <2>2. ASSUME NEW q \in InRepo(p.files, r) PROVE Has(g, q, p.files[q], op)
    <3>1. Feats(q, p.files[q], op) = {}
        BY <2>1, FeaturesOfOK
    <3>2. OwnedFeats(q, p.files[q], op) = {}
        BY <3>1 DEF OwnedFeats
    <3>3. PartNodes(q, p.files[q], op) = {FeatureNode(q, ft) : ft \in Feats(q, p.files[q], op)}
        BY <1>5 DEF PartNodes
    <3>4. PartEdges(q, p.files[q], op) = {OwnerEdge(q, ft) : ft \in OwnedFeats(q, p.files[q], op)}
              \cup {TopicEdge(q, ft) : ft \in {x \in Feats(q, p.files[q], op) : op \in KafkaLabels}}
        BY <1>5 DEF PartEdges, FeatureLabels, HttpLabels, KafkaLabels
    <3>5. PartNodes(q, p.files[q], op) = {} /\ PartEdges(q, p.files[q], op) = {}
        BY <3>1, <3>2, <3>3, <3>4
    <3> QED
        BY <3>5 DEF Has
  <2>3. op \notin {"Repo", "Commit", "Files"}
      BY <1>5 DEF FeatureLabels, HttpLabels, KafkaLabels
  <2> QED
      BY <2>2, <2>3 DEF Done
<1> QED
    BY <1>1, <1>2, <1>3, <1>4, <1>5 DEF ContentOps

\* A run that is through has written all.
LEMMA BuiltWhole ==
    ASSUME NEW g, NEW p, WellPlanned(p), Parsed(p.files), p.k = Len(p.plan) + 1,
           NEW r \in Range(p.scope), Built(g, p, r)
    PROVE  Whole(g, p, r)
<1>0. Len(p.plan) \in Nat /\ ContentOps \subseteq OwnOps
    BY DEF WellPlanned, OwnOps
<1>1. ASSUME NEW op \in ContentOps, PlannedOp(p, r, op) PROVE Done(g, p, r, op)
  <2>1. PICK j \in 1..Len(p.plan) : p.plan[j] = Stmt(op, r)
      BY <1>0, <1>1 DEF WellPlanned, Holds
  <2>2. p.plan[j].op = op /\ p.plan[j].repo = r /\ j \in 1..(p.k - 1)
      BY <1>0, <2>1 DEF Stmt
  <2> QED
      BY <2>2 DEF Built
<1> QED
    BY <1>1, UnplannedDone DEF Whole

-----------------------------------------------------------------------------
(***************************************************************************)
(* A run executes its next statement.                                       *)
(***************************************************************************)
\* What a statement does to what the hashes of repository r vouch for.
LocalEffect(g, h, p, st, r) ==
    \/ SameLocal(g, h, r) /\ (st.repo # r \/ st.op \notin OwnOps)
    \/ /\ st.repo = r /\ st.op \in ContentOps
       /\ Adds(g, h, p.files) /\ (Needs(g, p, r, st.op) => Done(h, p, r, st.op))
    \/ st.repo = r /\ st.op \in Destructive /\ \E N : Removed(g, h, N)

\* The statement that a run executes has such an effect on every repository.
LEMMA StatementLocal ==
    ASSUME NEW g, GraphOK(g), Owned(g), NEW p, Ready(p), NEW h, h = Apply(g, p.plan[p.k], p)
    PROVE  Owned(h) /\ \A r \in Repos : LocalEffect(g, h, p, p.plan[p.k], r)
<1> DEFINE st == p.plan[p.k]
           op == st.op
           s == st.repo
<1>1. /\ st = Stmt(op, s) /\ op \in AllOps
      /\ op \in OwnOps \cup LinkOps => s \in Range(p.scope)
      /\ op \in FlowOps => s = ""
    BY StatementIs DEF Ready
<1>2. Range(p.scope) \subseteq Repos /\ Parsed(p.files)
    BY DEF Ready, Range
<1>3. GraphOK(h) /\ Touches(g, h, s)
    BY StatementEffect DEF Sound
<1> HIDE DEF st, op, s
<1>4. h = Apply(g, Stmt(op, s), p)
    BY <1>1 DEF st
<1>5. CASE op \in LinkOps \cup FlowOps
  <2>1. Linked(g, h)
      BY <1>4, <1>5, ApplyLinks
  <2>2. op \notin OwnOps
      BY <1>5, OpsDisjoint
  <2> QED
      BY <2>1, <2>2, LinkedLocal, OwnedLinked DEF LocalEffect, op, st
<1>6. CASE op \in OwnOps
  <2>1. s \in Repos
      BY <1>1, <1>2, <1>6
  <2>2. ASSUME NEW r \in Repos, r # s PROVE SameLocal(g, h, r)
      BY <1>3, <2>1, <2>2, TouchesLocal
  <2>3. CASE op \in ContentOps
    <3>1. Adds(g, h, p.files) /\ Owned(h) /\ (Needs(g, p, s, op) => Done(h, p, s, op))
        BY <1>2, <1>4, <2>3, ApplyContent
    <3> QED
        BY <2>2, <2>3, <3>1 DEF LocalEffect, op, st, s
  <2>4. CASE op \in Destructive
    <3>1. PICK N : Removed(g, h, N)
        BY <1>4, <2>4, ApplyRemoves
    <3>2. Owned(h)
        BY <3>1, OwnedRemoved
    <3> QED
        BY <2>2, <2>4, <3>1, <3>2 DEF LocalEffect, op, st, s
  <2> QED
      BY <1>6, <2>3, <2>4 DEF OwnOps
<1> QED
    BY <1>1, <1>5, <1>6 DEF AllOps

\* A statement of repository r that removes is planned for the run's mode.
LEMMA RemovesFor ==
    ASSUME NEW p, Ready(p), p.plan[p.k].op \in Destructive, p.mode = "delta"
    PROVE  p.plan[p.k].op \in DeleteOps
<1>1. p.plan[p.k].op \in OwnOps
    BY DEF OwnOps
<1>2. PlannedOp(p, p.plan[p.k].repo, p.plan[p.k].op)
    BY <1>1 DEF Ready, WellPlanned
<1>3. ClearOps \cap ({"Repo", "Commit", "Files", "Modules", "Symbols", "Chunks"} \cup FeatureLabels) = {}
    BY DEF ClearOps, FeatureLabels, HttpLabels, KafkaLabels
<1>4. p.plan[p.k].op \in ClearOps => FALSE
    BY <1>2, <1>3 DEF PlannedOp, ClearOps, DeleteOps
<1> QED
    BY <1>4 DEF Destructive

\* p and w write and delete the same.
Fellows(p, w) == p.mode = w.mode /\ p.files = w.files /\ p.deleted = w.deleted /\ p.sha = w.sha

\* A run takes nothing from what its fellows have cleared and spared.
LEMMA FellowsKeep ==
    ASSUME NEW g, GraphOK(g), Owned(g), NEW h, NEW p, Ready(p), p.deleted \subseteq Paths,
           NEW q, Goes(g, h, p, q), NEW r \in Repos, NEW w, Fellows(p, w)
    PROVE  /\ Owned(h)
           /\ Cleared(g, w, r) => Cleared(h, w, r)
           /\ Spared(g, w, r) => Spared(h, w, r)
<1>0. CASE h = g
    BY <1>0
<1>1. CASE h = Apply(g, p.plan[p.k], p)
  <2> DEFINE st == p.plan[p.k]
  <2>1. Owned(h) /\ LocalEffect(g, h, p, st, r)
      BY <1>1, StatementLocal
  <2>2. Parsed(w.files) /\ w.files = p.files /\ w.deleted = p.deleted /\ w.mode = p.mode
      BY DEF Ready, Fellows
  <2>3. CASE SameLocal(g, h, r)
      BY <2>1, <2>2, <2>3, RunSame
  <2>4. CASE Adds(g, h, p.files)
      BY <2>1, <2>2, <2>4, RunAdds
  <2>5. CASE st.repo = r /\ st.op \in Destructive /\ \E N : Removed(g, h, N)
    <3>1. Cleared(g, w, r) => Cleared(h, w, r)
        BY <2>5, ClearedRemoved
    <3>2. ASSUME Spared(g, w, r), w.mode = "delta" PROVE Good(h, r, DOMAIN w.files \cup w.deleted)
      <4> DEFINE X == DOMAIN w.files \cup w.deleted
      <4>1. st.op \in DeleteOps
          BY <2>2, <2>5, <3>2, RemovesFor
      <4>2. st = Stmt(st.op, st.repo)
          BY StatementIs DEF Ready
      <4>3. h = Apply(g, Stmt(st.op, st.repo), p)
          BY <1>1, <4>2
      <4>4. Good(g, r, X) /\ p.deleted \subseteq X
          BY <2>2, <3>2 DEF Spared
      <4> HIDE DEF X, st
      <4>5. Good(h, r, X)
          BY <4>1, <4>3, <4>4, GoodSpared
      <4> QED
          BY <4>5 DEF X
    <3> QED
        BY <2>1, <3>1, <3>2 DEF Spared
  <2> QED
      BY <2>1, <2>3, <2>4, <2>5 DEF LocalEffect
<1> QED
    BY <1>0, <1>1 DEF Goes

\* What a run is through with after its next statement.
LEMMA PassedNext ==
    ASSUME NEW p, Ready(p), NEW q, q.plan = p.plan, q.k \in Nat \ {0}, q.k <= p.k + 1,
           NEW op, NEW r, Passed(q, op, r)
    PROVE  Passed(p, op, r) \/ p.plan[p.k] = Stmt(op, r)
<1>1. p.k \in Nat
    BY DEF Ready
<1>2. PICK j \in 1..(q.k - 1) : p.plan[j] = Stmt(op, r)
    BY DEF Passed
<1>3. j \in 1..(p.k - 1) \/ j = p.k
    BY <1>1
<1> QED
    BY <1>2, <1>3 DEF Passed

\* What the run itself has cleared; clearing left no file that it does not write.
LEMMA ClearedGoes ==
    ASSUME NEW g, GraphOK(g), Owned(g), NEW h, NEW p, Ready(p), p.deleted \subseteq Paths,
           NEW q, Goes(g, h, p, q), NEW r \in Repos, Cleared(g, p, r),
           Orphans(g, r) \subseteq Wanted(p.files, r)
    PROVE  Cleared(h, q, r)
<1>0. /\ p.plan = q.plan /\ q.files = p.files /\ q.deleted = p.deleted /\ q.k \in Nat \ {0}
      /\ p.k \in Nat /\ Fellows(p, p) /\ q.sha = p.sha /\ q.mode = p.mode
    BY DEF Goes, SamePlan, Ready, Fellows
<1>1. Cleared(h, p, r)
    BY <1>0, FellowsKeep
<1>2. CASE h = g /\ q.k <= p.k
    BY <1>0, <1>1, <1>2, RunLower
<1>3. CASE h = Apply(g, p.plan[p.k], p) /\ q.k <= p.k + 1
  <2>1. \A op : Passed(q, op, r) => Passed(p, op, r) \/ p.plan[p.k] = Stmt(op, r)
      BY <1>0, <1>3, PassedNext
  <2>2. ASSUME p.plan[p.k] = Stmt("ClearRepo", r), NEW x \in Paths, RepoOf[x] = r, In(h, x)
        PROVE  x \in DOMAIN p.files
    <3>1. FileNode(x) \in Orphans(g, r)
        BY <1>3, <2>2, ClearedFiles
    <3>2. FileNode(x) \in Wanted(p.files, r)
        BY <3>1
    <3>3. FileNode(x)[1] = "File" /\ FileNode(x)[3] = x
        BY DEF FileNode
    <3>4. FileNode(x) \in FileNodesOf(p.files, r)
      <4>1. \A n \in SymbolNodesOf(p.files, r) : n[1] = "Symbol"
          BY DEF SymbolNodesOf, SymbolNode
      <4>2. \A n \in ChunkNodesOf(p.files, r) : n[1] = "Chunk"
          BY DEF ChunkNodesOf, ChunkNode
      <4> QED
          BY <3>2, <3>3, <4>1, <4>2 DEF Wanted
    <3>5. PICK y \in InRepo(p.files, r) : FileNode(x) = FileNode(y)
        BY <3>4 DEF FileNodesOf
    <3>6. FileNode(y)[3] = y
        BY DEF FileNode
    <3>7. x = y
        BY <3>3, <3>5, <3>6
    <3> QED
        BY <3>7 DEF InRepo
  <2>3. ASSUME p.plan[p.k] = Stmt("DeleteFiles", r), NEW x \in p.deleted, RepoOf[x] = r
        PROVE  ~ In(h, x)
      BY <1>3, <2>3, DeletedFiles
  <2>4. Passed(q, "ClearRepo", r) => \A x \in Paths : RepoOf[x] = r /\ In(h, x) => x \in DOMAIN p.files
      BY <1>1, <2>1, <2>2 DEF Cleared
  <2>5. Passed(q, "DeleteFiles", r) => \A x \in p.deleted \ DOMAIN p.files : RepoOf[x] = r => ~ In(h, x)
      BY <1>1, <2>1, <2>3 DEF Cleared
  <2> QED
      BY <1>0, <2>4, <2>5 DEF Cleared
<1> QED
    BY <1>2, <1>3 DEF Goes

\* What a run has written it keeps; and clearing or deleting, it starts anew.
LEMMA BuiltGoes ==
    ASSUME NEW g, GraphOK(g), Owned(g), NEW h, NEW p, Ready(p), NEW q, Goes(g, h, p, q),
           NEW r \in Range(p.scope)
    PROVE  /\ Built(g, p, r) => Built(h, q, r)
           /\ \A w : Fellows(p, w) /\ (Built(g, w, r) \/ Whole(g, w, r))
                  => Built(h, w, r) \/ Whole(h, w, r) \/ Built(h, q, r)
<1>0. /\ p.plan = q.plan /\ q.files = p.files /\ q.deleted = p.deleted /\ q.k \in Nat \ {0}
      /\ p.k \in 1..Len(p.plan) /\ Len(p.plan) \in Nat /\ q.sha = p.sha /\ q.mode = p.mode
      /\ Parsed(p.files) /\ WellPlanned(p) /\ r \in Repos
  <2>1. Range(p.scope) \subseteq Repos
      BY DEF Ready, Range
  <2>2. p.plan = q.plan /\ q.files = p.files /\ q.deleted = p.deleted /\ q.sha = p.sha /\ q.mode = p.mode
      BY DEF Goes, SamePlan
  <2> QED
      BY <2>1, <2>2 DEF Goes, Ready, WellPlanned
<1>1. CASE h = g /\ q.k <= p.k
    BY <1>0, <1>1, RunLower
<1>2. CASE h = Apply(g, p.plan[p.k], p) /\ q.k <= p.k + 1
  <2> DEFINE st == p.plan[p.k]
  <2>1. LocalEffect(g, h, p, st, r)
      BY <1>0, <1>2, StatementLocal
  <2>2. \A op : Done(h, p, r, op) <=> Done(h, q, r, op)
      BY <1>0 DEF Done
  <2>3. \A j \in 1..(q.k - 1) : j \in 1..(p.k - 1) \/ j = p.k
      BY <1>0, <1>2
  <2>4. ASSUME Built(h, p, r), st.repo = r => Done(h, p, r, st.op) PROVE Built(h, q, r)
      BY <1>0, <2>2, <2>3, <2>4 DEF Built
  <2>5. \A w : Fellows(p, w) => Parsed(w.files) /\ w.files = p.files
      BY <1>0 DEF Fellows
  <2>6. CASE SameLocal(g, h, r) /\ (st.repo # r \/ st.op \notin OwnOps)
    <3>1. Built(g, p, r) => Built(h, p, r)
        BY <1>0, <2>6, RunSame
    <3>2. st.repo = r => Done(h, p, r, st.op)
        BY <2>6, DoneTrivial DEF OwnOps
    <3>3. \A w : Fellows(p, w) /\ (Built(g, w, r) \/ Whole(g, w, r)) => Built(h, w, r) \/ Whole(h, w, r)
        BY <2>5, <2>6, RunSame
    <3> QED
        BY <2>4, <3>1, <3>2, <3>3
  <2>7. CASE /\ st.repo = r /\ st.op \in ContentOps
             /\ Adds(g, h, p.files) /\ (Needs(g, p, r, st.op) => Done(h, p, r, st.op))
    <3>1. Built(g, p, r) => Built(h, p, r)
        BY <1>0, <2>7, RunAdds
    <3>2. st = Stmt(st.op, r)
        BY <1>0, <2>7, StatementIs
    <3>3. Built(g, p, r) => Needs(g, p, r, st.op)
        BY <1>0, <2>7, <3>2, BuiltFinds
    <3>4. \A w : Fellows(p, w) /\ (Built(g, w, r) \/ Whole(g, w, r)) => Built(h, w, r) \/ Whole(h, w, r)
        BY <2>5, <2>7, RunAdds
    <3> QED
        BY <2>4, <2>7, <3>1, <3>3, <3>4
  <2>8. CASE st.repo = r /\ st.op \in Destructive
    <3>1. ASSUME NEW j \in 1..(q.k - 1), p.plan[j].repo = r PROVE Done(h, q, r, p.plan[j].op)
      <4>1. p.plan[j].op \notin ContentOps
        <5>0. (\A op \in Destructive : Rank(op) \in 1..3) /\ (\A op \in ContentOps : Rank(op) > 3)
          <6>1. \A op \in Destructive : Rank(op) \in 1..3
              BY DEF Destructive, ClearOps, DeleteOps, Rank
          <6>2. \A op \in ContentOps : Rank(op) > 3
              BY DEF ContentOps, Rank, FeatureLabels, HttpLabels, KafkaLabels
          <6> QED
              BY <6>1, <6>2
        <5>1. CASE j = p.k
            BY <2>8, <5>0, <5>1
        <5>2. CASE j < p.k
          <6>1. j \in 1..Len(p.plan) /\ p.k \in 1..Len(p.plan) /\ st.op \in OwnOps
              BY <1>0, <2>8, <5>2 DEF OwnOps
          <6>2. p.plan[j].op \in OwnOps /\ Rank(p.plan[j].op) < Rank(st.op)
              BY <1>0, <2>8, <3>1, <5>2, <6>1 DEF WellPlanned
          <6>3. Rank(p.plan[j].op) \in Nat
              BY <6>2, RankType
          <6> QED
              BY <2>8, <5>0, <6>2, <6>3
        <5> QED
            BY <1>0, <2>3, <5>1, <5>2
      <4> QED
          BY <4>1, DoneTrivial
    <3>2. Built(h, q, r)
        BY <1>0, <3>1 DEF Built
    <3> QED
        BY <3>2
  <2> QED
      BY <2>1, <2>6, <2>7, <2>8 DEF LocalEffect
<1> QED
    BY <1>1, <1>2 DEF Goes

-----------------------------------------------------------------------------
(***************************************************************************)
(* Every step, for what the hashes vouch for.                               *)
(***************************************************************************)
\* The step of run i and what it notes of half-written repositories.
Notes(i) ==
    \/ (Reads(i) \/ Begins(i)) /\ UNCHANGED torn
    \/ /\ Writes(i)
       /\ proc'[i].pc = "write" => UNCHANGED torn
       /\ proc'[i].pc # "write" => torn' = torn \cup Range(proc[i].scope)
    \/ /\ Returns(i)
       /\ torn' = IF proc[i].mode = "full" THEN torn \ Range(proc[i].scope) ELSE torn
    \/ Dead(i) /\ torn' = torn \cup Range(proc[i].scope)

\* Every step is such a step, or leaves graph and runs alone.
LEMMA MovesNoted ==
    ASSUME TypeInv, [Next]_vars
    PROVE  UNCHANGED <<graph, proc, tangled, torn>> \/ \E i \in Indexers : Notes(i)
<1>0. RunsOK /\ GraphOK(graph) /\ disk \in [Paths -> Contents \cup {Absent}] /\ tangled \subseteq Repos
    BY DEF TypeInv, RestOK
<1>1. ASSUME NEW p \in Paths, NEW c \in Contents \cup {Absent}, EditFile(p, c)
      PROVE  UNCHANGED <<graph, proc, tangled, torn>>
    BY <1>1 DEF EditFile
<1>2. CASE UNCHANGED vars
    BY <1>2 DEF vars
<1>3. ASSUME NEW i \in Indexers,
             \/ \E mode \in Modes, scope \in Scopes[i], sha \in Shas : StartRun(i, mode, scope, sha)
             \/ Step(i) \/ Crash(i)
      PROVE  Notes(i)
  <2>1. CASE \E mode \in Modes, scope \in Scopes[i], sha \in Shas : StartRun(i, mode, scope, sha)
    <3>1. Reads(i)
        BY <1>0, <2>1, StartRunIs
    <3>2. UNCHANGED torn
        BY <2>1 DEF StartRun
    <3> QED
        BY <3>1, <3>2 DEF Notes
  <2>2. CASE FetchHashes(i)
    <3>1. Reads(i)
        BY <1>0, <2>2, FetchHashesIs
    <3>2. UNCHANGED torn
        BY <2>2 DEF FetchHashes
    <3> QED
        BY <3>1, <3>2 DEF Notes
  <2>3. CASE \E unread \in SUBSET Paths : DiffRepo(i, unread)
    <3>1. Reads(i)
        BY <1>0, <2>3, DiffRepoIs
    <3>2. UNCHANGED torn
        BY <2>3 DEF DiffRepo
    <3> QED
        BY <3>1, <3>2 DEF Notes
  <2>4. CASE \E unread \in SUBSET Paths : WalkRepo(i, unread)
    <3>1. Reads(i) \/ Begins(i)
        BY <1>0, <2>4, WalkRepoIs
    <3>2. UNCHANGED torn
        BY <2>4 DEF WalkRepo
    <3> QED
        BY <3>1, <3>2 DEF Notes
  <2>5. CASE WriteStep(i)
    <3>1. Writes(i) /\ proc'[i].pc = "write"
        BY <1>0, <2>5, WriteStepIs DEF Writes
    <3>2. UNCHANGED torn
        BY <2>5 DEF WriteStep
    <3> QED
        BY <3>1, <3>2 DEF Notes
  <2>6. CASE TransientError(i)
    <3>1. Writes(i) /\ proc'[i].pc \in {"write", "failed"}
        BY <1>0, <2>6, TransientErrorIs DEF Writes, WriteOn
    <3>2. /\ proc'[i].pc = "failed" => torn' = torn \cup Range(proc[i].scope)
          /\ proc'[i].pc # "failed" => UNCHANGED torn
        BY <2>6 DEF TransientError, Dies
    <3> QED
        BY <3>1, <3>2 DEF Notes
  <2>7. CASE Finish(i)
    <3>1. Returns(i)
        BY <1>0, <2>7, FinishIs DEF Returns
    <3>2. torn' = IF proc[i].mode = "full" THEN torn \ Range(proc[i].scope) ELSE torn
        BY <2>7 DEF Finish
    <3> QED
        BY <3>1, <3>2 DEF Notes
  <2>8. CASE Crash(i)
    <3>1. Dead(i)
        BY <1>0, <2>8, CrashIs DEF Dead
    <3>2. torn' = torn \cup Range(proc[i].scope)
        BY <2>8 DEF Crash, Dies
    <3> QED
        BY <3>1, <3>2 DEF Notes
  <2> QED
      BY <1>3, <2>1, <2>2, <2>3, <2>4, <2>5, <2>6, <2>7, <2>8 DEF Step
<1> QED
    BY <1>1, <1>2, <1>3 DEF Next

\* A step that changes neither the runs that write repository r nor what the
\* repository's files define.
LEMMA AsideVouches ==
    ASSUME RunsOK, Owned(graph), NEW r, Vouching(graph, r), SameLocal(graph, graph', r),
           Writers(r)' = Writers(r), \A j \in Writers(r) : proc'[j] = proc[j],
           r \in torn => r \in torn'
    PROVE  Vouching(graph, r)'
<1>1. Writers(r)' = {} /\ r \notin torn' => Good(graph', r, {})
    BY GoodSame DEF Vouching
<1>2. ASSUME NEW j \in Writers(r)
      PROVE  /\ Cleared(graph, proc[j], r) => Cleared(graph', proc'[j], r)
             /\ Spared(graph, proc[j], r) => Spared(graph', proc'[j], r)
             /\ Built(graph, proc[j], r) => Built(graph', proc'[j], r)
             /\ Whole(graph, proc[j], r) => Whole(graph', proc'[j], r)
  <2>1. Parsed(proc[j].files) /\ proc'[j] = proc[j]
      BY DEF Writers, RunsOK, RunOK
  <2> QED
      BY <2>1, RunSame
<1>3. \A j \in Writers(r)' : Cleared(graph', proc'[j], r) /\ (r \notin torn' => Spared(graph', proc'[j], r))
    BY <1>2 DEF Vouching
<1>4. Writers(r)' # {} => \E j \in Writers(r)' : Built(graph', proc'[j], r) \/ Whole(graph', proc'[j], r)
    BY <1>2 DEF Vouching
<1> QED
    BY <1>1, <1>3, <1>4 DEF Vouching

\* A step of a run that does not write repository r before or after.
LEMMA ElsewhereVouches ==
    ASSUME RunsOK, Owned(graph), NEW r, Vouching(graph, r), SameLocal(graph, graph', r),
           NEW i \in Indexers, Alone(i), i \notin Writers(r), i \notin Writers(r)',
           r \in torn => r \in torn'
    PROVE  Vouching(graph, r)'
<1>1. Writers(r) \subseteq Indexers \ {i}
    BY DEF Writers
<1>2. Writers(r)' = Writers(r)
    BY DEF Alone, Writers
<1>3. \A j \in Writers(r) : proc'[j] = proc[j]
    BY <1>1 DEF Alone
<1> QED
    BY <1>2, <1>3, AsideVouches

\* A graph that does not change.
LEMMA LocalItself == ASSUME UNCHANGED graph, NEW r PROVE SameLocal(graph, graph', r)
BY DEF SameLocal

\* A run that reads.
LEMMA ReadsVouch ==
    ASSUME RunsOK, Owned(graph), NEW r, Vouching(graph, r), NEW i \in Indexers, Reads(i), UNCHANGED torn
    PROVE  Vouching(graph, r)'
<1>1. i \notin Writers(r) /\ i \notin Writers(r)' /\ Alone(i) /\ SameLocal(graph, graph', r)
    BY LocalItself DEF Reads, Writers, Alone
<1> QED
    BY <1>1, ElsewhereVouches

\* A run that dies leaves the repositories it was writing alone as torn.
LEMMA DeadVouches ==
    ASSUME RunsOK, Owned(graph), NEW r, r \notin tangled', Overlaps(r), InHand(graph, r), Vouching(graph, r),
           NEW i \in Indexers, Dead(i), torn' = torn \cup Range(proc[i].scope)
    PROVE  Vouching(graph, r)'
<1>1. Alone(i) /\ UNCHANGED graph /\ i \notin Writers(r)' /\ r \notin proc[i].met
    BY DEF Dead, Ends, Alone, Writers
<1>2. CASE i \notin Writers(r)
    BY <1>1, <1>2, LocalItself, ElsewhereVouches
<1>3. CASE i \in Writers(r)
  <2>1. Writers(r) = {i}
      BY <1>1, <1>3, OnlyWriter
  <2>2. Writers(r)' = {}
      BY <1>1, <2>1 DEF Alone, Writers
  <2>3. r \in torn'
      BY <1>3 DEF Writers
  <2> QED
      BY <2>2, <2>3 DEF Vouching
<1> QED
    BY <1>2, <1>3

\* A run that is through and has written all leaves hashes that vouch.
LEMMA RunVouches ==
    ASSUME NEW g, NEW p, WellPlanned(p), Parsed(p.files), p.k = Len(p.plan) + 1, p.mode \in {"full", "delta"},
           NEW r \in Range(p.scope), Cleared(g, p, r), p.mode = "delta" => Spared(g, p, r), Whole(g, p, r)
    PROVE  Good(g, r, {})
<1>1. Len(p.plan) \in Nat /\ p.k - 1 = Len(p.plan)
    BY DEF WellPlanned
<1>2. ASSUME NEW op \in OwnOps, PlannedOp(p, r, op) PROVE Passed(p, op, r)
  <2>1. Holds(p.plan, Stmt(op, r))
      BY <1>2 DEF WellPlanned
  <2>2. PICK j \in 1..Len(p.plan) : p.plan[j] = Stmt(op, r)
      BY <2>1 DEF Holds
  <2> QED
      BY <1>1, <2>2 DEF Passed
<1>3. ASSUME Separate, NEW q \in Paths, RepoOf[q] = r, In(g, q) PROVE Vouched(g, q, g.node[FileNode(q)])
  <2>1. CASE q \in DOMAIN p.files
    <3>1. q \in InRepo(p.files, r)
        BY <1>3, <2>1 DEF InRepo
    <3>2. \A op \in ContentOps : Done(g, p, r, op)
        BY DEF Whole
    <3>3. g.node[FileNode(q)] = p.files[q]
      <4>1. Done(g, p, r, "Files")
          BY <3>2 DEF ContentOps
      <4> QED
          BY <3>1, <4>1 DEF Done, HashIs
    <3>4. ASSUME NEW op \in PartOps PROVE Has(g, q, p.files[q], op)
      <4>1. op \in ContentOps
          BY DEF PartOps, ContentOps
      <4> QED
          BY <3>1, <3>2, <4>1 DEF Done
    <3> QED
        BY <3>3, <3>4 DEF Vouched
  <2>2. CASE q \notin DOMAIN p.files /\ p.mode = "full"
    <3>1. "ClearRepo" \in OwnOps /\ PlannedOp(p, r, "ClearRepo")
        BY <2>2 DEF PlannedOp, ClearOps, OwnOps, Destructive
    <3>2. Passed(p, "ClearRepo", r)
        BY <1>2, <3>1
    <3> QED
        BY <1>3, <2>2, <3>2 DEF Cleared
  <2>3. CASE q \notin DOMAIN p.files /\ p.mode = "delta"
    <3>1. CASE q \in p.deleted
      <4>1. DeletedIn(p, r) # {}
          BY <1>3, <3>1 DEF DeletedIn
      <4>2. "DeleteFiles" \in OwnOps /\ PlannedOp(p, r, "DeleteFiles")
          BY <2>3, <4>1 DEF PlannedOp, DeleteOps, OwnOps, Destructive
      <4>3. Passed(p, "DeleteFiles", r)
          BY <1>2, <4>2
      <4> QED
          BY <1>3, <2>3, <3>1, <4>3 DEF Cleared
    <3>2. CASE q \notin p.deleted
        BY <1>3, <2>3, <3>2 DEF Spared, Good
    <3> QED
        BY <3>1, <3>2
  <2> QED
      BY <2>1, <2>2, <2>3
<1> QED
    BY <1>3 DEF Good

\* A run that returns: what it leaves is vouched for.
LEMMA ReturnsVouch ==
    ASSUME RunsOK, Owned(graph), NEW r, Overlaps(r), Vouching(graph, r),
           NEW i \in Indexers, Returns(i),
           torn' = IF proc[i].mode = "full" THEN torn \ Range(proc[i].scope) ELSE torn
    PROVE  Vouching(graph, r)'
<1> DEFINE p == proc[i]
<1>1. /\ Alone(i) /\ UNCHANGED graph /\ i \notin Writers(r)' /\ p.pc = "write" /\ p.k = Len(p.plan) + 1
      /\ RunOK(p)
    BY DEF Returns, Ends, Alone, Writers, RunsOK
<1>2. CASE i \notin Writers(r)
  <2>1. r \notin Range(p.scope)
      BY <1>1, <1>2 DEF Writers
  <2>2. r \in torn => r \in torn'
      BY <2>1
  <2> QED
      BY <1>1, <1>2, <2>2, LocalItself, ElsewhereVouches
<1>3. CASE i \in Writers(r)
  <2>1. /\ Writers(r)' = Writers(r) \ {i}
        /\ \A j \in Writers(r)' : j \in Writers(r) /\ j # i /\ proc'[j] = proc[j]
      BY <1>1 DEF Alone, Writers
  <2>2. r \in Range(p.scope) /\ WellPlanned(p) /\ Parsed(p.files) /\ p.mode \in {"full", "delta"}
      BY <1>1, <1>3 DEF RunOK, Writers
  <2>3. r \in torn /\ r \notin torn' => p.mode = "full"
      OBVIOUS
  <2>4. r \notin torn => r \notin torn'
      OBVIOUS
  <2>5. Built(graph, p, r) => Whole(graph, p, r)
      BY <1>1, <2>2, BuiltWhole
  <2>6. PICK w \in Writers(r) : Built(graph, proc[w], r) \/ Whole(graph, proc[w], r)
      BY <1>3 DEF Vouching
  <2>7. Cleared(graph, p, r) /\ (r \notin torn => Spared(graph, p, r))
      BY <1>3 DEF Vouching
  <2>8. ASSUME Writers(r)' = {}, r \notin torn' PROVE Good(graph', r, {})
    <3>1. w = i
        BY <2>1, <2>6, <2>8
    <3>2. Whole(graph, p, r)
        BY <2>5, <2>6, <3>1
    <3>3. p.mode = "delta" => Spared(graph, p, r)
        BY <2>3, <2>7, <2>8
    <3>4. Good(graph, r, {})
        BY <1>1, <2>2, <2>7, <3>2, <3>3, RunVouches
    <3> QED
        BY <1>1, <3>4
  <2>9. ASSUME NEW j \in Writers(r)'
        PROVE  Cleared(graph', proc'[j], r) /\ (r \notin torn' => Spared(graph', proc'[j], r))
    <3>1. j \in Writers(r) /\ proc'[j] = proc[j] /\ proc[j].mode = p.mode
        BY <1>3, <2>1 DEF Overlaps, Alike
    <3>2. Cleared(graph, proc[j], r) /\ (r \notin torn => Spared(graph, proc[j], r))
        BY <3>1 DEF Vouching
    <3>3. r \in torn /\ r \notin torn' => Spared(graph, proc[j], r)
        BY <2>3, <3>1 DEF Spared
    <3> QED
        BY <1>1, <3>1, <3>2, <3>3
  <2>10. ASSUME Writers(r)' # {}
         PROVE  \E j \in Writers(r)' : Built(graph', proc'[j], r) \/ Whole(graph', proc'[j], r)
    <3>1. CASE w # i
      <4>1. w \in Writers(r)'
          BY <2>1, <3>1
      <4> QED
          BY <1>1, <2>1, <2>6, <4>1
    <3>2. CASE w = i
      <4>1. Whole(graph, p, r)
          BY <2>5, <2>6, <3>2
      <4>2. PICK j : j \in Writers(r)'
          BY <2>10
      <4>3. proc'[j] = proc[j] /\ proc[j].files = p.files /\ proc[j].sha = p.sha
          BY <1>3, <2>1, <4>2 DEF Overlaps, Alike
      <4>4. Whole(graph, proc[j], r)
          BY <4>1, <4>3 DEF Whole, Done
      <4> QED
          BY <1>1, <4>2, <4>3, <4>4
    <3> QED
        BY <3>1, <3>2
  <2> QED
      BY <2>8, <2>9, <2>10 DEF Vouching
<1> QED
    BY <1>2, <1>3

\* A run that begins to write a repository, alone or with others alike.
LEMMA BeginsVouch ==
    ASSUME RunsOK, NEW r \in Repos, r \notin tangled', Overlaps(r), Vouching(graph, r),
           NEW i \in Indexers, Begins(i), UNCHANGED torn
    PROVE  Vouching(graph, r)'
<1> DEFINE q == proc'[i]
           W == Writers(r)
           H == Writers(r)'
<1>1. UNCHANGED graph /\ i \notin W /\ q.k = 1
    BY DEF Begins, Writers
<1>2. ASSUME NEW j \in W
      PROVE  /\ j \in H
             /\ Cleared(graph', proc'[j], r) /\ (r \notin torn' => Spared(graph', proc'[j], r))
             /\ Built(graph, proc[j], r) => Built(graph', proc'[j], r)
             /\ Whole(graph, proc[j], r) => Whole(graph', proc'[j], r)
             /\ r \in Range(q.scope) => Alike(q, proc[j])
  <2>1. j \in Indexers \ {i} /\ proc[j].pc = "write" /\ r \in Range(proc[j].scope)
      BY <1>1 DEF Writers
  <2>2. /\ proc'[j].pc = "write" /\ SamePlan(proc[j], proc'[j]) /\ proc'[j].k = proc[j].k
        /\ ~ Alike(q, proc[j]) => Range(q.scope) \cap Range(proc[j].scope) \subseteq tangled'
      BY <2>1 DEF Begins
  <2>3. proc[j].k \in Nat /\ proc'[j].k \in Nat /\ proc'[j].k <= proc[j].k
      BY <2>1, <2>2 DEF RunsOK, RunOK
  <2>4. /\ Cleared(graph, proc[j], r) => Cleared(graph, proc'[j], r)
        /\ Spared(graph, proc[j], r) => Spared(graph, proc'[j], r)
        /\ Built(graph, proc[j], r) => Built(graph, proc'[j], r)
        /\ Whole(graph, proc[j], r) => Whole(graph, proc'[j], r)
    <3>1. /\ proc[j].files = proc'[j].files /\ proc[j].sha = proc'[j].sha /\ proc[j].plan = proc'[j].plan
          /\ proc[j].deleted = proc'[j].deleted /\ proc[j].mode = proc'[j].mode
        BY <2>2 DEF SamePlan
    <3> QED
        BY <2>3, <3>1, RunLower
  <2>5. j \in H
      BY <2>1, <2>2 DEF SamePlan, Writers
  <2>6. Cleared(graph, proc[j], r) /\ (r \notin torn => Spared(graph, proc[j], r))
      BY DEF Vouching
  <2> QED
      BY <1>1, <2>1, <2>2, <2>4, <2>5, <2>6
<1>3. ASSUME NEW j \in H PROVE j \in W \/ (j = i /\ r \in Range(q.scope))
  <2>1. j \in Indexers /\ proc'[j].pc = "write" /\ r \in Range(proc'[j].scope)
      BY DEF Writers, Begins
  <2>2. CASE j = i
      BY <2>1, <2>2
  <2>3. CASE j # i
    <3>1. proc[j].pc = "write"
        BY <2>1, <2>3 DEF Begins
    <3>2. proc'[j].scope = proc[j].scope
        BY <2>1, <2>3, <3>1 DEF Begins, SamePlan
    <3> QED
        BY <2>1, <3>1, <3>2 DEF Writers
  <2> QED
      BY <2>2, <2>3
<1>4. 1..(q.k - 1) = {}
    BY <1>1
<1>5. Cleared(graph', q, r) /\ Built(graph', q, r)
    BY <1>4 DEF Cleared, Passed, Built
<1>6. ASSUME r \in Range(q.scope), r \notin torn' PROVE Spared(graph', q, r)
  <2>1. CASE W = {}
    <3>1. Good(graph, r, {})
        BY <1>6, <2>1 DEF Vouching
    <3> QED
        BY <1>1, <3>1 DEF Good, Spared
  <2>2. CASE W # {}
    <3>1. PICK j : j \in W
        BY <2>2
    <3>2. Spared(graph, proc[j], r)
        BY <1>6, <3>1 DEF Vouching
    <3>3. q.mode = proc[j].mode /\ q.files = proc[j].files /\ q.deleted = proc[j].deleted
        BY <1>2, <1>6, <3>1 DEF Alike
    <3> QED
        BY <1>1, <3>2, <3>3 DEF Spared
  <2> QED
      BY <2>1, <2>2
<1> HIDE DEF q, W
<1>7. ASSUME H = {}, r \notin torn' PROVE Good(graph', r, {})
  <2>1. W = {}
      BY <1>2, <1>7
  <2> QED
      BY <1>1, <1>7, <2>1 DEF Vouching, W
<1>8. ASSUME NEW j \in H
      PROVE  Cleared(graph', proc'[j], r) /\ (r \notin torn' => Spared(graph', proc'[j], r))
    BY <1>2, <1>3, <1>5, <1>6 DEF q
<1>9. ASSUME H # {}
      PROVE  \E j \in H : Built(graph', proc'[j], r) \/ Whole(graph', proc'[j], r)
  <2>1. CASE W # {}
    <3>1. PICK j \in W : Built(graph, proc[j], r) \/ Whole(graph, proc[j], r)
        BY <2>1 DEF Vouching, W
    <3> QED
        BY <1>2, <3>1
  <2>2. CASE W = {}
    <3>1. i \in H
        BY <1>3, <1>9, <2>2
    <3> QED
        BY <1>5, <3>1 DEF q
  <2> QED
      BY <2>1, <2>2
<1> QED
    BY <1>7, <1>8, <1>9 DEF Vouching

\* Outside its scope a run changes nothing that a file defines.
LEMMA OutsideLocal ==
    ASSUME NEW g, GraphOK(g), Owned(g), NEW h, NEW p, Ready(p), NEW q, Goes(g, h, p, q),
           NEW r \in Repos, r \notin Range(p.scope)
    PROVE  SameLocal(g, h, r)
<1>1. CASE h = g
    BY <1>1 DEF SameLocal
<1>2. CASE h = Apply(g, p.plan[p.k], p)
  <2>1. LocalEffect(g, h, p, p.plan[p.k], r)
      BY <1>2, StatementLocal
  <2>2. p.plan[p.k].op \in OwnOps => p.plan[p.k].repo \in Range(p.scope)
      BY StatementIs DEF Ready
  <2>3. ContentOps \subseteq OwnOps /\ Destructive \subseteq OwnOps
      BY DEF OwnOps
  <2> QED
      BY <2>1, <2>2, <2>3 DEF LocalEffect
<1> QED
    BY <1>1, <1>2 DEF Goes

\* The graph's files stay owned.
LEMMA GoesOwned ==
    ASSUME NEW g, GraphOK(g), Owned(g), NEW h, NEW p, Ready(p), NEW q, Goes(g, h, p, q)
    PROVE  Owned(h)
BY StatementLocal DEF Goes

\* A run that executes a statement, or fails to.
LEMMA WritesVouch ==
    ASSUME RunsOK, GraphOK(graph), Owned(graph), NEW r \in Repos, r \notin tangled',
           Overlaps(r), InHand(graph, r), Vouching(graph, r), NEW i \in Indexers, Writes(i),
           proc'[i].pc = "write" => UNCHANGED torn,
           proc'[i].pc # "write" => torn' = torn \cup Range(proc[i].scope)
    PROVE  Vouching(graph, r)'
<1> DEFINE p == proc[i]
           q == proc'[i]
<1>1. /\ Alone(i) /\ Goes(graph, graph', p, q) /\ SamePlan(p, q) /\ Ready(p)
      /\ p.pc = "write" /\ q.pc \in {"write", "failed"} /\ p.deleted \subseteq Paths
  <2>1. WriteOn(i) /\ RunOK(proc[i])
      BY DEF Writes, RunsOK
  <2>2. p.deleted \subseteq Paths
      BY <2>1 DEF RunOK
  <2> QED
      BY <2>1, <2>2, AtStatementReady DEF WriteOn, Alone, Kept
<1>2. p.files = q.files /\ p.scope = q.scope /\ Fellows(p, q)
    BY <1>1 DEF SamePlan, Fellows
<1>3. CASE r \notin Range(p.scope)
  <2>1. SameLocal(graph, graph', r)
      BY <1>1, <1>3, OutsideLocal
  <2>2. i \notin Writers(r) /\ i \notin Writers(r)'
      BY <1>2, <1>3 DEF Writers
  <2>3. r \in torn => r \in torn'
      OBVIOUS
  <2> QED
      BY <1>1, <2>1, <2>2, <2>3, ElsewhereVouches
<1>4. CASE r \in Range(p.scope) /\ q.pc = "failed"
  <2>1. i \in Writers(r) /\ i \notin Writers(r)' /\ r \notin p.met
      BY <1>1, <1>4 DEF Writers, Writes
  <2>2. Writers(r) = {i}
      BY <2>1, OnlyWriter
  <2>3. Writers(r)' = {}
      BY <1>1, <2>1, <2>2 DEF Alone, Writers
  <2>4. r \in torn'
      BY <1>4
  <2> QED
      BY <2>3, <2>4 DEF Vouching
<1>5. CASE r \in Range(p.scope) /\ q.pc = "write"
  <2>1. i \in Writers(r) /\ UNCHANGED torn
      BY <1>1, <1>5 DEF Writers
  <2>2. Writers(r)' = Writers(r)
      BY <1>1, <1>2, <1>5 DEF Alone, Writers
  <2>3. \A j \in Writers(r) : j # i => proc'[j] = proc[j] /\ Fellows(p, proc[j])
      BY <1>1, <2>1 DEF Alone, Writers, Overlaps, Alike, Fellows
  <2>4. Orphans(graph, r) \subseteq Wanted(p.files, r)
    <3>1. PICK j \in Writers(r) : Holder(graph, proc[j], r) \/ Settled(graph, proc[j], r)
        BY <2>1 DEF InHand
    <3>2. proc[j].files = p.files
        BY <2>3, <3>1 DEF Fellows
    <3> QED
        BY <3>1, <3>2 DEF Holder, Settled
  <2>5. ASSUME NEW w, Fellows(p, w)
        PROVE  /\ Cleared(graph, w, r) => Cleared(graph', w, r)
               /\ Spared(graph, w, r) => Spared(graph', w, r)
      BY <1>1, <2>5, FellowsKeep
  <2>6. \A j \in Writers(r) : Cleared(graph, proc[j], r) /\ (r \notin torn => Spared(graph, proc[j], r))
      BY DEF Vouching
  <2>7. ASSUME NEW j \in Writers(r)
        PROVE  Cleared(graph', proc'[j], r) /\ (r \notin torn' => Spared(graph', proc'[j], r))
    <3>1. CASE j # i
        BY <2>1, <2>3, <2>5, <2>6, <3>1
    <3>2. CASE j = i
      <4>1. Cleared(graph', q, r)
          BY <1>1, <2>1, <2>4, <2>6, ClearedGoes
      <4>2. Spared(graph, p, r) => Spared(graph, q, r)
          BY <1>2 DEF Spared, Fellows
      <4>3. r \notin torn' => Spared(graph', q, r)
          BY <1>2, <2>1, <2>5, <2>6, <4>2
      <4> QED
          BY <3>2, <4>1, <4>3
    <3> QED
        BY <3>1, <3>2
  <2>8. \E j \in Writers(r) : Built(graph', proc'[j], r) \/ Whole(graph', proc'[j], r)
    <3>1. PICK j \in Writers(r) : Built(graph, proc[j], r) \/ Whole(graph, proc[j], r)
        BY <2>1 DEF Vouching
    <3>2. /\ Built(graph, p, r) => Built(graph', q, r)
          /\ \A w : Fellows(p, w) /\ (Built(graph, w, r) \/ Whole(graph, w, r))
                 => Built(graph', w, r) \/ Whole(graph', w, r) \/ Built(graph', q, r)
        BY <1>1, <1>5, BuiltGoes
    <3>3. CASE j # i
      <4>1. proc'[j] = proc[j] /\ Fellows(p, proc[j])
          BY <2>3, <3>1, <3>3
      <4>2. Built(graph', proc[j], r) \/ Whole(graph', proc[j], r) \/ Built(graph', q, r)
          BY <3>1, <3>2, <4>1
      <4> QED
          BY <2>1, <3>1, <4>1, <4>2
    <3>4. CASE j = i /\ Built(graph, p, r)
        BY <2>1, <3>2, <3>4
    <3>5. CASE j = i /\ Whole(graph, p, r)
      <4>1. Whole(graph, q, r)
          BY <1>2, <3>5 DEF Whole, Done, Fellows
      <4>2. Built(graph', q, r) \/ Whole(graph', q, r)
          BY <1>2, <3>2, <4>1
      <4> QED
          BY <2>1, <4>2
    <3> QED
        BY <3>1, <3>3, <3>4, <3>5
  <2>9. Writers(r) # {}
      BY <2>1
  <2> QED
      BY <2>2, <2>7, <2>8, <2>9 DEF Vouching
<1> QED
    BY <1>1, <1>3, <1>4, <1>5

\* At first there is no file.
LEMMA HashInit == Init => HashInv
<1> SUFFICES ASSUME Init PROVE HashInv
    OBVIOUS
<1>1. \A r : Writers(r) = {}
  <2>1. \A i \in Indexers : proc[i].pc = "idle"
      BY DEF Init, NoRun
  <2> QED
      BY <2>1 DEF Writers
<1>2. DOMAIN graph.node = {} /\ graph.edge = {}
    BY DEF Init, EmptyGraph
<1>3. Owned(graph)
    BY <1>2 DEF Owned
<1>4. \A r : Good(graph, r, {})
    BY <1>2 DEF Good, In
<1> QED
    BY <1>1, <1>3, <1>4 DEF HashInv, Vouching

\* And no step takes from a file what its hash vouches for.
LEMMA HashNext ==
    ASSUME TypeInv, OrphanInv, HashInv, [Next]_vars
    PROVE  HashInv'
<1>0. RunsOK /\ GraphOK(graph) /\ Owned(graph)
    BY DEF TypeInv, HashInv
<1>1. CASE UNCHANGED <<graph, proc, tangled, torn>>
  <2>1. \A r : Writers(r)' = Writers(r)
      BY <1>1 DEF Writers
  <2> QED
      BY <1>1, <2>1 DEF HashInv, Vouching, Owned, NodeOwned
<1>2. ASSUME NEW i \in Indexers, Notes(i) PROVE HashInv'
  <2>1. tangled \subseteq tangled'
      BY <1>2 DEF Notes, Reads, Begins, Writes, WriteOn, Returns, Dead
  <2>2. Owned(graph')
    <3>1. CASE UNCHANGED graph
        BY <1>0, <3>1
    <3>2. CASE Writes(i)
      <4>1. Ready(proc[i]) /\ Goes(graph, graph', proc[i], proc'[i])
          BY <1>0, <3>2, AtStatementReady DEF Writes, WriteOn, RunsOK
      <4> QED
          BY <1>0, <4>1, GoesOwned
    <3> QED
        BY <1>2, <3>1, <3>2 DEF Notes, Reads, Begins, Returns, Dead, Ends
  <2>3. ASSUME NEW r \in Repos \ tangled' PROVE Vouching(graph, r)'
    <3>1. Overlaps(r) /\ InHand(graph, r) /\ Vouching(graph, r)
        BY <2>1, <2>3 DEF OrphanInv, HashInv
    <3>2. CASE Reads(i) /\ UNCHANGED torn
        BY <1>0, <3>1, <3>2, ReadsVouch
    <3>3. CASE Begins(i) /\ UNCHANGED torn
        BY <1>0, <2>3, <3>1, <3>3, BeginsVouch
    <3>4. CASE /\ Writes(i)
               /\ proc'[i].pc = "write" => UNCHANGED torn
               /\ proc'[i].pc # "write" => torn' = torn \cup Range(proc[i].scope)
        BY <1>0, <2>3, <3>1, <3>4, WritesVouch
    <3>5. CASE /\ Returns(i)
               /\ torn' = IF proc[i].mode = "full" THEN torn \ Range(proc[i].scope) ELSE torn
        BY <1>0, <3>1, <3>5, ReturnsVouch
    <3>6. CASE Dead(i) /\ torn' = torn \cup Range(proc[i].scope)
        BY <1>0, <2>3, <3>1, <3>6, DeadVouches
    <3> QED
        BY <1>2, <3>2, <3>3, <3>4, <3>5, <3>6 DEF Notes
  <2> QED
      BY <2>2, <2>3 DEF HashInv
<1> QED
    BY <1>1, <1>2, MovesNoted

-----------------------------------------------------------------------------
(***************************************************************************)
(* What a set of files defines, file by file.                               *)
(***************************************************************************)
\* The edges of a file that each statement writes.
LEMMA PartEdgesAre ==
    /\ \A q, c : PartEdges(q, c, "Modules") = {ModuleEdge(q, c)}
    /\ \A q, c : PartEdges(q, c, "Symbols") = {DefineEdge(q, s) : s \in Parse[q][c].syms}
                                               \cup {EncloseEdge(q, e) : e \in Nestings(q, c)}
    /\ \A q, c : PartEdges(q, c, "Chunks") = {ChunkEdge(q, k) : k \in Parse[q][c].chunks}
BY DEF PartEdges, FeatureLabels, HttpLabels, KafkaLabels

\* The features of files are those of one file each.
LEMMA FeaturesAre ==
    ASSUME NEW F, NEW kinds, NEW x \in FeaturesOf(F, kinds)
    PROVE  \E q \in DOMAIN F : \E ft \in Rec(F, q).feats : ft.kind \in kinds /\ x = <<q, ft>>
BY DEF FeaturesOf

\* The edges of files are those that statements write for one file each.
LEMMA EdgesOfFile ==
    ASSUME NEW F, NEW e \in LocalEdges(F)
    PROVE  \E q \in DOMAIN F, op \in PartOps : e \in PartEdges(q, F[q], op)
<1>1. \/ \E q \in DOMAIN F : e \in {DefineEdge(q, s) : s \in Rec(F, q).syms}
      \/ \E q \in DOMAIN F : e \in {ChunkEdge(q, k) : k \in Rec(F, q).chunks}
      \/ \E q \in DOMAIN F : e = ModuleEdge(q, F[q])
      \/ \E x \in FeaturesOf(F, FeatureLabels) :
            /\ x[2].owner \in Rec(F, x[1]).syms
            /\ e = <<SymbolNode(RepoOf[x[1]], x[2].owner), OwnerRel(x[2].kind), FeatureNode(x[1], x[2])>>
      \/ \E q \in DOMAIN F : e \in {EncloseEdge(q, x) : x \in Nestings(q, F[q])}
      \/ \E x \in FeaturesOf(F, KafkaLabels) :
            e = <<FeatureNode(x[1], x[2]), TopicRel(x[2].kind), TopicNode(x[2].key)>>
    BY DEF LocalEdges, DefineEdge, ChunkEdge, ModuleEdge, EncloseEdge, Nestings, Rec
<1>2. CASE \E q \in DOMAIN F : e \in {DefineEdge(q, s) : s \in Rec(F, q).syms}
  <2>1. \A q : {DefineEdge(q, s) : s \in Rec(F, q).syms} \subseteq PartEdges(q, F[q], "Symbols")
      BY PartEdgesAre DEF Rec
  <2> QED
      BY <1>2, <2>1 DEF PartOps
<1>3. CASE \E q \in DOMAIN F : e \in {ChunkEdge(q, k) : k \in Rec(F, q).chunks}
  <2>1. \A q : {ChunkEdge(q, k) : k \in Rec(F, q).chunks} \subseteq PartEdges(q, F[q], "Chunks")
      BY PartEdgesAre DEF Rec
  <2> QED
      BY <1>3, <2>1 DEF PartOps
<1>4. CASE \E q \in DOMAIN F : e = ModuleEdge(q, F[q])
  <2>1. \A q : ModuleEdge(q, F[q]) \in PartEdges(q, F[q], "Modules")
      BY PartEdgesAre
  <2> QED
      BY <1>4, <2>1 DEF PartOps
<1>5. CASE \E q \in DOMAIN F : e \in {EncloseEdge(q, x) : x \in Nestings(q, F[q])}
  <2>1. \A q : {EncloseEdge(q, x) : x \in Nestings(q, F[q])} \subseteq PartEdges(q, F[q], "Symbols")
      BY PartEdgesAre
  <2> QED
      BY <1>5, <2>1 DEF PartOps
<1>6. CASE \E x \in FeaturesOf(F, FeatureLabels) :
            /\ x[2].owner \in Rec(F, x[1]).syms
            /\ e = <<SymbolNode(RepoOf[x[1]], x[2].owner), OwnerRel(x[2].kind), FeatureNode(x[1], x[2])>>
  <2>1. PICK x \in FeaturesOf(F, FeatureLabels) :
            /\ x[2].owner \in Rec(F, x[1]).syms
            /\ e = <<SymbolNode(RepoOf[x[1]], x[2].owner), OwnerRel(x[2].kind), FeatureNode(x[1], x[2])>>
      BY <1>6
  <2>2. PICK q \in DOMAIN F : \E ft \in Rec(F, q).feats : ft.kind \in FeatureLabels /\ x = <<q, ft>>
      BY FeaturesAre
  <2>3. PICK ft \in Rec(F, q).feats : ft.kind \in FeatureLabels /\ x = <<q, ft>>
      BY <2>2
  <2>4. x[1] = q /\ x[2] = ft
      BY <2>3
  <2>5. e = OwnerEdge(q, ft) /\ ft \in OwnedFeats(q, F[q], ft.kind)
      BY <2>1, <2>3, <2>4 DEF OwnerEdge, OwnedFeats, Feats, Rec
  <2>6. ASSUME NEW op \in FeatureLabels PROVE \A y \in OwnedFeats(q, F[q], op) : OwnerEdge(q, y) \in PartEdges(q, F[q], op)
      BY DEF PartEdges, FeatureLabels, HttpLabels, KafkaLabels
  <2>7. e \in PartEdges(q, F[q], ft.kind)
      BY <2>3, <2>5, <2>6
  <2> QED
      BY <2>2, <2>3, <2>7 DEF PartOps
<1>7. CASE \E x \in FeaturesOf(F, KafkaLabels) :
            e = <<FeatureNode(x[1], x[2]), TopicRel(x[2].kind), TopicNode(x[2].key)>>
  <2>1. PICK x \in FeaturesOf(F, KafkaLabels) :
            e = <<FeatureNode(x[1], x[2]), TopicRel(x[2].kind), TopicNode(x[2].key)>>
      BY <1>7
  <2>2. PICK q \in DOMAIN F : \E ft \in Rec(F, q).feats : ft.kind \in KafkaLabels /\ x = <<q, ft>>
      BY FeaturesAre
  <2>3. PICK ft \in Rec(F, q).feats : ft.kind \in KafkaLabels /\ x = <<q, ft>>
      BY <2>2
  <2>4. x[1] = q /\ x[2] = ft
      BY <2>3
  <2>5. e = TopicEdge(q, ft) /\ ft \in Feats(q, F[q], ft.kind)
      BY <2>1, <2>3, <2>4 DEF TopicEdge, Feats, Rec
  <2>6. ASSUME NEW op \in KafkaLabels PROVE \A y \in Feats(q, F[q], op) : TopicEdge(q, y) \in PartEdges(q, F[q], op)
      BY DEF PartEdges, FeatureLabels, HttpLabels, KafkaLabels
  <2>7. e \in PartEdges(q, F[q], ft.kind)
      BY <2>3, <2>5, <2>6
  <2> QED
      BY <2>2, <2>3, <2>7 DEF PartOps, FeatureLabels
<1> QED
    BY <1>1, <1>2, <1>3, <1>4, <1>5, <1>6, <1>7

\* The nodes of files are written for one file each, or are what their edges lead to.
LEMMA NodesOfFile ==
    ASSUME NEW F, NEW n \in DerivedNodes(F)
    PROVE  \E q \in DOMAIN F, op \in PartOps :
              n \in PartNodes(q, F[q], op) \/ \E e \in PartEdges(q, F[q], op) : n = e[3]
<1>1. \/ \E q \in DOMAIN F : n = ModuleNode(RepoOf[q], Rec(F, q).module)
      \/ \E q \in DOMAIN F : \E s \in Rec(F, q).syms : n = SymbolNode(RepoOf[q], s)
      \/ \E q \in DOMAIN F : \E k \in Rec(F, q).chunks : n = ChunkNode(q, k)
      \/ \E x \in FeaturesOf(F, FeatureLabels) : n = FeatureNode(x[1], x[2])
    BY DEF DerivedNodes
<1>2. CASE \E q \in DOMAIN F : n = ModuleNode(RepoOf[q], Rec(F, q).module)
  <2>1. \A q : ModuleEdge(q, F[q]) \in PartEdges(q, F[q], "Modules")
      BY PartEdgesAre
  <2>2. \A q : ModuleEdge(q, F[q])[3] = ModuleNode(RepoOf[q], Rec(F, q).module)
      BY DEF ModuleEdge, Rec
  <2> QED
      BY <1>2, <2>1, <2>2 DEF PartOps
<1>3. CASE \E q \in DOMAIN F : \E s \in Rec(F, q).syms : n = SymbolNode(RepoOf[q], s)
  <2>1. \A q : \A s \in Rec(F, q).syms : DefineEdge(q, s) \in PartEdges(q, F[q], "Symbols")
      BY PartEdgesAre DEF Rec
  <2>2. \A q, s : DefineEdge(q, s)[3] = SymbolNode(RepoOf[q], s)
      BY DEF DefineEdge
  <2> QED
      BY <1>3, <2>1, <2>2 DEF PartOps
<1>4. CASE \E q \in DOMAIN F : \E k \in Rec(F, q).chunks : n = ChunkNode(q, k)
  <2>1. \A q : \A k \in Rec(F, q).chunks : ChunkEdge(q, k) \in PartEdges(q, F[q], "Chunks")
      BY PartEdgesAre DEF Rec
  <2>2. \A q, k : ChunkEdge(q, k)[3] = ChunkNode(q, k)
      BY DEF ChunkEdge
  <2> QED
      BY <1>4, <2>1, <2>2 DEF PartOps
<1>5. CASE \E x \in FeaturesOf(F, FeatureLabels) : n = FeatureNode(x[1], x[2])
  <2>1. PICK x \in FeaturesOf(F, FeatureLabels) : n = FeatureNode(x[1], x[2])
      BY <1>5
  <2>2. PICK q \in DOMAIN F : \E ft \in Rec(F, q).feats : ft.kind \in FeatureLabels /\ x = <<q, ft>>
      BY FeaturesAre
  <2>3. PICK ft \in Rec(F, q).feats : ft.kind \in FeatureLabels /\ x = <<q, ft>>
      BY <2>2
  <2>4. x[1] = q /\ x[2] = ft
      BY <2>3
  <2>5. n = FeatureNode(q, ft) /\ ft \in Feats(q, F[q], ft.kind)
      BY <2>1, <2>3, <2>4 DEF Feats, Rec
  <2>6. n \in PartNodes(q, F[q], ft.kind)
      BY <2>3, <2>5 DEF PartNodes
  <2> QED
      BY <2>2, <2>3, <2>6 DEF PartOps
<1> QED
    BY <1>1, <1>2, <1>3, <1>4, <1>5

\* The files of a repository that a graph holds.
LEMMA FilesHeld ==
    ASSUME NEW g, GraphOK(g), NEW r
    PROVE  LET F == GraphFiles(g, {r}) IN
           \A q \in DOMAIN F : q \in Paths /\ RepoOf[q] = r /\ In(g, q) /\ F[q] = g.node[FileNode(q)]
<1> DEFINE F == GraphFiles(g, {r})
<1>1. DOMAIN F = {n[3] : n \in {m \in Labelled(g, {"File"}) : m[2] \in {r}}}
    BY DEF GraphFiles
<1>2. \A q \in DOMAIN F : F[q] = g.node[FileNode(q)]
    BY DEF GraphFiles
<1>3. ASSUME NEW q \in DOMAIN F PROVE q \in Paths /\ RepoOf[q] = r /\ In(g, q)
  <2>1. PICK n \in Labelled(g, {"File"}) : n[2] = r /\ n[3] = q
      BY <1>1
  <2>2. n \in DOMAIN g.node /\ n[1] = "File"
      BY DEF Labelled
  <2>3. q \in Paths /\ n = FileNode(q)
      BY <2>1, <2>2 DEF GraphOK, NodeOK
  <2>4. FileNode(q)[2] = RepoOf[q]
      BY DEF FileNode
  <2> QED
      BY <2>1, <2>2, <2>3, <2>4 DEF In
<1> HIDE DEF F
<1> QED
    BY <1>2, <1>3 DEF F

\* Where every hash vouches for its file, the graph is complete.
LEMMA GoodComplete ==
    ASSUME Separate, NEW g, GraphOK(g), NEW r, Good(g, r, {})
    PROVE  Complete(g, GraphFiles(g, {r}))
<1> DEFINE F == GraphFiles(g, {r})
<1>1. \A q \in DOMAIN F : q \in Paths /\ RepoOf[q] = r /\ In(g, q) /\ F[q] = g.node[FileNode(q)]
    BY FilesHeld
<1> HIDE DEF F
<1>2. \A q \in DOMAIN F : \A op \in PartOps :
          PartNodes(q, F[q], op) \subseteq DOMAIN g.node /\ PartEdges(q, F[q], op) \subseteq g.edge
  <2>1. \A q \in DOMAIN F : Vouched(g, q, F[q])
      BY <1>1 DEF Good
  <2> QED
      BY <2>1 DEF Vouched, Has
<1>3. ASSUME NEW e \in LocalEdges(F) PROVE e \in g.edge
    BY <1>2, EdgesOfFile
<1>4. ASSUME NEW n \in DerivedNodes(F) PROVE n \in DOMAIN g.node
  <2>1. PICK q \in DOMAIN F, op \in PartOps :
            n \in PartNodes(q, F[q], op) \/ \E e \in PartEdges(q, F[q], op) : n = e[3]
      BY NodesOfFile
  <2>2. \A e \in g.edge : e[3] \in DOMAIN g.node
      BY DEF GraphOK, NoDangling, Exists
  <2> QED
      BY <1>2, <2>1, <2>2
<1>5. Complete(g, F)
    BY <1>3, <1>4 DEF Complete
<1> QED
    BY <1>5 DEF F

\* What the invariant says of the hashes.
LEMMA HashImplied == ASSUME Separate PROVE TypeInv /\ HashInv => HashVouches
<1> SUFFICES ASSUME TypeInv, HashInv,
                    NEW r \in Repos \ (torn \cup tangled),
                    \A i \in Indexers : ~(proc[i].pc = "write" /\ r \in Range(proc[i].scope))
             PROVE  Complete(graph, GraphFiles(graph, {r}))
    BY DEF HashVouches
<1>1. GraphOK(graph) /\ Vouching(graph, r)
    BY DEF TypeInv, HashInv
<1>2. Writers(r) = {}
    BY DEF Writers
<1>3. Good(graph, r, {})
    BY <1>1, <1>2 DEF Vouching
<1> QED
    BY <1>1, <1>3, GoodComplete

\* The invariant holds in every state.
LEMMA Hashed == Spec => [](TypeInv /\ OrphanInv /\ HashInv)
<1>1. Init => OrphanInv /\ HashInv
    BY OrphanInit, HashInit
<1>2. TypeInv /\ OrphanInv /\ HashInv /\ [Next]_vars => OrphanInv' /\ HashInv'
    BY OrphanNext, HashNext
<1> QED
    BY <1>1, <1>2, Typed, PTL DEF Spec

\* The incremental diff skips a file on the strength of its hash, and where no
\* two files of a repository define the same symbol or module it may: what the
\* file with that hash defines is in the graph, after any number of refreshes,
\* deltas, retries and crashes, in whatever order their statements fell, unless
\* a run that died may have left the repository half-written, one is writing
\* it, or two that differed wrote it at once.
THEOREM HashesVouch == ASSUME Separate PROVE Spec => []HashVouches
BY HashImplied, Hashed, PTL

-----------------------------------------------------------------------------
(***************************************************************************)
(* What a run has read.                                                     *)
(***************************************************************************)
\* The run goes on as it was, but for the others that it has met.
Stays(p, q) ==
    /\ q.pc = p.pc /\ q.mode = p.mode /\ q.scope = p.scope /\ q.idx = p.idx /\ q.known = p.known
    /\ q.changed = p.changed /\ q.deleted = p.deleted /\ q.files = p.files /\ q.plan = p.plan /\ q.k = p.k

\* A run starts; there is none any more.
Starts(p, q, scopes) ==
    /\ p.pc # "write" /\ q.scope \in scopes /\ q.idx = 1 /\ q.known = << >> /\ q.files = << >>
    /\ q.pc \in {"fetch", "walk"} /\ (q.mode = "delta" => q.pc = "fetch")
Stops(q) == q.pc = "idle" /\ q.mode = "full" /\ q.scope = << >> /\ q.known = << >> /\ q.files = << >>

\* It reads the hashes of a repository from the graph g, or the files of one.
Fetches(g, p, q) ==
    /\ p.pc = "fetch" /\ q.mode = p.mode /\ q.scope = p.scope /\ q.files = p.files
    /\ q.known = Over(ExistingHashes(g, p.scope[p.idx]), p.known)
    /\ \/ p.idx = Len(p.scope) /\ q.pc = "diff"
       \/ p.idx # Len(p.scope) /\ q.pc = "fetch" /\ q.idx = p.idx + 1
Looks(p, q) ==
    /\ p.pc \in {"diff", "walk"} /\ q.pc \in {"diff", "walk", "write"}
    /\ q.mode = p.mode /\ q.scope = p.scope /\ q.known = p.known
    /\ \A f \in DOMAIN q.files : f \in DOMAIN p.files \/ (f \in Paths /\ RepoOf[f] \in Range(p.scope))

\* It writes, returns or gives up.
GoesOn(p, q) ==
    /\ p.pc = "write" /\ q.pc \in {"write", "done", "failed"} /\ Kept(p, q)

\* What a step does to a run.
Steps(i) ==
    \/ Stays(proc[i], proc'[i])
    \/ Starts(proc[i], proc'[i], Scopes[i])
    \/ Stops(proc'[i])
    \/ Fetches(graph, proc[i], proc'[i])
    \/ Looks(proc[i], proc'[i])
    \/ GoesOn(proc[i], proc'[i])

\* A run that is not changed at all.
LEMMA SameStays == ASSUME NEW i, proc'[i] = proc[i] PROVE Steps(i)
BY DEF Steps, Stays

\* Starting.
LEMMA StartRunSteps ==
    ASSUME RunsOK, NEW i \in Indexers, NEW mode \in Modes, NEW scope \in Scopes[i], NEW sha \in Shas,
           StartRun(i, mode, scope, sha)
    PROVE  Steps(i)
<1> DEFINE q == proc'[i]
           pc == IF mode = "delta" THEN "fetch" ELSE "walk"
<1>1. DOMAIN proc = Indexers /\ proc[i].pc # "write"
    BY DEF RunsOK, StartRun, Running
<1>2. q = [NoRun EXCEPT !.pc = pc, !.mode = mode, !.scope = scope, !.sha = sha]
    BY <1>1 DEF StartRun
<1>3. pc \in {"fetch", "walk"} /\ (mode = "delta" => pc = "fetch")
    OBVIOUS
<1> HIDE DEF pc
<1>4. DOMAIN NoRun = Fields /\ NoRun.idx = 1 /\ NoRun.known = << >> /\ NoRun.files = << >>
    BY DEF NoRun, Fields
<1>5. /\ q.pc = pc /\ q.mode = mode /\ q.scope = scope
      /\ q.idx = 1 /\ q.files = << >> /\ q.known = << >>
    BY <1>2, <1>4 DEF Fields
<1>6. Starts(proc[i], q, Scopes[i])
    BY <1>1, <1>3, <1>5 DEF Starts
<1> QED
    BY <1>6 DEF Steps

\* Fetching the hashes of a repository.
LEMMA FetchHashesSteps ==
    ASSUME RunsOK, GraphOK(graph), NEW i \in Indexers, FetchHashes(i)
    PROVE  Steps(i)
<1> DEFINE p == proc[i]
           q == proc'[i]
           known == Over(ExistingHashes(graph, p.scope[p.idx]), p.known)
           x == [p EXCEPT !.known = known]
<1>1. RunOK(p) /\ p.pc = "fetch" /\ DOMAIN proc = Indexers
    BY DEF RunsOK, FetchHashes
<1>2. q = NextRepo(x, "fetch", "diff")
    BY <1>1 DEF FetchHashes
<1>3. DOMAIN p = Fields
    BY <1>1 DEF RunOK
<1> HIDE DEF known
<1>4. /\ DOMAIN x = Fields /\ x.known = known /\ x.idx = p.idx /\ x.scope = p.scope /\ x.mode = p.mode
      /\ x.files = p.files
    BY <1>3 DEF Fields
<1> HIDE DEF x
<1>5. CASE p.idx = Len(p.scope)
  <2>1. q = [x EXCEPT !.pc = "diff", !.idx = 1]
      BY <1>2, <1>4, <1>5 DEF NextRepo
  <2>2. q.pc = "diff" /\ q.mode = p.mode /\ q.scope = p.scope /\ q.files = p.files /\ q.known = known
      BY <1>4, <2>1 DEF Fields
  <2> QED
      BY <1>1, <1>5, <2>2 DEF Steps, Fetches, known
<1>6. CASE p.idx # Len(p.scope)
  <2>1. q = [x EXCEPT !.pc = "fetch", !.idx = @ + 1]
      BY <1>2, <1>4, <1>6 DEF NextRepo
  <2>2. /\ q.pc = "fetch" /\ q.idx = p.idx + 1 /\ q.mode = p.mode /\ q.scope = p.scope
        /\ q.files = p.files /\ q.known = known
      BY <1>4, <2>1 DEF Fields
  <2> QED
      BY <1>1, <1>6, <2>2 DEF Steps, Fetches, known
<1> QED
    BY <1>5, <1>6

\* The diff of a repository.
LEMMA DiffRepoSteps ==
    ASSUME RunsOK, NEW i \in Indexers, NEW unread \in SUBSET Paths, DiffRepo(i, unread)
    PROVE  Steps(i)
<1> DEFINE p == proc[i]
           q == proc'[i]
           seen == SourceFiles(p.scope[p.idx]) \ unread
           mine == {f \in DOMAIN p.known : RepoOf[f] = p.scope[p.idx]}
           same == {f \in seen \cap mine : p.known[f] = disk[f]}
           changed == p.changed \cup (seen \ same)
           deleted == p.deleted \cup (mine \ seen)
<1>1. RunOK(p) /\ p.pc = "diff" /\ DOMAIN proc = Indexers
    BY DEF RunsOK, DiffRepo
<1>2. q = [p EXCEPT !.changed = changed, !.deleted = deleted, !.pc = "walk"]
    BY <1>1 DEF DiffRepo
<1> HIDE DEF changed, deleted
<1>3. q.pc = "walk" /\ q.mode = p.mode /\ q.scope = p.scope /\ q.known = p.known /\ q.files = p.files
    BY <1>1, <1>2 DEF RunOK, Fields
<1> QED
    BY <1>1, <1>3 DEF Steps, Looks

\* Walking a repository, for the run that does it and for the others.
LEMMA WalkRepoSteps ==
    ASSUME RunsOK, NEW i \in Indexers, NEW unread \in SUBSET Paths, WalkRepo(i, unread)
    PROVE  \A j \in Indexers : Steps(j)
<1> DEFINE p == proc[i]
           r == p.scope[p.idx]
           wanted == IF p.mode = "delta" THEN SourceFiles(r) \cap p.changed ELSE SourceFiles(r)
           parsed == {q \in wanted \ unread : disk[q] \notin Unparsable}
           files == Over(p.files, [q \in parsed |-> disk[q]])
           x == [p EXCEPT !.files = files]
           loop == IF p.mode = "delta" THEN "diff" ELSE "walk"
           read == NextRepo(x, loop, "write")
<1>1. RunOK(p) /\ p.pc = "walk" /\ DOMAIN proc = Indexers
    BY DEF RunsOK, WalkRepo
<1>2. /\ read.pc = "write" => BeginWrite(i, read)
      /\ read.pc # "write" => proc' = [proc EXCEPT ![i] = read]
  <2>1. IF read.pc = "write" THEN BeginWrite(i, read)
        ELSE proc' = [proc EXCEPT ![i] = read] /\ UNCHANGED tangled
      BY DEF WalkRepo
  <2> HIDE DEF read
  <2> QED
      BY <2>1
<1>3. p.pc \in ReadStages
    BY <1>1 DEF ReadStages
<1>4. /\ DOMAIN p = Fields /\ p.idx \in 1..Len(p.scope) /\ Len(p.scope) \in Nat /\ p.scope \in Seq(Repos)
    BY <1>1, <1>3, ReadingOK DEF RunOK
<1>5. \A f \in DOMAIN files : f \in DOMAIN p.files \/ (f \in Paths /\ RepoOf[f] \in Range(p.scope))
  <2>1. parsed \subseteq {f \in Paths : RepoOf[f] = r}
      BY DEF SourceFiles
  <2>2. r \in Range(p.scope)
      BY <1>4 DEF Range
  <2> HIDE DEF parsed, r
  <2>3. DOMAIN files = DOMAIN p.files \cup parsed
      BY DEF Over
  <2> QED
      BY <2>1, <2>2, <2>3
<1> HIDE DEF files
<1>6. /\ DOMAIN x = Fields /\ x.known = p.known /\ x.idx = p.idx /\ x.scope = p.scope /\ x.mode = p.mode
      /\ x.files = files
    BY <1>4 DEF Fields
<1>7. loop \in {"diff", "walk"}
    OBVIOUS
<1> HIDE DEF x, loop
<1>8. /\ DOMAIN read = Fields /\ read.pc \in {loop, "write"}
      /\ read.mode = x.mode /\ read.scope = x.scope /\ read.known = x.known /\ read.files = x.files
    BY <1>4, <1>6, NextRepoIs
<1> HIDE DEF read
<1>9. \A q : q.pc = read.pc /\ q.mode = read.mode /\ q.scope = read.scope /\ q.known = read.known
                /\ q.files = read.files => Looks(p, q)
    BY <1>1, <1>5, <1>6, <1>7, <1>8 DEF Looks
<1>10. CASE read.pc = "write"
  <2> DEFINE writing == {j \in Indexers \ {i} : proc[j].pc = "write"}
             shared(j) == Range(read.scope) \cap Range(proc[j].scope)
             met == UNION {shared(w) : w \in writing}
  <2>1. proc' = [j \in Indexers |->
                 CASE j = i -> [read EXCEPT !.plan = Plan(read), !.met = met]
                   [] j \in writing -> [proc[j] EXCEPT !.met = @ \cup shared(j)]
                   [] OTHER -> proc[j]]
      BY <1>2, <1>10 DEF BeginWrite
  <2>2. Steps(i)
    <3>1. proc'[i] = [read EXCEPT !.plan = Plan(read), !.met = met]
        BY <2>1
    <3> HIDE DEF met
    <3>2. /\ proc'[i].pc = read.pc /\ proc'[i].mode = read.mode /\ proc'[i].scope = read.scope
          /\ proc'[i].known = read.known /\ proc'[i].files = read.files
        BY <1>8, <3>1 DEF Fields
    <3> QED
        BY <1>9, <3>2 DEF Steps
  <2>3. ASSUME NEW j \in Indexers, j # i PROVE Steps(j)
    <3>1. CASE j \notin writing
      <4>1. proc'[j] = proc[j]
          BY <2>1, <2>3, <3>1
      <4> QED
          BY <4>1, SameStays
    <3>2. CASE j \in writing
      <4>1. proc'[j] = [proc[j] EXCEPT !.met = @ \cup shared(j)]
          BY <2>1, <2>3, <3>2
      <4>2. DOMAIN proc[j] = Fields
          BY DEF RunsOK, RunOK
      <4>3. Stays(proc[j], proc'[j])
          BY <4>1, <4>2 DEF Fields, Stays
      <4> QED
          BY <4>3 DEF Steps
    <3> QED
        BY <3>1, <3>2
  <2> QED
      BY <2>2, <2>3
<1>11. CASE read.pc # "write"
  <2>1. proc' = [proc EXCEPT ![i] = read]
      BY <1>2, <1>11
  <2>2. proc'[i] = read /\ \A j \in Indexers \ {i} : proc'[j] = proc[j]
      BY <1>1, <2>1
  <2>3. Steps(i)
      BY <1>9, <2>2 DEF Steps
  <2> QED
      BY <2>2, <2>3, SameStays
<1> QED
    BY <1>10, <1>11

\* A run that writes or ends.
LEMMA WritingSteps ==
    ASSUME RunsOK, NEW i \in Indexers, WriteStep(i) \/ TransientError(i) \/ Finish(i) \/ Crash(i)
    PROVE  Steps(i) /\ \A j \in Indexers \ {i} : proc'[j] = proc[j]
<1>1. CASE WriteStep(i)
  <2>1. WriteOn(i) /\ proc[i].pc = "write"
      BY <1>1, WriteStepIs DEF WriteOn, AtStatement
  <2> QED
      BY <2>1 DEF WriteOn, Steps, GoesOn
<1>2. CASE TransientError(i)
  <2>1. WriteOn(i) /\ proc[i].pc = "write"
      BY <1>2, TransientErrorIs DEF WriteOn, AtStatement
  <2> QED
      BY <2>1 DEF WriteOn, Steps, GoesOn
<1>3. CASE Finish(i)
  <2>1. Ends(i) /\ DOMAIN proc[i] = Fields /\ proc[i].pc = "write" /\ DOMAIN proc = Indexers
      BY <1>3, FinishIs DEF RunsOK, RunOK, Finish
  <2>2. proc'[i] = [proc[i] EXCEPT !.pc = "done"]
      BY <1>3, <2>1 DEF Finish
  <2>3. Kept(proc[i], proc'[i]) /\ proc'[i].pc = "done"
      BY <2>1, <2>2 DEF Fields, Kept, SamePlan
  <2> QED
      BY <2>1, <2>3 DEF Ends, Steps, GoesOn
<1>4. CASE Crash(i)
  <2>1. Ends(i) /\ proc'[i] = NoRun
      BY <1>4, CrashIs DEF Crash, RunsOK
  <2>2. Stops(NoRun)
      BY DEF Stops, NoRun
  <2> QED
      BY <2>1, <2>2 DEF Ends, Steps
<1> QED
    BY <1>1, <1>2, <1>3, <1>4

\* What every step does to every run.
LEMMA EveryStep ==
    ASSUME TypeInv, [Next]_vars, NEW i \in Indexers
    PROVE  Steps(i)
<1>0. RunsOK /\ GraphOK(graph)
    BY DEF TypeInv
<1>1. ASSUME NEW p \in Paths, NEW c \in Contents \cup {Absent}, EditFile(p, c)
      PROVE  Steps(i)
    BY <1>1, SameStays DEF EditFile
<1>2. CASE UNCHANGED vars
    BY <1>2, SameStays DEF vars
<1>3. ASSUME NEW j \in Indexers,
             \/ \E mode \in Modes, scope \in Scopes[j], sha \in Shas : StartRun(j, mode, scope, sha)
             \/ Step(j) \/ Crash(j)
      PROVE  Steps(i)
  <2>0. \A o \in Indexers : o # j /\ (\A w \in Indexers \ {j} : proc'[w] = proc[w]) => Steps(o)
      BY SameStays
  <2>1. CASE \E mode \in Modes, scope \in Scopes[j], sha \in Shas : StartRun(j, mode, scope, sha)
    <3>1. Steps(j)
        BY <1>0, <2>1, StartRunSteps
    <3>2. Reads(j)
        BY <1>0, <2>1, StartRunIs
    <3> QED
        BY <2>0, <3>1, <3>2 DEF Reads
  <2>2. CASE FetchHashes(j)
    <3>1. Steps(j) /\ Reads(j)
        BY <1>0, <2>2, FetchHashesSteps, FetchHashesIs
    <3> QED
        BY <2>0, <3>1 DEF Reads
  <2>3. CASE \E unread \in SUBSET Paths : DiffRepo(j, unread)
    <3>1. Steps(j) /\ Reads(j)
        BY <1>0, <2>3, DiffRepoSteps, DiffRepoIs
    <3> QED
        BY <2>0, <3>1 DEF Reads
  <2>4. CASE \E unread \in SUBSET Paths : WalkRepo(j, unread)
      BY <1>0, <2>4, WalkRepoSteps
  <2>5. CASE WriteStep(j) \/ TransientError(j) \/ Finish(j) \/ Crash(j)
    <3>1. Steps(j) /\ \A w \in Indexers \ {j} : proc'[w] = proc[w]
        BY <1>0, <2>5, WritingSteps
    <3> QED
        BY <2>0, <3>1
  <2> QED
      BY <1>3, <2>1, <2>2, <2>3, <2>4, <2>5 DEF Step
<1> QED
    BY <1>1, <1>2, <1>3 DEF Next

-----------------------------------------------------------------------------
(***************************************************************************)
(* What a delta takes from the files that the diff found unchanged.         *)
(***************************************************************************)
\* The files a repository's commits contain.
LEMMA HashesAre ==
    ASSUME NEW g, GraphOK(g), NEW r
    PROVE  LET K == ExistingHashes(g, r) IN
           /\ \A q \in DOMAIN K : q \in Paths /\ FileNode(q) \in FilesOf(g, r) /\ In(g, q)
                                  /\ K[q] = g.node[FileNode(q)]
           /\ \A q \in Paths : FileNode(q) \in FilesOf(g, r) => q \in DOMAIN K
<1> DEFINE K == ExistingHashes(g, r)
<1>1. DOMAIN K = {n[3] : n \in FilesOf(g, r)} /\ \A q \in DOMAIN K : K[q] = g.node[FileNode(q)]
    BY DEF ExistingHashes, FilesOf, Commits
<1>2. ASSUME NEW n \in FilesOf(g, r) PROVE n[3] \in Paths /\ n = FileNode(n[3]) /\ n \in DOMAIN g.node
  <2>1. PICK e \in g.edge : e[2] = "CONTAINS" /\ e[3] = n
      BY DEF FilesOf, Out
  <2>2. n \in DOMAIN g.node /\ n[1] = "File"
      BY <2>1 DEF GraphOK, NoDangling, EdgeOK, Exists
  <2> QED
      BY <2>2 DEF GraphOK, NodeOK
<1>3. \A q \in Paths : FileNode(q)[3] = q
    BY DEF FileNode
<1> HIDE DEF K
<1>4. \A q \in DOMAIN K : q \in Paths /\ FileNode(q) \in FilesOf(g, r) /\ In(g, q) /\ K[q] = g.node[FileNode(q)]
    BY <1>1, <1>2 DEF In
<1>5. \A q \in Paths : FileNode(q) \in FilesOf(g, r) => q \in DOMAIN K
    BY <1>1, <1>3
<1> QED
    BY <1>4, <1>5 DEF K

\* The hashes a run reads are those of contents that were parsed.
LEMMA HashesParsed ==
    ASSUME NEW g, GraphOK(g), Owned(g), NEW r
    PROVE  Parsed(ExistingHashes(g, r))
<1> DEFINE K == ExistingHashes(g, r)
<1>1. \A q \in DOMAIN K : q \in Paths /\ In(g, q) /\ K[q] = g.node[FileNode(q)]
    BY HashesAre
<1> HIDE DEF K
<1>2. Parsed(K)
    BY <1>1, HashParsed DEF Parsed
<1> QED
    BY <1>2 DEF K

\* So are all that it knows.
KnownInv == \A i \in Indexers : Parsed(proc[i].known)

\* At first nothing is known,
LEMMA KnownInit == Init => KnownInv
<1>1. NoRun.known = << >> /\ DOMAIN << >> = {}
    BY DEF NoRun
<1> QED
    BY <1>1 DEF Init, KnownInv, Parsed

\* and each step leaves what is known.
LEMMA KnownNext ==
    ASSUME TypeInv, Owned(graph), KnownInv, [Next]_vars
    PROVE  KnownInv'
<1>1. ASSUME NEW i \in Indexers PROVE Parsed(proc'[i].known)
  <2>1. Steps(i) /\ Parsed(proc[i].known) /\ GraphOK(graph)
      BY EveryStep DEF KnownInv, TypeInv
  <2>2. CASE proc'[i].known = proc[i].known
      BY <2>1, <2>2
  <2>3. CASE proc'[i].known = << >>
    <3>1. DOMAIN << >> = {}
        OBVIOUS
    <3> QED
        BY <2>3, <3>1 DEF Parsed
  <2>4. CASE Fetches(graph, proc[i], proc'[i])
      BY <2>1, <2>4, HashesParsed, OverParsed DEF Fetches
  <2> QED
      BY <2>1, <2>2, <2>3, <2>4 DEF Steps, Stays, Starts, Stops, Looks, GoesOn, Kept
<1> QED
    BY <1>1 DEF KnownInv

\* Whose the nodes and the edges of files are.
LEMMA DerivedMine ==
    ASSUME NEW F, Parsed(F)
    PROVE  /\ \A n \in FileNodes(F) \cup DerivedNodes(F) : \E q \in DOMAIN F : Mine(n, q, F[q])
           /\ \A e \in LocalEdges(F) : \E q \in DOMAIN F : MineEdge(e, q, F[q])
<1>1. \A q \in DOMAIN F : q \in Paths /\ F[q] \in DOMAIN Parse[q]
    BY DEF Parsed
<1>2. ASSUME NEW q \in DOMAIN F, NEW op \in PartOps
      PROVE  /\ \A n \in PartNodes(q, F[q], op) : Mine(n, q, F[q])
             /\ \A e \in PartEdges(q, F[q], op) : MineEdge(e, q, F[q])
    BY <1>1, PartsMine
<1>3. ASSUME NEW n \in FileNodes(F) PROVE \E q \in DOMAIN F : Mine(n, q, F[q])
    BY DEF FileNodes, Mine
<1>4. ASSUME NEW n \in DerivedNodes(F) PROVE \E q \in DOMAIN F : Mine(n, q, F[q])
  <2>1. PICK q \in DOMAIN F, op \in PartOps :
            n \in PartNodes(q, F[q], op) \/ \E e \in PartEdges(q, F[q], op) : n = e[3]
      BY NodesOfFile
  <2> QED
      BY <1>2, <2>1 DEF MineEdge
<1>5. ASSUME NEW e \in LocalEdges(F) PROVE \E q \in DOMAIN F : MineEdge(e, q, F[q])
    BY <1>2, EdgesOfFile
<1> QED
    BY <1>3, <1>4, <1>5

\* The run is a delta that does not delete the files F.
LeavesAlone(p, F) == p.mode = "delta" /\ DOMAIN F \cap p.deleted = {}

\* What files define is in h if it was in g.
Preserves(g, h, F) ==
    /\ (FileNodes(F) \cup DerivedNodes(F)) \cap DOMAIN g.node \subseteq DOMAIN h.node
    /\ LocalEdges(F) \cap g.edge \subseteq h.edge

\* A statement of a delta takes nothing from files that it does not delete.
LEMMA StatementSpares ==
    ASSUME Separate, NEW g, GraphOK(g), Owned(g), NEW p, Ready(p), p.deleted \subseteq Paths,
           NEW h, h = Apply(g, p.plan[p.k], p), NEW F, Parsed(F), LeavesAlone(p, F)
    PROVE  Preserves(g, h, F)
<1> DEFINE st == p.plan[p.k]
<1>1. st = Stmt(st.op, st.repo) /\ st.op \in AllOps
    BY StatementIs DEF Ready
<1>2. st.op \in ContentOps \/ st.op \in DeleteOps \/ st.op \in LinkOps \cup FlowOps
  <2>1. st.op \in Destructive => st.op \in DeleteOps
      BY RemovesFor DEF LeavesAlone
  <2> QED
      BY <1>1, <2>1 DEF AllOps, OwnOps
<1> HIDE DEF st
<1>3. h = Apply(g, Stmt(st.op, st.repo), p)
    BY <1>1 DEF st
<1>4. CASE st.op \in ContentOps
  <2>1. Adds(g, h, p.files)
      BY <1>3, <1>4, ApplyContent DEF Ready
  <2> QED
      BY <2>1 DEF Adds, Preserves
<1>5. CASE st.op \in LinkOps \cup FlowOps
  <2>1. Linked(g, h)
      BY <1>3, <1>5, ApplyLinks
  <2>2. ASSUME NEW e \in LocalEdges(F) PROVE e[2] \in LocalRels
      BY DerivedMine DEF MineEdge
  <2>3. LinkRels \cap LocalRels = {}
      BY DEF LinkRels, LocalRels, FlowRels
  <2> QED
      BY <2>1, <2>2, <2>3 DEF Linked, Preserves
<1>6. CASE st.op \in DeleteOps
  <2>1. PICK N : /\ Removed(g, h, N)
                 /\ \A n \in N, q \in Paths \ p.deleted : \A c \in DOMAIN Parse[q] : ~ Mine(n, q, c)
      BY <1>3, <1>6, DeleteSpares
  <2>2. \A q \in DOMAIN F : q \in Paths \ p.deleted /\ F[q] \in DOMAIN Parse[q]
      BY DEF Parsed, LeavesAlone
  <2>3. \A n \in N, q \in DOMAIN F : ~ Mine(n, q, F[q])
      BY <2>1, <2>2
  <2>4. ASSUME NEW n \in FileNodes(F) \cup DerivedNodes(F) PROVE n \notin N
      BY <2>3, DerivedMine
  <2>5. ASSUME NEW e \in LocalEdges(F) PROVE e[1] \notin N /\ e[3] \notin N
      BY <2>3, DerivedMine DEF MineEdge
  <2> QED
      BY <2>1, <2>4, <2>5 DEF Removed, Preserves
<1> QED
    BY <1>2, <1>4, <1>5, <1>6

\* No statement of a delta takes anything from the files the diff found
\* unchanged, neither a node nor an edge of what they define, whatever the
\* graph, the other runs and the errors before: deleting a file takes nothing
\* from another where no two files of a repository define the same symbol or
\* module, and what is written replaces nothing.
THEOREM DeltaSpares == ASSUME Separate PROVE Spec => UnchangedUntouched
<1>1. TypeInv /\ Owned(graph) /\ KnownInv /\ [Next]_vars =>
        [\A i \in Indexers : LET p == proc[i]
                                 F == Restrict(p.known, DOMAIN p.known \ (p.changed \cup p.deleted))
                             IN
            p.pc = "write" /\ p.mode = "delta" /\ proc'[i] # p
                => /\ (FileNodes(F) \cup DerivedNodes(F)) \cap DOMAIN graph.node \subseteq DOMAIN graph'.node
                   /\ LocalEdges(F) \cap graph.edge \subseteq graph'.edge]_vars
  <2> SUFFICES ASSUME TypeInv, Owned(graph), KnownInv, [Next]_vars, NEW i \in Indexers,
                      proc[i].pc = "write", proc[i].mode = "delta", proc'[i] # proc[i],
                      NEW F, F = Restrict(proc[i].known,
                                     DOMAIN proc[i].known \ (proc[i].changed \cup proc[i].deleted))
               PROVE  Preserves(graph, graph', F)
      BY DEF Preserves
  <2>1. RunsOK /\ GraphOK(graph) /\ Parsed(proc[i].known) /\ RunOK(proc[i])
      BY DEF TypeInv, RunsOK, KnownInv
  <2>2. Parsed(F) /\ DOMAIN F \cap proc[i].deleted = {}
      BY <2>1 DEF Restrict, Parsed
  <2>3. CASE UNCHANGED graph
      BY <2>3 DEF Preserves
  <2>4. CASE Writes(i)
    <3>1. Ready(proc[i]) /\ Goes(graph, graph', proc[i], proc'[i]) /\ proc[i].deleted \subseteq Paths
        BY <2>1, <2>4, AtStatementReady DEF Writes, WriteOn, RunOK
    <3>2. CASE graph' = graph
        BY <3>2 DEF Preserves
    <3>3. CASE graph' = Apply(graph, proc[i].plan[proc[i].k], proc[i])
      <4> DEFINE p == proc[i]
      <4>1. /\ Ready(p) /\ p.deleted \subseteq Paths /\ LeavesAlone(p, F)
            /\ graph' = Apply(graph, p.plan[p.k], p)
          BY <2>2, <3>1, <3>3 DEF LeavesAlone
      <4> HIDE DEF p
      <4> QED
          BY <2>1, <2>2, <4>1, StatementSpares
    <3> QED
        BY <3>1, <3>2, <3>3 DEF Goes
  <2>5. UNCHANGED graph \/ Writes(i)
      BY Moves DEF Reads, Begins, Writes, WriteOn, Returns, Dead, Ends
  <2> QED
      BY <2>3, <2>4, <2>5
<1>2. TypeInv /\ Owned(graph) /\ KnownInv /\ [Next]_vars => KnownInv'
    BY KnownNext
<1>3. HashInv => Owned(graph)
    BY DEF HashInv
<1> QED
    BY <1>1, <1>2, <1>3, KnownInit, Hashed, PTL DEF Spec, UnchangedUntouched

-----------------------------------------------------------------------------
(***************************************************************************)
(* What a delta that nobody disturbs knows of the graph.                    *)
(***************************************************************************)
\* The hashes K are those of the files that the graph g holds of repositories S.
Fresh(g, K, S) ==
    /\ \A q \in DOMAIN K : q \in Paths /\ RepoOf[q] \in S /\ HashIs(g, q, K[q])
    /\ \A q \in Paths : RepoOf[q] \in S /\ In(g, q) => q \in DOMAIN K

\* So are those that the run p knows, but for the files it deletes and writes.
Sparing(g, p) ==
    /\ \A q \in DOMAIN p.known :
          /\ q \in Paths /\ RepoOf[q] \in Range(p.scope)
          /\ q \notin p.deleted /\ q \notin DOMAIN p.files => HashIs(g, q, p.known[q])
    /\ \A q \in Paths : RepoOf[q] \in Range(p.scope) /\ In(g, q)
          => q \in DOMAIN p.known \/ q \in DOMAIN p.files

\* The repositories whose hashes the run has fetched.
Fetched(p) == {p.scope[j] : j \in 1..(p.idx - 1)}

\* What a delta knows at each stage.
KnowsOf(g, p) ==
    /\ p.pc = "fetch" => Fresh(g, p.known, Fetched(p))
    /\ p.pc \in {"diff", "walk"} => Fresh(g, p.known, Range(p.scope))
    /\ p.pc = "write" => Sparing(g, p)
Knows(g, p) == p.mode = "delta" => KnowsOf(g, p)

\* The files of a run are of its scope; the scope is one of the indexer's.
FilesScoped(p) == \A q \in DOMAIN p.files : q \in Paths /\ RepoOf[q] \in Range(p.scope)
ScopeOf(i) == proc[i].scope = << >> \/ proc[i].scope \in Scopes[i]

\* No run meets another, and what each knows is so.
ApartInv ==
    /\ \A i \in Indexers : ScopeOf(i) /\ FilesScoped(proc[i])
    /\ tangled = {} /\ \A i \in Indexers : proc[i].pc = "write" => proc[i].met = {}
    /\ \A i \in Indexers : Knows(graph, proc[i])

\* Hashes that are fresh stay so where nothing changes,
LEMMA FreshSame ==
    ASSUME NEW g, NEW h, NEW S, \A r \in S : SameLocal(g, h, r), NEW K, Fresh(g, K, S)
    PROVE  Fresh(h, K, S)
<1>1. ASSUME NEW q, RepoOf[q] \in S
      PROVE  (In(g, q) <=> In(h, q)) /\ (In(g, q) => h.node[FileNode(q)] = g.node[FileNode(q)])
    BY <1>1, HashSame
<1>2. \A q, c : RepoOf[q] \in S /\ HashIs(g, q, c) => HashIs(h, q, c)
    BY <1>1 DEF HashIs
<1> QED
    BY <1>1, <1>2 DEF Fresh

\* and so do those that a run spares.
LEMMA SparingSame ==
    ASSUME NEW g, NEW h, NEW p, \A r \in Range(p.scope) : SameLocal(g, h, r), Sparing(g, p)
    PROVE  Sparing(h, p)
<1> DEFINE S == Range(p.scope)
<1> HIDE DEF S
<1>1. ASSUME NEW q, RepoOf[q] \in S
      PROVE  (In(g, q) <=> In(h, q)) /\ (In(g, q) => h.node[FileNode(q)] = g.node[FileNode(q)])
    BY <1>1, HashSame DEF S
<1>2. \A q, c : RepoOf[q] \in S /\ HashIs(g, q, c) => HashIs(h, q, c)
    BY <1>1 DEF HashIs
<1> QED
    BY <1>1, <1>2 DEF Sparing, S

\* So a run knows what it knew, if its repositories are left alone.
LEMMA KnowsSame ==
    ASSUME NEW g, NEW h, NEW p, RunOK(p), \A r \in Range(p.scope) : SameLocal(g, h, r), Knows(g, p)
    PROVE  Knows(h, p)
<1>1. p.pc = "fetch" => Fetched(p) \subseteq Range(p.scope)
  <2>1. p.pc = "fetch" => p.idx \in 1..Len(p.scope) /\ p.scope \in Seq(Repos)
      BY DEF RunOK
  <2> QED
      BY <2>1 DEF Fetched, Range
<1>2. p.pc = "fetch" /\ Fresh(g, p.known, Fetched(p)) => Fresh(h, p.known, Fetched(p))
    BY <1>1, FreshSame
<1>3. Fresh(g, p.known, Range(p.scope)) => Fresh(h, p.known, Range(p.scope))
    BY FreshSame
<1>4. Sparing(g, p) => Sparing(h, p)
    BY SparingSame
<1> QED
    BY <1>2, <1>3, <1>4 DEF Knows, KnowsOf

\* Fetching a repository of which clearing reaches every file.
LEMMA FetchFresh ==
    ASSUME NEW g, GraphOK(g), NEW S, NEW K, Fresh(g, K, S), NEW r \in Repos, Orphans(g, r) = {},
           NEW L, L = Over(ExistingHashes(g, r), K), NEW T, T = S \cup {r}
    PROVE  Fresh(g, L, T)
<1> DEFINE E == ExistingHashes(g, r)
<1>1. /\ \A q \in DOMAIN E : q \in Paths /\ FileNode(q) \in FilesOf(g, r) /\ In(g, q)
                             /\ E[q] = g.node[FileNode(q)]
      /\ \A q \in Paths : FileNode(q) \in FilesOf(g, r) => q \in DOMAIN E
    BY HashesAre
<1>2. Kind(FilesOf(g, r), r, "File")
    BY ReachedOK
<1>3. \A q : FileNode(q)[1] = "File" /\ FileNode(q)[2] = RepoOf[q]
    BY DEF FileNode
<1>4. ASSUME NEW q \in Paths, RepoOf[q] = r, In(g, q) PROVE FileNode(q) \in FilesOf(g, r)
  <2>1. FileNode(q) \in Held(g, r)
      BY <1>3, <1>4 DEF Held, In
  <2>2. FileNode(q) \in Reached(g, r)
      BY <2>1 DEF Orphans
  <2>3. Kind(Out(g, FilesOf(g, r), "DEFINES"), r, "Symbol") /\ Kind(Out(g, FilesOf(g, r), "HAS_CHUNK"), r, "Chunk")
    <3>1. Within(FilesOf(g, r), r)
        BY <1>2 DEF Kind, Within
    <3> QED
        BY <3>1, OutOK
  <2> QED
      BY <1>3, <2>2, <2>3 DEF Reached, WithContents, Kind
<1>5. \A q \in DOMAIN E : RepoOf[q] = r
    BY <1>1, <1>2, <1>3 DEF Kind
<1>6. /\ DOMAIN L = DOMAIN E \cup DOMAIN K
      /\ \A q \in DOMAIN E : L[q] = E[q]
      /\ \A q \in DOMAIN K \ DOMAIN E : L[q] = K[q]
    BY DEF Over
<1> HIDE DEF E
<1>7. ASSUME NEW q \in DOMAIN L PROVE q \in Paths /\ RepoOf[q] \in T /\ HashIs(g, q, L[q])
  <2>1. CASE q \in DOMAIN E
      BY <1>1, <1>5, <1>6, <2>1 DEF HashIs
  <2>2. CASE q \in DOMAIN K \ DOMAIN E
      BY <1>6, <2>2 DEF Fresh
  <2> QED
      BY <1>6, <2>1, <2>2
<1>8. ASSUME NEW q \in Paths, RepoOf[q] \in T, In(g, q) PROVE q \in DOMAIN L
    BY <1>1, <1>4, <1>6, <1>8 DEF Fresh
<1> QED
    BY <1>7, <1>8 DEF Fresh

\* What a run spares that begins to write.
LEMMA FreshSparing ==
    ASSUME NEW g, NEW p, NEW q, q.known = p.known, q.scope = p.scope,
           Fresh(g, p.known, Range(p.scope))
    PROVE  Sparing(g, q)
BY DEF Fresh, Sparing

\* Deleting files of a repository spares the others.
LEMMA DeleteKeepsFiles ==
    ASSUME NEW g, GraphOK(g), NEW p, NEW r, NEW op \in DeleteOps, NEW h, h = Apply(g, Stmt(op, r), p),
           NEW q \in Paths, q \notin p.deleted, In(g, q)
    PROVE  In(h, q) /\ h.node[FileNode(q)] = g.node[FileNode(q)]
<1> DEFINE f == FileNode(q)
<1>1. f[1] = "File" /\ f[2] = RepoOf[q] /\ f[3] = q
    BY DEF FileNode
<1>2. CASE op = "DeleteFiles"
  <2> DEFINE P == DeletedIn(p, r)
             A == FilesAt(g, P)
  <2>1. h = DeleteFiles(g, P)
      BY <1>2 DEF Apply, Stmt, FeatureLabels, HttpLabels, KafkaLabels
  <2>2. \A x \in P : RepoOf[x] = r
      BY DEF DeletedIn
  <2>3. Kind(A, r, "File")
      BY <2>2, FilesAtOK
  <2>4. Kind(Out(g, A, "DEFINES"), r, "Symbol") /\ Kind(Out(g, A, "HAS_CHUNK"), r, "Chunk")
    <3>1. Within(A, r)
        BY <2>3 DEF Kind, Within
    <3> QED
        BY <3>1, OutOK
  <2>5. f \notin A
      BY <1>1 DEF FilesAt, DeletedIn
  <2>6. f \notin WithContents(g, A)
      BY <1>1, <2>4, <2>5 DEF WithContents, Kind
  <2>7. Removed(g, h, WithContents(g, A))
      BY <2>1, DeleteFilesIs
  <2> QED
      BY <2>6, <2>7 DEF Removed, In
<1>3. CASE op \in {"DeleteFeatures", "DeleteModules"}
  <2>1. op \in AllOps \ (KeyOps \cup {"ClearRepo", "DeleteFiles"})
      BY <1>3 DEF AllOps, KeyOps, OwnOps, Destructive, DeleteOps
  <2>2. PICK N : Removed(g, h, N)
    <3>1. op \in Destructive
        BY DEF Destructive
    <3> QED
        BY <3>1, ApplyRemoves
  <2>3. h \in SideDeletes(g, r, DeletedIn(p, r))
      BY <1>3 DEF Apply, Stmt, SideDeletes, FeatureLabels, HttpLabels, KafkaLabels
  <2>4. SamePart(g, h, RepoOf[q])
      BY <2>3, SideDeletesQuiet DEF Quiet
  <2>5. f \in DOMAIN h.node
      BY <1>1, <2>4 DEF SamePart, Core, In
  <2> QED
      BY <2>2, <2>5 DEF Removed, In
<1> QED
    BY <1>2, <1>3 DEF DeleteOps

\* A statement of the run spares what the run is to spare.
LEMMA StatementKeeps ==
    ASSUME NEW g, GraphOK(g), Owned(g), NEW p, Ready(p), NEW md, p.mode = md, md = "delta",
           NEW h, h = Apply(g, p.plan[p.k], p), Sparing(g, p)
    PROVE  Sparing(h, p)
<1> DEFINE st == p.plan[p.k]
           S == Range(p.scope)
<1>1. st = Stmt(st.op, st.repo) /\ st.op \in AllOps
    BY StatementIs DEF Ready
<1>2. st.op \in ContentOps \/ st.op \in DeleteOps \/ st.op \in LinkOps \cup FlowOps
  <2>1. st.op \in Destructive => st.op \in DeleteOps
      BY RemovesFor
  <2> QED
      BY <1>1, <2>1 DEF AllOps, OwnOps
<1> HIDE DEF st
<1>3. h = Apply(g, Stmt(st.op, st.repo), p)
    BY <1>1 DEF st
<1>4. /\ \A q : In(h, q) => In(g, q) \/ q \in DOMAIN p.files
      /\ \A q \in Paths : q \notin p.deleted /\ q \notin DOMAIN p.files /\ In(g, q)
            => In(h, q) /\ h.node[FileNode(q)] = g.node[FileNode(q)]
  <2>1. CASE st.op \in ContentOps
    <3>1. Adds(g, h, p.files)
        BY <1>3, <2>1, ApplyContent DEF Ready
    <3> QED
        BY <3>1 DEF Adds, In
  <2>2. CASE st.op \in LinkOps \cup FlowOps
    <3>1. Linked(g, h)
        BY <1>3, <2>2, ApplyLinks
    <3> QED
        BY <3>1 DEF Linked, In
  <2>3. CASE st.op \in DeleteOps
    <3>1. \E N : Removed(g, h, N)
      <4>1. st.op \in Destructive
          BY <2>3 DEF Destructive
      <4> QED
          BY <1>3, <4>1, ApplyRemoves
    <3>2. \A q : In(h, q) => In(g, q)
        BY <3>1 DEF Removed, In
    <3> QED
        BY <1>3, <2>3, <3>2, DeleteKeepsFiles
  <2> QED
      BY <1>2, <2>1, <2>2, <2>3
<1> QED
    BY <1>4 DEF Sparing, HashIs

-----------------------------------------------------------------------------
(***************************************************************************)
(* Every step, for what the deltas know.                                    *)
(***************************************************************************)
\* The scopes of two indexers have nothing in common.
LEMMA NoneShared ==
    ASSUME Apart, NEW i \in Indexers, NEW j \in Indexers, i # j, NEW s, NEW t,
           s = << >> \/ s \in Scopes[i], t = << >> \/ t \in Scopes[j]
    PROVE  Range(s) \cap Range(t) = {}
<1>1. Range(<< >>) = {}
    BY DEF Range
<1> QED
    BY <1>1 DEF Apart

\* Scopes stay those of the indexers, and files those of the scope.
LEMMA ScopesNext ==
    ASSUME NEW i \in Indexers, Steps(i), ScopeOf(i), FilesScoped(proc[i])
    PROVE  (proc'[i].scope = << >> \/ proc'[i].scope \in Scopes[i]) /\ FilesScoped(proc'[i])
<1> DEFINE p == proc[i]
           q == proc'[i]
<1>1. CASE q.scope = p.scope /\ q.files = p.files
    BY <1>1 DEF ScopeOf, FilesScoped
<1>2. CASE q.files = << >> /\ (q.scope \in Scopes[i] \/ q.scope = << >>)
  <2>1. DOMAIN << >> = {}
      OBVIOUS
  <2> QED
      BY <1>2, <2>1 DEF FilesScoped
<1>3. CASE Looks(p, q)
    BY <1>3 DEF Looks, ScopeOf, FilesScoped
<1> QED
    BY <1>1, <1>2, <1>3 DEF Steps, Stays, Starts, Stops, Fetches, GoesOn, Kept, SamePlan

\* No run meets another.
MetInv == tangled = {} /\ \A i \in Indexers : proc[i].pc = "write" => proc[i].met = {}

\* No step brings two runs together.
LEMMA MetNext ==
    ASSUME Apart, RunsOK, MetInv, \A i \in Indexers : ScopeOf(i),
           \A i \in Indexers : proc'[i].scope = << >> \/ proc'[i].scope \in Scopes[i],
           NEW i \in Indexers, Reads(i) \/ Begins(i) \/ Writes(i) \/ Returns(i) \/ Dead(i)
    PROVE  MetInv'
<1>1. CASE Begins(i)
  <2>1. ASSUME NEW j \in Indexers \ {i} PROVE Range(proc'[i].scope) \cap Range(proc[j].scope) = {}
      BY NoneShared DEF ScopeOf
  <2>2. tangled' = tangled /\ proc'[i].met = {}
      BY <1>1, <2>1 DEF Begins
  <2>3. ASSUME NEW j \in Indexers \ {i}, proc'[j].pc = "write" PROVE proc'[j].met = {}
    <3>1. CASE proc[j].pc = "write"
      <4>1. proc'[j].met = proc[j].met \cup (Range(proc'[i].scope) \cap Range(proc[j].scope))
          BY <1>1, <3>1 DEF Begins
      <4> QED
          BY <2>1, <3>1, <4>1 DEF MetInv
    <3>2. CASE proc[j].pc # "write"
        BY <1>1, <2>3, <3>2 DEF Begins
    <3> QED
        BY <3>1, <3>2
  <2> QED
      BY <2>2, <2>3 DEF MetInv
<1>2. CASE Reads(i)
    BY <1>2 DEF Reads, MetInv
<1>3. CASE Returns(i) \/ Dead(i)
  <2>1. proc[i].met = {}
      BY <1>3 DEF Returns, Dead, Ends, MetInv
  <2>2. tangled' = {}
      BY <1>3, <2>1 DEF Returns, Dead, MetInv
  <2> QED
      BY <1>3, <2>2 DEF Returns, Dead, Ends, MetInv
<1>4. CASE Writes(i)
  <2>1. proc[i].pc = "write" /\ RunOK(proc[i]) /\ proc'[i].met = proc[i].met /\ proc[i].met = {}
      BY <1>4 DEF Writes, WriteOn, AtStatement, Kept, MetInv, RunsOK
  <2>2. tangled' = {}
      BY <1>4, <2>1 DEF Writes, WriteOn, MetInv
  <2> QED
      BY <1>4, <2>1, <2>2 DEF Writes, WriteOn, MetInv
<1> QED
    BY <1>1, <1>2, <1>3, <1>4

\* A run that goes on while the graph stays as it is.
LEMMA KnowsOn ==
    ASSUME GraphOK(graph), UNCHANGED graph, NEW i \in Indexers, RunOK(proc[i]), Steps(i), Knows(graph, proc[i]),
           proc[i].pc = "fetch" => Orphans(graph, proc[i].scope[proc[i].idx]) = {}
    PROVE  Knows(graph, proc'[i])
<1> DEFINE p == proc[i]
           q == proc'[i]
<1>1. CASE Stays(p, q)
  <2>1. /\ q.pc = p.pc /\ q.mode = p.mode /\ q.scope = p.scope /\ q.idx = p.idx /\ q.known = p.known
        /\ q.deleted = p.deleted /\ q.files = p.files
      BY <1>1 DEF Stays
  <2>2. Fetched(q) = Fetched(p)
      BY <2>1 DEF Fetched
  <2>3. Sparing(graph, p) <=> Sparing(graph, q)
      BY <2>1 DEF Sparing
  <2> QED
      BY <2>1, <2>2, <2>3 DEF Knows, KnowsOf
<1>2. CASE Starts(p, q, Scopes[i])
  <2>1. Fetched(q) = {} /\ DOMAIN q.known = {}
      BY <1>2 DEF Starts, Fetched
  <2>2. Fresh(graph, q.known, Fetched(q))
      BY <2>1 DEF Fresh
  <2> QED
      BY <1>2, <2>2 DEF Starts, Knows, KnowsOf
<1>3. CASE Stops(q)
    BY <1>3 DEF Stops, Knows
<1>4. CASE Fetches(graph, p, q)
  <2>1. /\ p.pc = "fetch" /\ q.mode = p.mode /\ q.scope = p.scope
        /\ p.idx \in 1..Len(p.scope) /\ p.scope \in Seq(Repos) /\ p.scope[p.idx] \in Repos
    <3>1. p.pc = "fetch" /\ q.mode = p.mode /\ q.scope = p.scope
        BY <1>4 DEF Fetches
    <3>2. p.idx \in 1..Len(p.scope) /\ p.scope \in Seq(Repos)
        BY <3>1 DEF RunOK
    <3> QED
        BY <3>1, <3>2
  <2> DEFINE r == p.scope[p.idx]
             T == Fetched(p) \cup {r}
  <2>2. Orphans(graph, r) = {} /\ q.known = Over(ExistingHashes(graph, r), p.known)
      BY <1>4, <2>1 DEF Fetches
  <2>3. p.mode = "delta" => Fresh(graph, p.known, Fetched(p))
      BY <2>1 DEF Knows, KnowsOf
  <2>4. p.mode = "delta" => Fresh(graph, q.known, T)
      BY <2>1, <2>2, <2>3, FetchFresh
  <2>5. CASE p.idx = Len(p.scope) /\ q.pc = "diff"
    <3>1. T = Range(p.scope)
        BY <2>1, <2>5 DEF Fetched, Range
    <3> QED
        BY <2>1, <2>4, <2>5, <3>1 DEF Knows, KnowsOf
  <2>6. CASE q.pc = "fetch" /\ q.idx = p.idx + 1
    <3>1. T = Fetched(q)
        BY <2>1, <2>6 DEF Fetched
    <3> QED
        BY <2>1, <2>4, <2>6, <3>1 DEF Knows, KnowsOf
  <2> QED
      BY <1>4, <2>5, <2>6 DEF Fetches
<1>5. CASE Looks(p, q)
  <2>1. /\ p.pc \in {"diff", "walk"} /\ q.pc \in {"diff", "walk", "write"}
        /\ q.mode = p.mode /\ q.scope = p.scope /\ q.known = p.known
      BY <1>5 DEF Looks
  <2>2. p.mode = "delta" => Fresh(graph, p.known, Range(p.scope))
      BY <2>1 DEF Knows, KnowsOf
  <2>3. p.mode = "delta" => Sparing(graph, q)
      BY <2>1, <2>2, FreshSparing
  <2> QED
      BY <2>1, <2>2, <2>3 DEF Knows, KnowsOf
<1>6. CASE GoesOn(p, q)
  <2>1. /\ p.pc = "write" /\ q.pc \in {"write", "done", "failed"} /\ q.mode = p.mode /\ q.scope = p.scope
        /\ q.known = p.known /\ q.deleted = p.deleted /\ q.files = p.files
      BY <1>6 DEF GoesOn, Kept, SamePlan
  <2>2. Sparing(graph, p) <=> Sparing(graph, q)
      BY <2>1 DEF Sparing
  <2> QED
      BY <2>1, <2>2 DEF Knows, KnowsOf
<1> QED
    BY <1>1, <1>2, <1>3, <1>4, <1>5, <1>6 DEF Steps

\* A run that executes a statement.
LEMMA KnowsWriting ==
    ASSUME GraphOK(graph), Owned(graph), NEW i \in Indexers, RunOK(proc[i]), Writes(i), Knows(graph, proc[i])
    PROVE  Knows(graph', proc'[i])
<1> DEFINE p == proc[i]
           q == proc'[i]
<1>1. /\ Ready(p) /\ Goes(graph, graph', p, q) /\ Kept(p, q) /\ p.pc = "write" /\ q.pc \in {"write", "failed"}
    BY AtStatementReady DEF Writes, WriteOn
<1>2. /\ q.mode = p.mode /\ q.scope = p.scope
      /\ q.known = p.known /\ q.deleted = p.deleted /\ q.files = p.files
    BY <1>1 DEF Kept, SamePlan
<1>3. p.mode = "delta" => Sparing(graph, p)
    BY <1>1 DEF Knows, KnowsOf
<1>4. p.mode = "delta" => Sparing(graph', p)
  <2>1. CASE graph' = graph
      BY <1>3, <2>1
  <2>2. CASE graph' = Apply(graph, p.plan[p.k], p)
    <3> HIDE DEF p
    <3> QED
        BY <1>1, <1>3, <2>2, StatementKeeps
  <2> QED
      BY <1>1, <2>1, <2>2 DEF Goes
<1>5. Sparing(graph', p) <=> Sparing(graph', q)
    BY <1>2 DEF Sparing
<1> QED
    BY <1>1, <1>2, <1>4, <1>5 DEF Knows, KnowsOf

\* At first no run knows anything.
LEMMA ApartInit == Init => ApartInv
<1> SUFFICES ASSUME Init PROVE ApartInv
    OBVIOUS
<1>1. /\ NoRun.pc = "idle" /\ NoRun.mode = "full" /\ NoRun.scope = << >> /\ NoRun.files = << >>
      /\ DOMAIN << >> = {}
    BY DEF NoRun
<1>2. tangled = {} /\ \A i \in Indexers : proc[i] = NoRun
    BY DEF Init
<1> HIDE DEF NoRun
<1> QED
    BY <1>1, <1>2 DEF ApartInv, ScopeOf, FilesScoped, Knows

\* A repository that some run has still to fetch is written by no run, so that
\* clearing reaches all its files.
LEMMA FetchesSettled ==
    ASSUME Apart, RunsOK, OrphanInv, ApartInv, NEW i \in Indexers, proc[i].pc = "fetch",
           NEW r \in Repos, r \in Range(proc[i].scope)
    PROVE  Orphans(graph, r) = {}
<1>1. ASSUME NEW j \in Writers(r) PROVE FALSE
  <2>1. j # i /\ j \in Indexers /\ r \in Range(proc[j].scope)
      BY DEF Writers
  <2>2. ScopeOf(i) /\ ScopeOf(j)
      BY <2>1 DEF ApartInv
  <2>3. Range(proc[i].scope) \cap Range(proc[j].scope) = {}
      BY <2>1, <2>2, NoneShared DEF ScopeOf
  <2> QED
      BY <2>1, <2>3
<1>2. Writers(r) = {} /\ r \notin tangled
    BY <1>1 DEF ApartInv
<1> QED
    BY <1>2 DEF OrphanInv, InHand

\* Each run still knows what it knew, or more.
LEMMA ApartNext ==
    ASSUME Apart, TypeInv, OrphanInv, Owned(graph), ApartInv, [Next]_vars
    PROVE  ApartInv'
<1>1. RunsOK /\ GraphOK(graph)
    BY DEF TypeInv
<1>2. \A i \in Indexers : ScopeOf(i) /\ FilesScoped(proc[i]) /\ Knows(graph, proc[i]) /\ RunOK(proc[i])
    BY <1>1 DEF ApartInv, RunsOK
<1>3. \A i \in Indexers : Steps(i)
    BY EveryStep
<1>4. \A i \in Indexers : (proc'[i].scope = << >> \/ proc'[i].scope \in Scopes[i]) /\ FilesScoped(proc'[i])
    BY <1>2, <1>3, ScopesNext
<1>5. \/ UNCHANGED <<graph, proc, tangled>>
      \/ \E i \in Indexers : Reads(i) \/ Begins(i) \/ Writes(i) \/ Returns(i) \/ Dead(i)
    BY Moves
<1>6. MetInv'
  <2>1. MetInv
      BY DEF ApartInv, MetInv
  <2>2. CASE UNCHANGED <<graph, proc, tangled>>
      BY <2>1, <2>2 DEF MetInv
  <2> QED
      BY <1>1, <1>2, <1>4, <1>5, <2>1, <2>2, MetNext
<1>7. ASSUME UNCHANGED graph, NEW i \in Indexers PROVE Knows(graph', proc'[i])
  <2>1. proc[i].pc = "fetch" => Orphans(graph, proc[i].scope[proc[i].idx]) = {}
    <3> SUFFICES ASSUME proc[i].pc = "fetch" PROVE Orphans(graph, proc[i].scope[proc[i].idx]) = {}
        OBVIOUS
    <3>1. proc[i].idx \in 1..Len(proc[i].scope) /\ proc[i].scope \in Seq(Repos)
        BY <1>2 DEF RunOK
    <3>2. proc[i].scope[proc[i].idx] \in Repos /\ proc[i].scope[proc[i].idx] \in Range(proc[i].scope)
        BY <3>1 DEF Range
    <3> QED
        BY <1>1, <3>2, FetchesSettled
  <2> QED
      BY <1>1, <1>2, <1>3, <1>7, <2>1, KnowsOn
<1>8. ASSUME NEW i \in Indexers, Writes(i), NEW j \in Indexers PROVE Knows(graph', proc'[j])
  <2>1. CASE j = i
      BY <1>1, <1>2, <1>8, <2>1, KnowsWriting
  <2>2. CASE j # i
    <3> DEFINE p == proc[i]
    <3>1. proc'[j] = proc[j] /\ Goes(graph, graph', p, proc'[i]) /\ Ready(p)
        BY <1>2, <1>8, <2>2, AtStatementReady DEF Writes, WriteOn
    <3>2. Range(proc[j].scope) \cap Range(p.scope) = {} /\ Range(proc[j].scope) \subseteq Repos
      <4>1. proc[j].scope \in Seq(Repos)
          BY <1>2 DEF RunOK
      <4>2. Range(proc[j].scope) \subseteq Repos
          BY <4>1 DEF Range
      <4> QED
          BY <1>2, <2>2, <4>2, NoneShared DEF ScopeOf
    <3>3. ASSUME NEW r \in Range(proc[j].scope) PROVE SameLocal(graph, graph', r)
      <4>1. r \in Repos /\ r \notin Range(p.scope)
          BY <3>2
      <4> HIDE DEF p
      <4> QED
          BY <1>1, <3>1, <4>1, OutsideLocal
    <3>4. Knows(graph', proc[j])
        BY <1>2, <3>3, KnowsSame
    <3> QED
        BY <3>1, <3>4
  <2> QED
      BY <2>1, <2>2
<1>9. \A i \in Indexers : Knows(graph', proc'[i])
  <2>1. CASE UNCHANGED graph
      BY <1>7, <2>1
  <2>2. CASE \E i \in Indexers : Writes(i)
      BY <1>8, <2>2
  <2> QED
      BY <1>5, <2>1, <2>2 DEF Reads, Begins, Returns, Dead, Ends
<1> QED
    BY <1>4, <1>6, <1>9 DEF ApartInv, MetInv, ScopeOf

-----------------------------------------------------------------------------
(***************************************************************************)
(* What a delta has done when it returns.                                   *)
(***************************************************************************)
\* The files of some repositories that a graph holds.
LEMMA GraphFilesAre ==
    ASSUME NEW g, GraphOK(g), NEW R
    PROVE  /\ \A q : q \in DOMAIN GraphFiles(g, R) <=> q \in Paths /\ RepoOf[q] \in R /\ In(g, q)
           /\ \A q \in DOMAIN GraphFiles(g, R) : GraphFiles(g, R)[q] = g.node[FileNode(q)]
<1> DEFINE F == GraphFiles(g, R)
<1>1. DOMAIN F = {n[3] : n \in {m \in Labelled(g, {"File"}) : m[2] \in R}}
    BY DEF GraphFiles
<1>2. \A q \in DOMAIN F : F[q] = g.node[FileNode(q)]
    BY DEF GraphFiles
<1>3. \A q : FileNode(q)[1] = "File" /\ FileNode(q)[2] = RepoOf[q] /\ FileNode(q)[3] = q
    BY DEF FileNode
<1>4. ASSUME NEW q \in DOMAIN F PROVE q \in Paths /\ RepoOf[q] \in R /\ In(g, q)
  <2>1. PICK n \in Labelled(g, {"File"}) : n[2] \in R /\ n[3] = q
      BY <1>1
  <2>2. n \in DOMAIN g.node /\ n[1] = "File"
      BY DEF Labelled
  <2>3. q \in Paths /\ n = FileNode(q)
      BY <2>1, <2>2 DEF GraphOK, NodeOK
  <2> QED
      BY <1>3, <2>1, <2>2, <2>3 DEF In
<1>5. ASSUME NEW q \in Paths, RepoOf[q] \in R, In(g, q) PROVE q \in DOMAIN F
  <2>1. FileNode(q) \in Labelled(g, {"File"})
      BY <1>3, <1>5 DEF Labelled, In
  <2> QED
      BY <1>1, <1>3, <1>5, <2>1
<1> HIDE DEF F
<1> QED
    BY <1>2, <1>4, <1>5 DEF F

\* A delta that is through has written and deleted what its diff called for.
LEMMA ThroughApplied ==
    ASSUME NEW g, NEW p, WellPlanned(p), Parsed(p.files), p.k = Len(p.plan) + 1, p.mode = "delta",
           NEW r \in Range(p.scope), Cleared(g, p, r), Whole(g, p, r)
    PROVE  /\ \A q \in InRepo(p.files, r) : HashIs(g, q, p.files[q])
           /\ \A q \in p.deleted \ DOMAIN p.files : RepoOf[q] = r => ~ In(g, q)
<1>1. Len(p.plan) \in Nat /\ p.k - 1 = Len(p.plan)
    BY DEF WellPlanned
<1>2. \A q \in InRepo(p.files, r) : HashIs(g, q, p.files[q])
  <2>1. Done(g, p, r, "Files")
      BY DEF Whole, ContentOps
  <2> QED
      BY <2>1 DEF Done
<1>3. ASSUME NEW q \in p.deleted \ DOMAIN p.files, RepoOf[q] = r PROVE ~ In(g, q)
  <2>1. DeletedIn(p, r) # {}
      BY <1>3 DEF DeletedIn
  <2>2. "DeleteFiles" \in OwnOps /\ PlannedOp(p, r, "DeleteFiles")
      BY <2>1 DEF PlannedOp, DeleteOps, OwnOps, Destructive
  <2>3. Holds(p.plan, Stmt("DeleteFiles", r))
      BY <2>2 DEF WellPlanned
  <2>4. PICK j \in 1..Len(p.plan) : p.plan[j] = Stmt("DeleteFiles", r)
      BY <2>3 DEF Holds
  <2>5. Passed(p, "DeleteFiles", r)
      BY <1>1, <2>4 DEF Passed
  <2> QED
      BY <1>3, <2>5 DEF Cleared
<1> QED
    BY <1>2, <1>3

\* Then the graph's files are those it knew, but for what it wrote and deleted.
LEMMA AppliedFiles ==
    ASSUME NEW g, GraphOK(g), NEW p, FilesScoped(p), Sparing(g, p), Parsed(p.files),
           \A r \in Range(p.scope) :
              /\ \A q \in InRepo(p.files, r) : HashIs(g, q, p.files[q])
              /\ \A q \in p.deleted \ DOMAIN p.files : RepoOf[q] = r => ~ In(g, q)
    PROVE  GraphFiles(g, Range(p.scope)) = Over(p.files, Restrict(p.known, DOMAIN p.known \ p.deleted))
<1> DEFINE R == Range(p.scope)
           L == GraphFiles(g, R)
           K == Restrict(p.known, DOMAIN p.known \ p.deleted)
           M == Over(p.files, K)
<1>1. /\ \A q : q \in DOMAIN L <=> q \in Paths /\ RepoOf[q] \in R /\ In(g, q)
      /\ \A q \in DOMAIN L : L[q] = g.node[FileNode(q)]
    BY GraphFilesAre
<1>2. /\ DOMAIN K = DOMAIN p.known \ p.deleted
      /\ \A q \in DOMAIN K : K[q] = p.known[q]
    BY DEF Restrict
<1>3. /\ DOMAIN M = DOMAIN p.files \cup DOMAIN K
      /\ \A q \in DOMAIN p.files : M[q] = p.files[q]
      /\ \A q \in DOMAIN K \ DOMAIN p.files : M[q] = K[q]
    BY DEF Over
<1>4. L = [q \in DOMAIN L |-> L[q]] /\ M = [q \in DOMAIN M |-> M[q]]
    BY DEF GraphFiles, Over
<1>5. ASSUME NEW q \in DOMAIN p.files
      PROVE  q \in Paths /\ RepoOf[q] \in R /\ In(g, q) /\ g.node[FileNode(q)] = p.files[q]
  <2>1. q \in Paths /\ RepoOf[q] \in R
      BY DEF FilesScoped
  <2>2. q \in InRepo(p.files, RepoOf[q])
      BY DEF InRepo
  <2> QED
      BY <2>1, <2>2 DEF HashIs
<1>6. ASSUME NEW q \in DOMAIN K \ DOMAIN p.files
      PROVE  q \in Paths /\ RepoOf[q] \in R /\ In(g, q) /\ g.node[FileNode(q)] = K[q]
    BY <1>2 DEF Sparing, HashIs
<1>7. ASSUME NEW q \in DOMAIN L PROVE q \in DOMAIN M
    BY <1>1, <1>2, <1>3 DEF Sparing
<1> HIDE DEF K, L, M
<1>8. DOMAIN L = DOMAIN M
    BY <1>1, <1>3, <1>5, <1>6, <1>7
<1>9. \A q \in DOMAIN L : L[q] = M[q]
    BY <1>1, <1>3, <1>5, <1>6, <1>8
<1>10. L = M
    BY <1>4, <1>8, <1>9
<1> QED
    BY <1>10 DEF L, M, K

\* A delta that returns.
LEMMA ReturnApplied ==
    ASSUME Apart, TypeInv, HashInv, ApartInv, NEW i \in Indexers, Returns(i), proc[i].mode = "delta"
    PROVE  GraphFiles(graph, Range(proc[i].scope))
              = Over(proc[i].files, Restrict(proc[i].known, DOMAIN proc[i].known \ proc[i].deleted))
<1> DEFINE p == proc[i]
<1>1. /\ RunOK(p) /\ GraphOK(graph) /\ p.pc = "write" /\ p.k = Len(p.plan) + 1
      /\ ScopeOf(i) /\ FilesScoped(p) /\ Knows(graph, p)
    BY DEF TypeInv, RunsOK, Returns, Ends, ApartInv
<1>2. WellPlanned(p) /\ Parsed(p.files) /\ Range(p.scope) \subseteq Repos /\ Sparing(graph, p)
    BY <1>1 DEF RunOK, Range, Knows, KnowsOf
<1>3. ASSUME NEW r \in Range(p.scope)
      PROVE  /\ \A q \in InRepo(p.files, r) : HashIs(graph, q, p.files[q])
             /\ \A q \in p.deleted \ DOMAIN p.files : RepoOf[q] = r => ~ In(graph, q)
  <2>1. ASSUME NEW j \in Writers(r), j # i PROVE FALSE
    <3>1. j \in Indexers /\ r \in Range(proc[j].scope) /\ ScopeOf(j)
        BY DEF Writers, ApartInv
    <3>2. Range(p.scope) \cap Range(proc[j].scope) = {}
        BY <1>1, <2>1, <3>1, NoneShared DEF ScopeOf
    <3> QED
        BY <3>1, <3>2
  <2>2. Writers(r) = {i}
      BY <1>1, <2>1 DEF Writers
  <2>3. Vouching(graph, r)
      BY <1>2 DEF HashInv, ApartInv
  <2>4. Cleared(graph, p, r) /\ (Built(graph, p, r) \/ Whole(graph, p, r))
      BY <2>2, <2>3 DEF Vouching
  <2>5. Whole(graph, p, r)
      BY <1>1, <1>2, <2>4, BuiltWhole
  <2> QED
      BY <1>1, <1>2, <2>4, <2>5, ThroughApplied
<1> HIDE DEF p
<1>4. GraphFiles(graph, Range(p.scope)) = Over(p.files, Restrict(p.known, DOMAIN p.known \ p.deleted))
    BY <1>1, <1>2, <1>3, AppliedFiles
<1> QED
    BY <1>4 DEF p

\* When a delta returns, the graph's files of its scope are those it read at its
\* start, but for the changed ones, which have the hash of the content that was
\* parsed, and the deleted ones, which are gone: whatever the graph it started
\* from and however often its statements were retried, where no two indexers
\* are run on the same repository.
THEOREM DeltaApplied == ASSUME Apart PROVE Spec => DeltaAppliesDiff
<1>1. TypeInv /\ HashInv /\ ApartInv /\ [Next]_vars =>
        [\A i \in Indexers : LET p == proc[i] IN
          Finishes(i) /\ p.mode = "delta"
              => GraphFiles(graph, Range(p.scope))
                     = Over(p.files, Restrict(p.known, DOMAIN p.known \ p.deleted))]_vars
  <2> SUFFICES ASSUME TypeInv, HashInv, ApartInv, [Next]_vars, NEW i \in Indexers,
                      Finishes(i), proc[i].mode = "delta"
               PROVE  GraphFiles(graph, Range(proc[i].scope))
                        = Over(proc[i].files, Restrict(proc[i].known, DOMAIN proc[i].known \ proc[i].deleted))
      OBVIOUS
  <2>1. \/ UNCHANGED <<graph, proc, tangled>>
        \/ \E j \in Indexers : Reads(j) \/ Begins(j) \/ Writes(j) \/ Returns(j) \/ Dead(j)
      BY Moves
  <2>2. proc[i].pc = "write" /\ proc'[i].pc = "done"
      BY DEF Finishes
  <2>3. Returns(i)
      BY <2>1, <2>2 DEF Reads, Begins, Writes, WriteOn, Returns, Dead, Ends
  <2> QED
      BY <2>3, ReturnApplied
<1>2. TypeInv /\ OrphanInv /\ HashInv /\ ApartInv /\ [Next]_vars => ApartInv'
    BY ApartNext DEF HashInv
<1> QED
    BY <1>1, <1>2, ApartInit, Hashed, PTL DEF Spec, DeltaAppliesDiff
=============================================================================
