------------------------- MODULE WorkspaceGraph_proofs -------------------------
(***************************************************************************)
(* What the writer's statements do to any graph: no edge is left dangling,  *)
(* each statement stays within its repository, and those that clear or      *)
(* delete take nothing away that would leave a File, Symbol or Chunk which  *)
(* the next clearing cannot find.                                           *)
(***************************************************************************)
EXTENDS WorkspaceGraph, TLAPS

\* The relationships that are derived across repositories.
FlowRels == {"HTTP_FLOW", "KAFKA_FLOW"}

\* Labels and relationships that clearing follows.
Core == {"Repository", "Commit", "File", "Symbol", "Chunk"}
Struct == {"HAS_COMMIT", "CONTAINS", "DEFINES", "HAS_CHUNK"}

\* A node is of the repository its label says it is of.
NodeOK(n) ==
    /\ n[1] = "File" => n[3] \in Paths /\ n = FileNode(n[3])
    /\ n[1] \in {"Symbol", "Chunk"} => n[2] \in Repos
    /\ n[1] = "KafkaTopic" => n[2] = ""

\* An edge that clearing follows joins the labels it is for, in one repository.
EdgeOK(e) ==
    /\ e[2] = "HAS_COMMIT" => /\ e[1][1] = "Repository" /\ e[1] = RepoNode(e[1][2])
                              /\ e[3][1] = "Commit"
    /\ e[2] = "CONTAINS" => e[1][1] = "Commit" /\ e[3][1] = "File"
    /\ e[2] = "DEFINES" => e[1][1] = "File" /\ e[3][1] = "Symbol"
    /\ e[2] = "HAS_CHUNK" => e[1][1] = "File" /\ e[3][1] = "Chunk"
    /\ e[2] \in Struct => e[1][2] = e[3][2]

NoDangling(g) == \A e \in g.edge : Exists(g, e[1]) /\ Exists(g, e[3])

\* What holds of the graph in every state.
GraphOK(g) ==
    /\ NoDangling(g)
    /\ \A n \in DOMAIN g.node : NodeOK(n)
    /\ \A e \in g.edge : EdgeOK(e)

\* h is g with the nodes N merged (and their properties set) and the edges E.
Merged(g, h, N, E) ==
    /\ DOMAIN h.node = DOMAIN g.node \cup N
    /\ \A n \in DOMAIN g.node \ N : h.node[n] = g.node[n]
    /\ h.edge = g.edge \cup E

\* h is g without the nodes N and their edges.
Removed(g, h, N) ==
    /\ DOMAIN h.node = DOMAIN g.node \ N
    /\ \A n \in DOMAIN h.node : h.node[n] = g.node[n]
    /\ h.edge = {e \in g.edge : e[1] \notin N /\ e[3] \notin N}

\* From g to h nothing changes but the part of repository q, topics and flows.
Touches(g, h, q) ==
    /\ \A n : n[2] # q /\ n[1] # "KafkaTopic" =>
          /\ n \in DOMAIN h.node <=> n \in DOMAIN g.node
          /\ n \in DOMAIN g.node => h.node[n] = g.node[n]
    /\ \A e : e[1][2] # q /\ e[3][2] # q /\ e[2] \notin FlowRels =>
          (e \in h.edge <=> e \in g.edge)

\* The nodes and edges of repository r that clearing follows are the same.
SamePart(g, h, r) ==
    /\ \A n : n[2] = r /\ n[1] \in Core => (n \in DOMAIN h.node <=> n \in DOMAIN g.node)
    /\ \A e : e[1][2] = r /\ e[2] \in Struct => (e \in h.edge <=> e \in g.edge)

\* A statement of repository q that changes nothing clearing follows.
Quiet(g, h, q) == GraphOK(h) /\ Touches(g, h, q) /\ \A r : SamePart(g, h, r)

\* The nodes N are all of repository q; they are all of it and have label l.
Within(N, q) == \A n \in N : n[2] = q
Kind(N, q, l) == \A n \in N : n[2] = q /\ n[1] = l

\* What clearing reaches from the Repository r.
Commits(g, r) == Out(g, {RepoNode(r)}, "HAS_COMMIT")
FilesOf(g, r) == Out(g, Commits(g, r), "CONTAINS")
WithContents(g, f) == f \cup Out(g, f, "DEFINES") \cup Out(g, f, "HAS_CHUNK")
Reached(g, r) == WithContents(g, FilesOf(g, r))

\* The File nodes _DELETE_FILES matches.
FilesAt(g, P) == {n \in Labelled(g, {"File"}) : n[3] \in P}

\* What it would have to reach, and what of that it would not.
Held(g, r) == {n \in DOMAIN g.node : n[1] \in {"File", "Symbol", "Chunk"} /\ n[2] = r}
Orphans(g, r) == Held(g, r) \ Reached(g, r)

-----------------------------------------------------------------------------
(***************************************************************************)
(* Merging and removing in general.                                         *)
(***************************************************************************)
\* Upsert merges what it is given.
LEMMA UpsertMerges == \A g, props, E : Merged(g, Upsert(g, props, E), DOMAIN props, E)
BY DEF Merged, Upsert, Over

\* A statement whose MATCH finds nothing merges nothing.
LEMMA NothingMerged == \A g : Merged(g, g, {}, {})
BY DEF Merged

\* DETACH DELETE removes nodes with their edges.
LEMMA DetachRemoves == \A g, N : Removed(g, DetachDelete(g, N), N)
BY DEF Removed, DetachDelete, Restrict

\* A merge of sound nodes and edges for one repository keeps the graph sound
\* and stays in that repository.
LEMMA MergedOK ==
    ASSUME NEW g, GraphOK(g), NEW h, NEW N, NEW E, NEW q, Merged(g, h, N, E),
           \A n \in N : NodeOK(n) /\ (n[2] = q \/ n[1] = "KafkaTopic"),
           \A e \in E : /\ EdgeOK(e) /\ (e[1][2] = q \/ e[2] \in FlowRels)
                        /\ e[1] \in DOMAIN g.node \cup N /\ e[3] \in DOMAIN g.node \cup N
    PROVE  GraphOK(h) /\ Touches(g, h, q)
<1>1. NoDangling(h)
    BY DEF GraphOK, NoDangling, Merged, Exists
<1>2. (\A n \in DOMAIN h.node : NodeOK(n)) /\ (\A e \in h.edge : EdgeOK(e))
    BY DEF GraphOK, Merged
<1>3. Touches(g, h, q)
    BY DEF Touches, Merged
<1> QED
    BY <1>1, <1>2, <1>3 DEF GraphOK

\* So does the removal of nodes of one repository.
LEMMA RemovedOK ==
    ASSUME NEW g, GraphOK(g), NEW h, NEW N, NEW q, Removed(g, h, N), Within(N, q)
    PROVE  GraphOK(h) /\ Touches(g, h, q)
<1>1. GraphOK(h)
    BY DEF GraphOK, NoDangling, Removed, Exists
<1>2. Touches(g, h, q)
    BY DEF Touches, Removed, Within
<1> QED
    BY <1>1, <1>2

\* A merge that clearing does not follow.
LEMMA MergedSame ==
    ASSUME NEW g, NEW h, NEW N, NEW E, Merged(g, h, N, E),
           \A n \in N : n[1] \notin Core, \A e \in E : e[2] \notin Struct
    PROVE  \A r : SamePart(g, h, r)
BY DEF SamePart, Merged

\* A removal of nodes that clearing does not follow.
LEMMA RemovedSame ==
    ASSUME NEW g, GraphOK(g), NEW h, NEW N, Removed(g, h, N), \A n \in N : n[1] \notin Core
    PROVE  \A r : SamePart(g, h, r)
<1>1. \A e \in g.edge : e[2] \in Struct => e[1][1] \in Core /\ e[3][1] \in Core
    BY DEF GraphOK, EdgeOK, Struct, Core
<1> QED
    BY <1>1 DEF SamePart, Removed

\* A statement of another repository leaves the part of this one alone.
LEMMA TouchesSame ==
    ASSUME NEW g, GraphOK(g), NEW h, GraphOK(h), NEW q, Touches(g, h, q), NEW r, r # q
    PROVE  SamePart(g, h, r)
<1>1. ASSUME NEW n, n[2] = r, n[1] \in Core PROVE n \in DOMAIN h.node <=> n \in DOMAIN g.node
    BY <1>1 DEF Touches, Core
<1>2. ASSUME NEW e, e[1][2] = r, e[2] \in Struct PROVE e \in h.edge <=> e \in g.edge
  <2>1. e \in g.edge \/ e \in h.edge => e[3][2] = r
      BY <1>2 DEF GraphOK, EdgeOK
  <2>2. e[2] \notin FlowRels
      BY <1>2 DEF Struct, FlowRels
  <2> QED
      BY <1>2, <2>1, <2>2 DEF Touches
<1> QED
    BY <1>1, <1>2 DEF SamePart

-----------------------------------------------------------------------------
(***************************************************************************)
(* The statements that delete.  q is the repository they are run for.       *)
(***************************************************************************)
\* Nodes of a kind are within their repository.
LEMMA KindWithin == \A N, q, l : Kind(N, q, l) => Within(N, q)
BY DEF Kind, Within

\* An edge that clearing follows stays in its repository.
LEMMA OutOK ==
    ASSUME NEW g, GraphOK(g), NEW q, NEW N, Within(N, q)
    PROVE  /\ Kind(Out(g, N, "HAS_COMMIT"), q, "Commit")
           /\ Kind(Out(g, N, "CONTAINS"), q, "File")
           /\ Kind(Out(g, N, "DEFINES"), q, "Symbol")
           /\ Kind(Out(g, N, "HAS_CHUNK"), q, "Chunk")
<1>1. ASSUME NEW rel \in Struct, NEW n \in Out(g, N, rel)
      PROVE  /\ n[2] = q
             /\ rel = "HAS_COMMIT" => n[1] = "Commit"
             /\ rel = "CONTAINS" => n[1] = "File"
             /\ rel = "DEFINES" => n[1] = "Symbol"
             /\ rel = "HAS_CHUNK" => n[1] = "Chunk"
  <2>1. PICK e \in g.edge : e[1] \in N /\ e[2] = rel /\ e[3] = n
      BY DEF Out
  <2> QED
      BY <2>1 DEF GraphOK, EdgeOK, Within
<1>2. "DEFINES" \in Struct /\ "HAS_CHUNK" \in Struct /\ "HAS_COMMIT" \in Struct /\ "CONTAINS" \in Struct
    BY DEF Struct
<1>3. Kind(Out(g, N, "HAS_COMMIT"), q, "Commit")
    BY <1>1, <1>2 DEF Kind
<1>4. Kind(Out(g, N, "CONTAINS"), q, "File")
    BY <1>1, <1>2 DEF Kind
<1>5. Kind(Out(g, N, "DEFINES"), q, "Symbol")
    BY <1>1, <1>2 DEF Kind
<1>6. Kind(Out(g, N, "HAS_CHUNK"), q, "Chunk")
    BY <1>1, <1>2 DEF Kind
<1> QED
    BY <1>3, <1>4, <1>5, <1>6

\* Files of a repository, their symbols and their chunks are all of it.
LEMMA WithContentsOK ==
    ASSUME NEW g, GraphOK(g), NEW q, NEW f, Kind(f, q, "File")
    PROVE  /\ Within(WithContents(g, f), q)
           /\ \A n \in WithContents(g, f) : n[1] \in {"File", "Symbol", "Chunk"}
<1>1. Kind(Out(g, f, "DEFINES"), q, "Symbol") /\ Kind(Out(g, f, "HAS_CHUNK"), q, "Chunk")
    BY KindWithin, OutOK
<1> QED
    BY <1>1 DEF WithContents, Within, Kind

\* Clearing reaches nodes of its own repository only.
LEMMA ReachedOK ==
    ASSUME NEW g, GraphOK(g), NEW q
    PROVE  /\ Kind(Commits(g, q), q, "Commit")
           /\ Kind(FilesOf(g, q), q, "File")
           /\ Within(Reached(g, q), q)
           /\ \A n \in Reached(g, q) : n[1] \in {"File", "Symbol", "Chunk"}
<1>1. Within({RepoNode(q)}, q)
  <2>1. RepoNode(q)[2] = q
      BY DEF RepoNode
  <2> QED
      BY <2>1 DEF Within
<1>2. Kind(Commits(g, q), q, "Commit")
    BY <1>1, OutOK DEF Commits
<1>3. Kind(FilesOf(g, q), q, "File")
    BY <1>2, KindWithin, OutOK DEF FilesOf
<1> QED
    BY <1>2, <1>3, WithContentsOK DEF Reached

\* _CLEAR_REPO removes exactly the commits and what clearing reaches.
LEMMA ClearRepoIs == \A g, q : Removed(g, ClearRepo(g, q), Commits(g, q) \cup Reached(g, q))
<1>1. ASSUME NEW g, NEW q PROVE Removed(g, ClearRepo(g, q), Commits(g, q) \cup Reached(g, q))
  <2> DEFINE c == Commits(g, q)
             f == FilesOf(g, q)
  <2>1. ClearRepo(g, q) = DetachDelete(g, c \cup f \cup Out(g, f, "DEFINES") \cup Out(g, f, "HAS_CHUNK"))
      BY DEF ClearRepo, Commits, FilesOf
  <2>2. c \cup f \cup Out(g, f, "DEFINES") \cup Out(g, f, "HAS_CHUNK") = Commits(g, q) \cup Reached(g, q)
      BY DEF Reached, WithContents
  <2> HIDE DEF c, f
  <2> QED
      BY <2>1, <2>2, DetachRemoves
<1> QED
    BY <1>1

\* _CLEAR_REPO keeps the graph sound and stays in its repository.
LEMMA ClearRepoOK ==
    ASSUME NEW g, GraphOK(g), NEW q
    PROVE  GraphOK(ClearRepo(g, q)) /\ Touches(g, ClearRepo(g, q), q)
<1>1. Within(Commits(g, q) \cup Reached(g, q), q)
    BY ReachedOK DEF Within, Kind
<1> QED
    BY <1>1, ClearRepoIs, RemovedOK

\* The statements whose nodes clearing does not follow.
SideDeletes(g, q, P) ==
    {ClearRepoModules(g, q), ClearRepoRoutesAndClients(g, q),
     DeleteFeaturesForFiles(g, q, P), DeleteModulesForFiles(g, q, P)}

\* Clearing modules and features, and deleting those of files, is quiet.
LEMMA SideDeletesQuiet ==
    ASSUME NEW g, GraphOK(g), NEW q, NEW P, NEW h \in SideDeletes(g, q, P)
    PROVE  Quiet(g, h, q)
<1>1. PICK N : h = DetachDelete(g, N) /\ \A n \in N : n[2] = q /\ n[1] \in {"Module"} \cup FeatureLabels
  <2>1. CASE h = ClearRepoModules(g, q)
      BY <2>1 DEF ClearRepoModules, Labelled
  <2>2. CASE h = ClearRepoRoutesAndClients(g, q)
      BY <2>2 DEF ClearRepoRoutesAndClients, Labelled
  <2>3. CASE h = DeleteFeaturesForFiles(g, q, P)
      BY <2>3 DEF DeleteFeaturesForFiles, Labelled
  <2>4. CASE h = DeleteModulesForFiles(g, q, P)
      BY <2>4 DEF DeleteModulesForFiles, Labelled
  <2> QED
      BY <2>1, <2>2, <2>3, <2>4 DEF SideDeletes
<1>2. Removed(g, h, N)
    BY <1>1, DetachRemoves
<1>3. \A n \in N : n[1] \notin Core
    BY <1>1 DEF Core, FeatureLabels, HttpLabels, KafkaLabels
<1>4. Within(N, q)
    BY <1>1 DEF Within
<1>5. GraphOK(h) /\ Touches(g, h, q)
    BY <1>2, <1>4, RemovedOK
<1>6. \A r : SamePart(g, h, r)
    BY <1>2, <1>3, RemovedSame
<1> QED
    BY <1>5, <1>6 DEF Quiet

\* The files at paths of a repository are files of it.
LEMMA FilesAtOK ==
    ASSUME NEW g, GraphOK(g), NEW q, NEW P, \A p \in P : RepoOf[p] = q
    PROVE  Kind(FilesAt(g, P), q, "File")
<1>1. ASSUME NEW n \in FilesAt(g, P) PROVE n[2] = q /\ n[1] = "File"
  <2>1. n \in DOMAIN g.node /\ n[1] = "File" /\ n[3] \in P
      BY DEF Labelled, FilesAt
  <2>2. n = FileNode(n[3])
      BY <2>1 DEF GraphOK, NodeOK
  <2>3. \A p : FileNode(p)[2] = RepoOf[p]
      BY DEF FileNode
  <2>4. n[2] = RepoOf[n[3]]
      BY <2>2, <2>3
  <2> QED
      BY <2>1, <2>4
<1> QED
    BY <1>1 DEF Kind

\* _DELETE_FILES removes exactly the files with their symbols and chunks.
LEMMA DeleteFilesIs == \A g, P : Removed(g, DeleteFiles(g, P), WithContents(g, FilesAt(g, P)))
BY DetachRemoves DEF DeleteFiles, WithContents, FilesAt

\* _DELETE_FILES keeps the graph sound and stays in its repository.
LEMMA DeleteFilesOK ==
    ASSUME NEW g, GraphOK(g), NEW q, NEW P, \A p \in P : RepoOf[p] = q
    PROVE  GraphOK(DeleteFiles(g, P)) /\ Touches(g, DeleteFiles(g, P), q)
<1>1. Kind(FilesAt(g, P), q, "File")
    BY FilesAtOK
<1>2. Within(WithContents(g, FilesAt(g, P)), q)
    BY <1>1, WithContentsOK
<1> QED
    BY <1>2, DeleteFilesIs, RemovedOK

-----------------------------------------------------------------------------
(***************************************************************************)
(* The statements that write.                                               *)
(***************************************************************************)
\* The files a bundle may hold: those that were parsed, at their contents.
Parsed(F) == DOMAIN F \subseteq Paths /\ \A p \in DOMAIN F : F[p] \in DOMAIN Parse[p]

\* What merging the nodes N and the edges E for repository q has to respect.
MergeOK(g, q, N, E) ==
    /\ \A n \in N : NodeOK(n) /\ (n[2] = q \/ n[1] = "KafkaTopic")
    /\ \A e \in E : EdgeOK(e) /\ (e[1][2] = q \/ e[2] \in FlowRels)
    /\ \A e \in E : e[1] \in DOMAIN g.node \cup N /\ e[3] \in DOMAIN g.node \cup N

\* A merge that respects MergeOK keeps the graph sound.
LEMMA MergeOKs ==
    ASSUME NEW g, GraphOK(g), NEW q, NEW N, NEW E, NEW h, Merged(g, h, N, E), MergeOK(g, q, N, E)
    PROVE  GraphOK(h) /\ Touches(g, h, q)
BY MergedOK DEF MergeOK

\* The repository of a node and its label.
LEMMA NodeParts ==
    /\ \A r : RepoNode(r)[1] = "Repository" /\ RepoNode(r)[2] = r
    /\ \A r, sha : CommitNode(r, sha)[1] = "Commit" /\ CommitNode(r, sha)[2] = r
    /\ \A p : FileNode(p)[1] = "File" /\ FileNode(p)[2] = RepoOf[p] /\ FileNode(p)[3] = p
    /\ \A r, m : ModuleNode(r, m)[1] = "Module" /\ ModuleNode(r, m)[2] = r
    /\ \A r, s : SymbolNode(r, s)[1] = "Symbol" /\ SymbolNode(r, s)[2] = r
    /\ \A p, ft : FeatureNode(p, ft)[1] = ft.kind /\ FeatureNode(p, ft)[2] = RepoOf[p]
    /\ \A p, k : ChunkNode(p, k)[1] = "Chunk" /\ ChunkNode(p, k)[2] = RepoOf[p]
    /\ \A k : TopicNode(k)[1] = "KafkaTopic" /\ TopicNode(k)[2] = ""
BY DEF RepoNode, CommitNode, FileNode, ModuleNode, SymbolNode, FeatureNode, ChunkNode, TopicNode

\* Labels that nothing is required of.
LEMMA PlainNodeOK == \A n : n[1] \notin {"File", "Symbol", "Chunk", "KafkaTopic"} => NodeOK(n)
BY DEF NodeOK

\* The nodes the writer builds are sound: files,
LEMMA FileNodeOK == ASSUME NEW p \in Paths PROVE NodeOK(FileNode(p))
BY NodeParts DEF NodeOK

\* symbols,
LEMMA SymbolNodeOK == ASSUME NEW r \in Repos, NEW s PROVE NodeOK(SymbolNode(r, s))
<1>1. SymbolNode(r, s)[1] = "Symbol" /\ SymbolNode(r, s)[2] = r
    BY DEF SymbolNode
<1> QED
    BY <1>1 DEF NodeOK

\* chunks,
LEMMA ChunkNodeOK == ASSUME NEW p \in Paths, NEW k PROVE NodeOK(ChunkNode(p, k))
<1>1. ChunkNode(p, k)[1] = "Chunk" /\ ChunkNode(p, k)[2] \in Repos
    BY GraphAssumption DEF ChunkNode
<1> QED
    BY <1>1 DEF NodeOK

\* topics,
LEMMA TopicNodeOK == ASSUME NEW k PROVE NodeOK(TopicNode(k))
<1>1. TopicNode(k)[1] = "KafkaTopic" /\ TopicNode(k)[2] = ""
    BY DEF TopicNode
<1> QED
    BY <1>1 DEF NodeOK

\* and routes, clients, producers and consumers.
LEMMA FeatureNodeOK == ASSUME NEW p, NEW ft, ft.kind \in FeatureLabels PROVE NodeOK(FeatureNode(p, ft))
<1>1. FeatureNode(p, ft)[1] = ft.kind
    BY DEF FeatureNode
<1> QED
    BY <1>1, PlainNodeOK DEF FeatureLabels, HttpLabels, KafkaLabels

\* _UPSERT_REPO merges the Repository node.
LEMMA UpsertRepoIs == \A g, q, sha : Merged(g, UpsertRepo(g, q, sha), {RepoNode(q)}, {})
<1>1. ASSUME NEW g, NEW q, NEW sha PROVE Merged(g, UpsertRepo(g, q, sha), {RepoNode(q)}, {})
  <2> DEFINE props == [n \in {RepoNode(q)} |-> sha]
  <2>1. UpsertRepo(g, q, sha) = Upsert(g, props, {}) /\ DOMAIN props = {RepoNode(q)}
      BY DEF UpsertRepo
  <2> HIDE DEF props
  <2> QED
      BY <2>1, UpsertMerges
<1> QED
    BY <1>1

\* _UPSERT_REPO keeps the graph sound.
LEMMA UpsertRepoOK ==
    ASSUME NEW g, GraphOK(g), NEW q, NEW sha
    PROVE  GraphOK(UpsertRepo(g, q, sha)) /\ Touches(g, UpsertRepo(g, q, sha), q)
<1>1. MergeOK(g, q, {RepoNode(q)}, {})
  <2>1. RepoNode(q)[1] = "Repository" /\ RepoNode(q)[2] = q
      BY DEF RepoNode
  <2> QED
      BY <2>1, PlainNodeOK DEF MergeOK
<1> QED
    BY <1>1, UpsertRepoIs, MergeOKs

\* The edge _UPSERT_COMMIT merges.
CommitEdge(q, sha) == <<RepoNode(q), "HAS_COMMIT", CommitNode(q, sha)>>

\* _UPSERT_COMMIT merges the commit if it finds its repository, else nothing.
LEMMA UpsertCommitIs ==
    ASSUME NEW g, NEW q, NEW sha
    PROVE  /\ Exists(g, RepoNode(q)) =>
                  Merged(g, UpsertCommit(g, q, sha), {CommitNode(q, sha)}, {CommitEdge(q, sha)})
           /\ ~ Exists(g, RepoNode(q)) => UpsertCommit(g, q, sha) = g
<1> DEFINE props == [n \in {CommitNode(q, sha)} |-> sha]
<1>1. Exists(g, RepoNode(q)) => UpsertCommit(g, q, sha) = Upsert(g, props, {CommitEdge(q, sha)})
    BY DEF UpsertCommit, CommitEdge
<1>2. DOMAIN props = {CommitNode(q, sha)}
    OBVIOUS
<1>3. ~ Exists(g, RepoNode(q)) => UpsertCommit(g, q, sha) = g
    BY DEF UpsertCommit
<1> HIDE DEF props
<1> QED
    BY <1>1, <1>2, <1>3, UpsertMerges

\* _UPSERT_COMMIT keeps the graph sound.
LEMMA UpsertCommitOK ==
    ASSUME NEW g, GraphOK(g), NEW q, NEW sha
    PROVE  GraphOK(UpsertCommit(g, q, sha)) /\ Touches(g, UpsertCommit(g, q, sha), q)
<1>1. CASE Exists(g, RepoNode(q))
  <2> DEFINE e == CommitEdge(q, sha)
             n == CommitNode(q, sha)
  <2>1. /\ e[1] = RepoNode(q) /\ e[2] = "HAS_COMMIT" /\ e[3] = n
        /\ e[1][1] = "Repository" /\ e[1][2] = q /\ n[1] = "Commit" /\ n[2] = q
      BY DEF CommitEdge, RepoNode, CommitNode
  <2> HIDE DEF e, n
  <2>2. EdgeOK(e) /\ NodeOK(n)
      BY <2>1, PlainNodeOK DEF EdgeOK
  <2>3. MergeOK(g, q, {n}, {e})
      BY <1>1, <2>1, <2>2 DEF MergeOK, Exists
  <2> QED
      BY <1>1, <2>3, UpsertCommitIs, MergeOKs DEF e, n
<1>2. CASE ~ Exists(g, RepoNode(q))
    BY <1>2, UpsertCommitIs DEF Touches
<1> QED
    BY <1>1, <1>2

\* What _UPSERT_FILES merges.
FileNodesOf(F, q) == {FileNode(p) : p \in InRepo(F, q)}
ContainsEdges(F, q, sha) == {<<CommitNode(q, sha), "CONTAINS", FileNode(p)>> : p \in InRepo(F, q)}

\* _UPSERT_FILES merges the files if it finds the commit, else nothing.
LEMMA UpsertFilesIs ==
    ASSUME NEW g, NEW q, NEW sha, NEW F
    PROVE  /\ Exists(g, CommitNode(q, sha)) =>
                  Merged(g, UpsertFiles(g, q, sha, F), FileNodesOf(F, q), ContainsEdges(F, q, sha))
           /\ ~ Exists(g, CommitNode(q, sha)) => UpsertFiles(g, q, sha, F) = g
<1> DEFINE props == [n \in FileNodesOf(F, q) |-> F[n[3]]]
<1>1. Exists(g, CommitNode(q, sha)) => UpsertFiles(g, q, sha, F) = Upsert(g, props, ContainsEdges(F, q, sha))
    BY DEF UpsertFiles, ContainsEdges, FileNodesOf
<1>2. DOMAIN props = FileNodesOf(F, q)
    OBVIOUS
<1>3. ~ Exists(g, CommitNode(q, sha)) => UpsertFiles(g, q, sha, F) = g
    BY DEF UpsertFiles
<1> HIDE DEF props
<1> QED
    BY <1>1, <1>2, <1>3, UpsertMerges

\* _UPSERT_FILES keeps the graph sound.
LEMMA UpsertFilesOK ==
    ASSUME NEW g, GraphOK(g), NEW q, NEW sha, NEW F, Parsed(F)
    PROVE  GraphOK(UpsertFiles(g, q, sha, F)) /\ Touches(g, UpsertFiles(g, q, sha, F), q)
<1>1. CASE Exists(g, CommitNode(q, sha))
  <2>1. \A p \in InRepo(F, q) : p \in Paths /\ RepoOf[p] = q
      BY DEF InRepo, Parsed
  <2>2. ASSUME NEW n \in FileNodesOf(F, q) PROVE NodeOK(n) /\ n[2] = q
    <3>1. PICK p \in InRepo(F, q) : n = FileNode(p)
        BY DEF FileNodesOf
    <3>2. FileNode(p)[2] = RepoOf[p]
        BY DEF FileNode
    <3> QED
        BY <2>1, <3>1, <3>2, FileNodeOK
  <2>3. ASSUME NEW e \in ContainsEdges(F, q, sha)
        PROVE  /\ EdgeOK(e) /\ e[1][2] = q
               /\ e[1] \in DOMAIN g.node /\ e[3] \in FileNodesOf(F, q)
    <3>1. PICK p \in InRepo(F, q) : e = <<CommitNode(q, sha), "CONTAINS", FileNode(p)>>
        BY DEF ContainsEdges
    <3>2. e[1] = CommitNode(q, sha) /\ e[2] = "CONTAINS" /\ e[3] = FileNode(p) /\ e[1][2] = q /\ e[3][2] = q
          /\ e[1][1] = "Commit" /\ e[3][1] = "File"
      <4>1. FileNode(p)[1] = "File" /\ FileNode(p)[2] = RepoOf[p]
          BY DEF FileNode
      <4>2. CommitNode(q, sha)[1] = "Commit" /\ CommitNode(q, sha)[2] = q
          BY DEF CommitNode
      <4> QED
          BY <2>1, <3>1, <4>1, <4>2
    <3>3. EdgeOK(e)
        BY <3>2 DEF EdgeOK
    <3> QED
        BY <1>1, <3>2, <3>3 DEF Exists, FileNodesOf
  <2>4. MergeOK(g, q, FileNodesOf(F, q), ContainsEdges(F, q, sha))
      BY <2>2, <2>3 DEF MergeOK
  <2> QED
      BY <1>1, <2>4, UpsertFilesIs, MergeOKs
<1>2. CASE ~ Exists(g, CommitNode(q, sha))
    BY <1>2, UpsertFilesIs DEF Touches
<1> QED
    BY <1>1, <1>2

\* What _UPSERT_SYMBOLS merges.
SymbolNodesOf(F, q) == {SymbolNode(q, s) : s \in SymbolsOf(F, q)}
DefinesEdges(F, q, P) ==
    UNION {{<<FileNode(p), "DEFINES", SymbolNode(q, s)>> : s \in Rec(F, p).syms} : p \in P}

\* ENCLOSES of the symbols of files P, from symbols that are in N to some in M.
Encloses(E, N, M, q) ==
    \A e \in E : e[1] \in N /\ e[3] \in M /\ e[2] = "ENCLOSES" /\ e[1][2] = q

\* The files of the bundle that have a File node.
FilesIn(g, F, q) == {p \in InRepo(F, q) : Exists(g, FileNode(p))}

\* _UPSERT_SYMBOLS merges the symbols, the DEFINES edges of the files it finds,
\* and ENCLOSES edges between symbols.
LEMMA UpsertSymbolsIs ==
    ASSUME NEW g, NEW q, NEW F, Parsed(F)
    PROVE  \E E : /\ Merged(g, UpsertSymbols(g, q, F), SymbolNodesOf(F, q),
                            DefinesEdges(F, q, FilesIn(g, F, q)) \cup E)
                  /\ Encloses(E, DOMAIN g.node \cup SymbolNodesOf(F, q), SymbolNodesOf(F, q), q)
<1> DEFINE definer(s) == CHOOSE p \in InRepo(F, q) : s \in Rec(F, p).syms
           props == [n \in SymbolNodesOf(F, q) |-> <<definer(n[3]), F[definer(n[3])]>>]
           there == DOMAIN g.node \cup SymbolNodesOf(F, q)
           enc(p) == {<<SymbolNode(q, e[1]), "ENCLOSES", SymbolNode(q, e[2])>> :
                          e \in {x \in Rec(F, p).encloses : SymbolNode(q, x[1]) \in there}}
           E == UNION {enc(p) : p \in FilesIn(g, F, q)}
<1>1. UpsertSymbols(g, q, F) = Upsert(g, props, DefinesEdges(F, q, FilesIn(g, F, q)) \cup E)
    BY DEF UpsertSymbols, SymbolNodesOf, DefinesEdges, FilesIn
<1>2. DOMAIN props = SymbolNodesOf(F, q)
    OBVIOUS
<1>3. Merged(g, UpsertSymbols(g, q, F), SymbolNodesOf(F, q), DefinesEdges(F, q, FilesIn(g, F, q)) \cup E)
  <2> HIDE DEF props, E
  <2> QED
      BY <1>1, <1>2, UpsertMerges
<1>4. ASSUME NEW x \in E
      PROVE  x[1] \in there /\ x[3] \in SymbolNodesOf(F, q) /\ x[2] = "ENCLOSES" /\ x[1][2] = q
  <2>1. PICK p \in FilesIn(g, F, q) : x \in enc(p)
      OBVIOUS
  <2>2. PICK e \in Rec(F, p).encloses :
            SymbolNode(q, e[1]) \in there /\ x = <<SymbolNode(q, e[1]), "ENCLOSES", SymbolNode(q, e[2])>>
      BY <2>1
  <2>3. p \in InRepo(F, q) /\ p \in Paths /\ F[p] \in DOMAIN Parse[p]
      BY DEF FilesIn, InRepo, Parsed
  <2>4. e[2] \in Rec(F, p).syms
      BY <2>3, ParseAssumption DEF Rec
  <2>5. e[2] \in SymbolsOf(F, q)
      BY <2>3, <2>4 DEF SymbolsOf
  <2>6. SymbolNode(q, e[2]) \in SymbolNodesOf(F, q)
      BY <2>5 DEF SymbolNodesOf
  <2>7. SymbolNode(q, e[1])[2] = q
      BY DEF SymbolNode
  <2> QED
      BY <2>2, <2>6, <2>7
<1>5. Encloses(E, DOMAIN g.node \cup SymbolNodesOf(F, q), SymbolNodesOf(F, q), q)
  <2> HIDE DEF E
  <2> QED
      BY <1>4 DEF Encloses
<1> QED
    BY <1>3, <1>5

\* Those DEFINES edges are sound.
LEMMA DefinesEdgesOK ==
    ASSUME NEW g, NEW q, NEW F, Parsed(F), NEW e \in DefinesEdges(F, q, FilesIn(g, F, q))
    PROVE  /\ EdgeOK(e) /\ e[1][2] = q
           /\ e[1] \in DOMAIN g.node /\ e[3] \in SymbolNodesOf(F, q)
<1>1. PICK p \in FilesIn(g, F, q) :
          e \in {<<FileNode(p), "DEFINES", SymbolNode(q, s)>> : s \in Rec(F, p).syms}
    BY DEF DefinesEdges
<1>2. PICK s \in Rec(F, p).syms : e = <<FileNode(p), "DEFINES", SymbolNode(q, s)>>
    BY <1>1
<1>3. p \in InRepo(F, q) /\ RepoOf[p] = q /\ FileNode(p) \in DOMAIN g.node
    BY DEF FilesIn, InRepo, Exists
<1>4. FileNode(p)[1] = "File" /\ FileNode(p)[2] = RepoOf[p]
    BY DEF FileNode
<1>5. SymbolNode(q, s)[1] = "Symbol" /\ SymbolNode(q, s)[2] = q
    BY DEF SymbolNode
<1>6. s \in SymbolsOf(F, q)
    BY <1>3 DEF SymbolsOf
<1>7. SymbolNode(q, s) \in SymbolNodesOf(F, q)
    BY <1>6 DEF SymbolNodesOf
<1>8. e[1] = FileNode(p) /\ e[2] = "DEFINES" /\ e[3] = SymbolNode(q, s)
    BY <1>2
<1>9. EdgeOK(e)
    BY <1>3, <1>4, <1>5, <1>8 DEF EdgeOK
<1> QED
    BY <1>3, <1>4, <1>7, <1>8, <1>9

\* Those Symbol nodes are sound.
LEMMA SymbolNodesOK ==
    ASSUME NEW q \in Repos, NEW F, NEW n \in SymbolNodesOf(F, q)
    PROVE  NodeOK(n) /\ n[2] = q /\ n[1] = "Symbol"
<1>1. PICK s \in SymbolsOf(F, q) : n = SymbolNode(q, s)
    BY DEF SymbolNodesOf
<1>2. SymbolNode(q, s)[1] = "Symbol" /\ SymbolNode(q, s)[2] = q
    BY DEF SymbolNode
<1> QED
    BY <1>1, <1>2, SymbolNodeOK

\* _UPSERT_SYMBOLS keeps the graph sound.
LEMMA UpsertSymbolsOK ==
    ASSUME NEW g, GraphOK(g), NEW q \in Repos, NEW F, Parsed(F)
    PROVE  GraphOK(UpsertSymbols(g, q, F)) /\ Touches(g, UpsertSymbols(g, q, F), q)
<1>1. PICK E : /\ Merged(g, UpsertSymbols(g, q, F), SymbolNodesOf(F, q),
                         DefinesEdges(F, q, FilesIn(g, F, q)) \cup E)
               /\ Encloses(E, DOMAIN g.node \cup SymbolNodesOf(F, q), SymbolNodesOf(F, q), q)
    BY UpsertSymbolsIs
<1>2. \A n \in SymbolNodesOf(F, q) : NodeOK(n) /\ n[2] = q
    BY SymbolNodesOK
<1>3. ASSUME NEW e \in E
      PROVE  /\ EdgeOK(e) /\ e[1][2] = q
             /\ e[1] \in DOMAIN g.node \cup SymbolNodesOf(F, q) /\ e[3] \in SymbolNodesOf(F, q)
    BY <1>1 DEF Encloses, EdgeOK, Struct
<1>4. MergeOK(g, q, SymbolNodesOf(F, q), DefinesEdges(F, q, FilesIn(g, F, q)) \cup E)
    BY <1>2, <1>3, DefinesEdgesOK DEF MergeOK
<1> QED
    BY <1>1, <1>4, MergeOKs

\* What _UPSERT_CHUNKS merges.
ChunkNodesOf(F, q) == {ChunkNode(x[1], x[2]) : x \in ChunksOf(F, q)}
ChunkEdges(F, q, P) == {<<FileNode(x[1]), "HAS_CHUNK", ChunkNode(x[1], x[2])>> :
                            x \in {y \in ChunksOf(F, q) : y[1] \in P}}

\* The chunks of a repository are those of its parsed files.
LEMMA ChunksOfOK ==
    ASSUME NEW q, NEW F, Parsed(F), NEW x \in ChunksOf(F, q)
    PROVE  x[1] \in Paths /\ RepoOf[x[1]] = q /\ x[1] \in InRepo(F, q)
<1>1. PICK p \in InRepo(F, q) : x \in {<<p, k>> : k \in Rec(F, p).chunks}
    BY DEF ChunksOf
<1>2. x[1] = p
    BY <1>1
<1> QED
    BY <1>2 DEF InRepo, Parsed

\* _UPSERT_CHUNKS merges the chunks and the HAS_CHUNK edges of the files it finds.
LEMMA UpsertChunksIs ==
    ASSUME NEW g, NEW q, NEW F, Parsed(F)
    PROVE  Merged(g, UpsertChunks(g, q, F), ChunkNodesOf(F, q), ChunkEdges(F, q, FilesIn(g, F, q)))
<1> DEFINE props == [n \in ChunkNodesOf(F, q) |-> F[n[3][1]]]
<1>1. {y \in ChunksOf(F, q) : Exists(g, FileNode(y[1]))} = {y \in ChunksOf(F, q) : y[1] \in FilesIn(g, F, q)}
    BY ChunksOfOK DEF FilesIn
<1>2. UpsertChunks(g, q, F) = Upsert(g, props, ChunkEdges(F, q, FilesIn(g, F, q)))
    BY <1>1 DEF UpsertChunks, ChunkNodesOf, ChunkEdges
<1>3. DOMAIN props = ChunkNodesOf(F, q)
    OBVIOUS
<1> HIDE DEF props
<1> QED
    BY <1>2, <1>3, UpsertMerges

\* Those Chunk nodes are sound.
LEMMA ChunkNodesOK ==
    ASSUME NEW q, NEW F, Parsed(F), NEW n \in ChunkNodesOf(F, q)
    PROVE  NodeOK(n) /\ n[2] = q /\ n[1] = "Chunk"
<1>1. PICK x \in ChunksOf(F, q) : n = ChunkNode(x[1], x[2])
    BY DEF ChunkNodesOf
<1>2. ChunkNode(x[1], x[2])[1] = "Chunk" /\ ChunkNode(x[1], x[2])[2] = RepoOf[x[1]]
    BY DEF ChunkNode
<1>3. x[1] \in Paths /\ RepoOf[x[1]] = q
    BY ChunksOfOK
<1> QED
    BY <1>1, <1>2, <1>3, ChunkNodeOK

\* Those HAS_CHUNK edges are sound.
LEMMA ChunkEdgesOK ==
    ASSUME NEW g, NEW q, NEW F, Parsed(F), NEW e \in ChunkEdges(F, q, FilesIn(g, F, q))
    PROVE  /\ EdgeOK(e) /\ e[1][2] = q
           /\ e[1] \in DOMAIN g.node /\ e[3] \in ChunkNodesOf(F, q)
<1>1. PICK x \in ChunksOf(F, q) : /\ x[1] \in FilesIn(g, F, q)
                                  /\ e = <<FileNode(x[1]), "HAS_CHUNK", ChunkNode(x[1], x[2])>>
    BY DEF ChunkEdges
<1>2. RepoOf[x[1]] = q /\ FileNode(x[1]) \in DOMAIN g.node
    BY <1>1 DEF FilesIn, InRepo, Exists
<1>3. FileNode(x[1])[1] = "File" /\ FileNode(x[1])[2] = RepoOf[x[1]]
    BY DEF FileNode
<1>4. ChunkNode(x[1], x[2])[1] = "Chunk" /\ ChunkNode(x[1], x[2])[2] = RepoOf[x[1]]
    BY DEF ChunkNode
<1>5. ChunkNode(x[1], x[2]) \in ChunkNodesOf(F, q)
    BY DEF ChunkNodesOf
<1>6. e[1] = FileNode(x[1]) /\ e[2] = "HAS_CHUNK" /\ e[3] = ChunkNode(x[1], x[2])
    BY <1>1
<1>7. EdgeOK(e)
    BY <1>2, <1>3, <1>4, <1>6 DEF EdgeOK
<1> QED
    BY <1>2, <1>3, <1>5, <1>6, <1>7

\* _UPSERT_CHUNKS keeps the graph sound.
LEMMA UpsertChunksOK ==
    ASSUME NEW g, GraphOK(g), NEW q, NEW F, Parsed(F)
    PROVE  GraphOK(UpsertChunks(g, q, F)) /\ Touches(g, UpsertChunks(g, q, F), q)
<1>1. MergeOK(g, q, ChunkNodesOf(F, q), ChunkEdges(F, q, FilesIn(g, F, q)))
    BY ChunkNodesOK, ChunkEdgesOK DEF MergeOK
<1> QED
    BY <1>1, UpsertChunksIs, MergeOKs

-----------------------------------------------------------------------------
(***************************************************************************)
(* The statements that write nothing clearing follows.                      *)
(***************************************************************************)
\* Nodes and edges that clearing does not follow.
QuietMerge(N, E) == (\A n \in N : n[1] \notin Core) /\ (\A e \in E : e[2] \notin Struct)

\* Merging nodes and edges that clearing does not follow is such a statement.
LEMMA QuietUpsert ==
    ASSUME NEW g, GraphOK(g), NEW q, NEW props, NEW E,
           MergeOK(g, q, DOMAIN props, E), QuietMerge(DOMAIN props, E)
    PROVE  Quiet(g, Upsert(g, props, E), q)
<1> DEFINE h == Upsert(g, props, E)
<1>1. Merged(g, h, DOMAIN props, E)
    BY UpsertMerges
<1> HIDE DEF h
<1>2. GraphOK(h) /\ Touches(g, h, q)
    BY <1>1, MergeOKs
<1>3. \A r : SamePart(g, h, r)
    BY <1>1, MergedSame DEF QuietMerge
<1> QED
    BY <1>2, <1>3 DEF Quiet, h

\* _UPSERT_MODULES writes nothing clearing follows.
LEMMA UpsertModulesQuiet ==
    ASSUME NEW g, GraphOK(g), NEW q, NEW F, Parsed(F)
    PROVE  Quiet(g, UpsertModules(g, q, F), q)
<1> DEFINE M == {ModuleNode(q, Rec(F, p).module) : p \in InRepo(F, q)}
           props == [n \in M |-> CHOOSE p \in InRepo(F, q) : Rec(F, p).module = n[3]]
           E == {<<FileNode(p), "DEFINES_MODULE", ModuleNode(q, Rec(F, p).module)>> : p \in FilesIn(g, F, q)}
<1>1. UpsertModules(g, q, F) = Upsert(g, props, E) /\ DOMAIN props = M
    BY DEF UpsertModules, FilesIn
<1>2. ASSUME NEW n \in M PROVE n[1] = "Module" /\ n[2] = q
  <2>1. PICK p \in InRepo(F, q) : n = ModuleNode(q, Rec(F, p).module)
      OBVIOUS
  <2> QED
      BY <2>1 DEF ModuleNode
<1>3. ASSUME NEW e \in E
      PROVE  e[1] \in DOMAIN g.node /\ e[3] \in M /\ e[1][2] = q /\ e[2] = "DEFINES_MODULE"
  <2>1. PICK p \in FilesIn(g, F, q) : e = <<FileNode(p), "DEFINES_MODULE", ModuleNode(q, Rec(F, p).module)>>
      OBVIOUS
  <2>2. p \in InRepo(F, q) /\ RepoOf[p] = q /\ FileNode(p) \in DOMAIN g.node
      BY DEF FilesIn, InRepo, Exists
  <2>3. FileNode(p)[2] = RepoOf[p]
      BY DEF FileNode
  <2> QED
      BY <2>1, <2>2, <2>3
<1> HIDE DEF M, E, props
<1>4. \A n \in M : NodeOK(n)
    BY <1>2, PlainNodeOK
<1>5. \A e \in E : EdgeOK(e)
    BY <1>3 DEF EdgeOK, Struct
<1>6. MergeOK(g, q, M, E)
    BY <1>2, <1>3, <1>4, <1>5 DEF MergeOK
<1>7. QuietMerge(M, E)
    BY <1>2, <1>3 DEF QuietMerge, Core, Struct
<1> QED
    BY <1>1, <1>6, <1>7, QuietUpsert

\* Nor do the statements for routes, clients, producers and consumers,
LEMMA UpsertFeaturesQuiet ==
    ASSUME NEW g, GraphOK(g), NEW q, NEW kind \in FeatureLabels, NEW F, Parsed(F)
    PROVE  Quiet(g, UpsertFeatures(g, kind, q, F), q)
<1> DEFINE fs == {x \in FeaturesOf(F, {kind}) : RepoOf[x[1]] = q}
           topics == IF kind \in KafkaLabels THEN {TopicNode(x[2].key) : x \in fs} ELSE {}
           N == {FeatureNode(x[1], x[2]) : x \in fs} \cup topics
           props == [n \in N |-> n[3]]
           own == {<<SymbolNode(q, x[2].owner), OwnerRel(kind), FeatureNode(x[1], x[2])>> :
                      x \in {y \in fs : Exists(g, SymbolNode(q, y[2].owner))}}
           to == {<<FeatureNode(x[1], x[2]), TopicRel(kind), TopicNode(x[2].key)>> :
                      x \in {y \in fs : kind \in KafkaLabels}}
<1>1. UpsertFeatures(g, kind, q, F) = Upsert(g, props, own \cup to) /\ DOMAIN props = N
    BY DEF UpsertFeatures
<1>2. ASSUME NEW x \in fs
      PROVE  /\ FeatureNode(x[1], x[2])[1] = kind /\ FeatureNode(x[1], x[2])[2] = q
             /\ FeatureNode(x[1], x[2]) \in N
  <2>1. RepoOf[x[1]] = q /\ x \in FeaturesOf(F, {kind})
      OBVIOUS
  <2>2. PICK p \in DOMAIN F : x \in {<<p, ft>> : ft \in {y \in Rec(F, p).feats : y.kind \in {kind}}}
      BY <2>1 DEF FeaturesOf
  <2>3. x[2].kind = kind
      BY <2>2
  <2> QED
      BY <2>1, <2>3 DEF FeatureNode
<1>3. ASSUME NEW n \in N
      PROVE  (n[1] = kind /\ n[2] = q) \/ (n[1] = "KafkaTopic" /\ n[2] = "")
  <2>1. CASE n \in {FeatureNode(x[1], x[2]) : x \in fs}
    <3>1. PICK x \in fs : n = FeatureNode(x[1], x[2])
        BY <2>1
    <3>2. FeatureNode(x[1], x[2])[1] = kind /\ FeatureNode(x[1], x[2])[2] = q
        BY <1>2
    <3> QED
        BY <3>1, <3>2
  <2>2. CASE n \in topics
    <3>1. PICK x \in fs : n = TopicNode(x[2].key)
        BY <2>2
    <3> QED
        BY <3>1 DEF TopicNode
  <2> QED
      BY <2>1, <2>2
<1>4. ASSUME NEW e \in own
      PROVE  e[1] \in DOMAIN g.node /\ e[3] \in N /\ e[1][2] = q /\ e[2] = OwnerRel(kind)
  <2>1. PICK x \in fs : /\ Exists(g, SymbolNode(q, x[2].owner))
                        /\ e = <<SymbolNode(q, x[2].owner), OwnerRel(kind), FeatureNode(x[1], x[2])>>
      OBVIOUS
  <2>2. SymbolNode(q, x[2].owner)[2] = q
      BY DEF SymbolNode
  <2>3. FeatureNode(x[1], x[2]) \in N
      BY <1>2
  <2> HIDE DEF N, fs
  <2> QED
      BY <2>1, <2>2, <2>3 DEF Exists
<1>5. ASSUME NEW e \in to
      PROVE  e[1] \in N /\ e[3] \in N /\ e[1][2] = q /\ e[2] = TopicRel(kind)
  <2>1. PICK x \in fs : /\ kind \in KafkaLabels
                        /\ e = <<FeatureNode(x[1], x[2]), TopicRel(kind), TopicNode(x[2].key)>>
      OBVIOUS
  <2>2. FeatureNode(x[1], x[2]) \in N /\ TopicNode(x[2].key) \in N
      BY <2>1, <1>2
  <2>3. FeatureNode(x[1], x[2])[2] = q
      BY <1>2
  <2> HIDE DEF N, fs
  <2> QED
      BY <2>1, <2>2, <2>3
<1>6. {kind, OwnerRel(kind), TopicRel(kind), "KafkaTopic"} \cap (Core \cup Struct) = {}
      /\ kind \notin {"File", "Symbol", "Chunk", "KafkaTopic"}
    BY DEF OwnerRel, TopicRel, FeatureLabels, HttpLabels, KafkaLabels, Core, Struct
<1> HIDE DEF N, own, to, props, topics, fs
<1>7. \A n \in N : NodeOK(n)
    BY <1>3, <1>6 DEF NodeOK
<1>8. ASSUME NEW e \in own \cup to PROVE EdgeOK(e) /\ e[2] \notin Struct
  <2>1. e[2] \notin Struct
      BY <1>4, <1>5, <1>6
  <2> QED
      BY <2>1 DEF EdgeOK, Struct
<1>9. MergeOK(g, q, N, own \cup to)
    BY <1>3, <1>4, <1>5, <1>7, <1>8 DEF MergeOK
<1>10. QuietMerge(N, own \cup to)
    BY <1>3, <1>6, <1>8 DEF QuietMerge
<1> QED
    BY <1>1, <1>9, <1>10, QuietUpsert

\* Edges that clearing does not follow, between nodes that exist.
LEMMA QuietEdges ==
    ASSUME NEW g, GraphOK(g), NEW q, NEW E,
           \A e \in E : /\ e[1] \in DOMAIN g.node /\ e[3] \in DOMAIN g.node
                        /\ e[2] \in FlowRels \/ (e[2] \in {"CALLS", "IMPORTS"} /\ e[1][2] = q)
    PROVE  Quiet(g, Upsert(g, << >>, E), q)
<1>1. DOMAIN << >> = {}
    OBVIOUS
<1>2. \A e \in E : e[2] \notin Struct
    BY DEF FlowRels, Struct
<1>3. \A e \in E : EdgeOK(e)
    BY <1>2 DEF EdgeOK, Struct
<1>4. MergeOK(g, q, {}, E)
    BY <1>3 DEF MergeOK
<1>5. QuietMerge({}, E)
    BY <1>2 DEF QuietMerge
<1>6. MergeOK(g, q, DOMAIN << >>, E) /\ QuietMerge(DOMAIN << >>, E)
    BY <1>1, <1>4, <1>5
<1> QED
    BY <1>6, QuietUpsert

\* the CALLS edges,
LEMMA UpsertCallsQuiet ==
    ASSUME NEW g, GraphOK(g), NEW q, NEW F
    PROVE  Quiet(g, UpsertCalls(g, q, F), q)
<1> DEFINE E == {e \in ResolvedCalls(F, q) : Exists(g, e[1]) /\ Exists(g, e[3])}
<1>1. ASSUME NEW e \in ResolvedCalls(F, q)
      PROVE  e[2] = "CALLS" /\ e[1][2] = q
  <2> DEFINE index == UNION {{SymbolNode(s, x) : x \in SymbolsOf(F, s)} : s \in Repos}
             found(x) == {n \in index : n[3] = x}
             target(p, x) ==
                 CASE SymbolNode(q, x) \in index -> {SymbolNode(q, x)}
                   [] SymbolNode(q, x) \notin index /\ x \in Rec(F, p).imports ->
                         {SymbolNode(q, n[3]) : n \in found(x)}
                   [] OTHER -> IF Cardinality(found(x)) = 1 THEN found(x) ELSE {}
             of(p) == UNION {{<<SymbolNode(q, c[1]), "CALLS", n>> : n \in target(p, c[2])} :
                                 c \in Rec(F, p).calls}
  <2>1. ResolvedCalls(F, q) = UNION {of(p) : p \in InRepo(F, q)}
      BY DEF ResolvedCalls
  <2> HIDE DEF target
  <2>2. PICK p \in InRepo(F, q) : e \in of(p)
      BY <2>1
  <2>3. PICK c \in Rec(F, p).calls : e \in {<<SymbolNode(q, c[1]), "CALLS", n>> : n \in target(p, c[2])}
      BY <2>2
  <2>4. PICK n \in target(p, c[2]) : e = <<SymbolNode(q, c[1]), "CALLS", n>>
      BY <2>3
  <2> QED
      BY <2>4 DEF SymbolNode
<1>2. \A e \in E : /\ e[1] \in DOMAIN g.node /\ e[3] \in DOMAIN g.node
                   /\ e[2] \in FlowRels \/ (e[2] \in {"CALLS", "IMPORTS"} /\ e[1][2] = q)
    BY <1>1 DEF Exists
<1>3. UpsertCalls(g, q, F) = Upsert(g, << >>, E)
    BY DEF UpsertCalls
<1> HIDE DEF E
<1> QED
    BY <1>2, <1>3, QuietEdges

\* the IMPORTS edges,
LEMMA UpsertImportsQuiet ==
    ASSUME NEW g, GraphOK(g), NEW q, NEW F
    PROVE  Quiet(g, UpsertImports(g, q, F), q)
<1> DEFINE known == UNION {SymbolsOf(F, s) : s \in Repos}
           of(p) == {<<FileNode(p), "IMPORTS", n>> :
                        n \in {s \in Labelled(g, {"Symbol"}) : s[3] \in Rec(F, p).imports \cap known}}
           E == UNION {of(p) : p \in FilesIn(g, F, q)}
<1>1. UpsertImports(g, q, F) = Upsert(g, << >>, E)
    BY DEF UpsertImports, FilesIn
<1>2. ASSUME NEW e \in E
      PROVE  e[1] \in DOMAIN g.node /\ e[3] \in DOMAIN g.node /\ e[2] = "IMPORTS" /\ e[1][2] = q
  <2>1. PICK p \in FilesIn(g, F, q) : e \in of(p)
      OBVIOUS
  <2>2. PICK n \in Labelled(g, {"Symbol"}) : e = <<FileNode(p), "IMPORTS", n>>
      BY <2>1
  <2>3. RepoOf[p] = q /\ FileNode(p) \in DOMAIN g.node
      BY DEF FilesIn, InRepo, Exists
  <2>4. FileNode(p)[2] = RepoOf[p]
      BY DEF FileNode
  <2> QED
      BY <2>2, <2>3, <2>4 DEF Labelled
<1> HIDE DEF E
<1>3. ASSUME NEW e \in E
      PROVE  /\ e[1] \in DOMAIN g.node /\ e[3] \in DOMAIN g.node
             /\ e[2] \in FlowRels \/ (e[2] \in {"CALLS", "IMPORTS"} /\ e[1][2] = q)
    BY <1>2
<1> QED
    BY <1>1, <1>3, QuietEdges

\* the HTTP flows,
LEMMA HttpFlowsQuiet ==
    ASSUME NEW g, GraphOK(g), NEW q, NEW F
    PROVE  Quiet(g, UpsertHttpFlows(g, F), q)
<1> DEFINE E == {<<e[1][1], "HTTP_FLOW", e[2]>> :
                    e \in {x \in HttpFlows(F) \X Labelled(g, {"Route"}) :
                              /\ Exists(g, x[1][1])
                              /\ x[2][2] = x[1][2]
                              /\ x[2][3][2] = x[1][3]}}
<1>1. UpsertHttpFlows(g, F) = Upsert(g, << >>, E)
    BY DEF UpsertHttpFlows
<1>2. ASSUME NEW e \in E
      PROVE  e[1] \in DOMAIN g.node /\ e[3] \in DOMAIN g.node /\ e[2] \in FlowRels
  <2>1. PICK x \in HttpFlows(F) \X Labelled(g, {"Route"}) :
            Exists(g, x[1][1]) /\ e = <<x[1][1], "HTTP_FLOW", x[2]>>
      OBVIOUS
  <2> QED
      BY <2>1 DEF Labelled, Exists, FlowRels
<1> HIDE DEF E
<1>3. ASSUME NEW e \in E
      PROVE  /\ e[1] \in DOMAIN g.node /\ e[3] \in DOMAIN g.node
             /\ e[2] \in FlowRels \/ (e[2] \in {"CALLS", "IMPORTS"} /\ e[1][2] = q)
    BY <1>2
<1> QED
    BY <1>1, <1>3, QuietEdges

\* the Kafka flows,
LEMMA KafkaFlowsQuiet ==
    ASSUME NEW g, GraphOK(g), NEW q, NEW F
    PROVE  Quiet(g, UpsertKafkaFlows(g, F), q)
<1> DEFINE match(label, repo, topic) ==
               {n \in Labelled(g, {label}) : n[2] = repo /\ n[3][2] = topic}
           of(f) == {<<a, "KAFKA_FLOW", b>> : a \in match("KafkaProducer", f[1], f[3]),
                                              b \in match("KafkaConsumer", f[2], f[3])}
           E == UNION {of(f) : f \in KafkaFlows(F)}
<1>1. UpsertKafkaFlows(g, F) = Upsert(g, << >>, E)
    BY DEF UpsertKafkaFlows
<1>2. ASSUME NEW e \in E
      PROVE  e[1] \in DOMAIN g.node /\ e[3] \in DOMAIN g.node /\ e[2] \in FlowRels
  <2>1. PICK f \in KafkaFlows(F) : e \in of(f)
      OBVIOUS
  <2>2. PICK a \in DOMAIN g.node, b \in DOMAIN g.node : e = <<a, "KAFKA_FLOW", b>>
      BY <2>1 DEF Labelled
  <2> QED
      BY <2>2 DEF FlowRels
<1> HIDE DEF E
<1>3. ASSUME NEW e \in E
      PROVE  /\ e[1] \in DOMAIN g.node /\ e[3] \in DOMAIN g.node
             /\ e[2] \in FlowRels \/ (e[2] \in {"CALLS", "IMPORTS"} /\ e[1][2] = q)
    BY <1>2
<1> QED
    BY <1>1, <1>3, QuietEdges

\* and the deletion of all flows.
LEMMA ClearFlowsQuiet ==
    ASSUME NEW g, GraphOK(g), NEW q, NEW rel \in FlowRels
    PROVE  Quiet(g, ClearFlows(g, rel), q)
<1> DEFINE h == ClearFlows(g, rel)
<1>1. h.node = g.node /\ h.edge = {e \in g.edge : e[2] # rel}
    BY DEF ClearFlows
<1>2. rel \notin Struct
    BY DEF FlowRels, Struct
<1> HIDE DEF h
<1>3. GraphOK(h)
    BY <1>1 DEF GraphOK, NoDangling, Exists
<1>4. Touches(g, h, q)
    BY <1>1 DEF Touches
<1>5. \A r : SamePart(g, h, r)
    BY <1>1, <1>2 DEF SamePart
<1> QED
    BY <1>3, <1>4, <1>5 DEF Quiet, h

-----------------------------------------------------------------------------
(***************************************************************************)
(* What clearing would not find: how a statement changes the orphans.       *)
(***************************************************************************)
\* More edges lead further.
LEMMA OutGrows ==
    ASSUME NEW g, NEW h, g.edge \subseteq h.edge, NEW N, NEW M, N \subseteq M, NEW rel
    PROVE  Out(g, N, rel) \subseteq Out(h, M, rel)
BY DEF Out

\* More edges reach more.
LEMMA ReachedGrows ==
    ASSUME NEW g, NEW h, g.edge \subseteq h.edge, NEW r
    PROVE  FilesOf(g, r) \subseteq FilesOf(h, r) /\ Reached(g, r) \subseteq Reached(h, r)
<1>1. Commits(g, r) \subseteq Commits(h, r)
    BY OutGrows DEF Commits
<1>2. FilesOf(g, r) \subseteq FilesOf(h, r)
    BY <1>1, OutGrows DEF FilesOf
<1>3. /\ Out(g, FilesOf(g, r), "DEFINES") \subseteq Out(h, FilesOf(h, r), "DEFINES")
      /\ Out(g, FilesOf(g, r), "HAS_CHUNK") \subseteq Out(h, FilesOf(h, r), "HAS_CHUNK")
    BY <1>2, OutGrows
<1> QED
    BY <1>2, <1>3 DEF Reached, WithContents

\* h has all of g, and no File, Symbol or Chunk more than those of N.
Grown(g, h, N) ==
    /\ DOMAIN g.node \subseteq DOMAIN h.node /\ g.edge \subseteq h.edge
    /\ \A n \in DOMAIN h.node \ DOMAIN g.node : n[1] \in {"File", "Symbol", "Chunk"} => n \in N

\* Merging adds the nodes merged.
LEMMA MergedGrows == \A g, h, N, E, M : Merged(g, h, N, E) /\ N \subseteq M => Grown(g, h, M)
BY DEF Merged, Grown

\* It adds no more than a larger set.
LEMMA GrownWider == \A g, h, N, M : Grown(g, h, N) /\ N \subseteq M => Grown(g, h, M)
BY DEF Grown

\* Only new nodes become orphans, and only those not reached.
LEMMA OrphansGrow ==
    ASSUME NEW g, NEW h, NEW N, Grown(g, h, N), NEW r
    PROVE  Orphans(h, r) \subseteq Orphans(g, r) \cup (N \ Reached(h, r))
<1>1. Reached(g, r) \subseteq Reached(h, r)
    BY ReachedGrows DEF Grown
<1> QED
    BY <1>1 DEF Orphans, Held, Grown

\* Where clearing gets to in one step depends on what it follows.
LEMMA OutSame ==
    ASSUME NEW g, NEW h, NEW r, SamePart(g, h, r), NEW N, Within(N, r), NEW rel \in Struct
    PROVE  Out(g, N, rel) = Out(h, N, rel)
BY DEF Out, SamePart, Within

\* What is reached depends on the part of the graph that clearing follows.
LEMMA ReachedSame ==
    ASSUME NEW g, GraphOK(g), NEW h, NEW r, SamePart(g, h, r)
    PROVE  Reached(g, r) = Reached(h, r) /\ Orphans(g, r) = Orphans(h, r)
<1>1. "DEFINES" \in Struct /\ "HAS_CHUNK" \in Struct /\ "HAS_COMMIT" \in Struct /\ "CONTAINS" \in Struct
    BY DEF Struct
<1>2. Within({RepoNode(r)}, r)
  <2>1. RepoNode(r)[2] = r
      BY DEF RepoNode
  <2> QED
      BY <2>1 DEF Within
<1>3. Commits(g, r) = Commits(h, r)
    BY <1>1, <1>2, OutSame DEF Commits
<1>4. Within(Commits(g, r), r) /\ Within(FilesOf(g, r), r)
    BY ReachedOK, KindWithin
<1>5. FilesOf(g, r) = FilesOf(h, r)
    BY <1>1, <1>3, <1>4, OutSame DEF FilesOf
<1>6. Out(g, FilesOf(g, r), "DEFINES") = Out(h, FilesOf(h, r), "DEFINES")
    BY <1>1, <1>4, <1>5, OutSame
<1>7. Out(g, FilesOf(g, r), "HAS_CHUNK") = Out(h, FilesOf(h, r), "HAS_CHUNK")
    BY <1>1, <1>4, <1>5, OutSame
<1>8. Reached(g, r) = Reached(h, r)
    BY <1>5, <1>6, <1>7 DEF Reached, WithContents
<1>9. Held(g, r) = Held(h, r)
    BY DEF Held, SamePart, Core
<1> QED
    BY <1>8, <1>9 DEF Orphans

\* Clearing a repository leaves nothing but the orphans there were.
LEMMA ClearRepoShrinks ==
    ASSUME NEW g, NEW q
    PROVE  Orphans(ClearRepo(g, q), q) \subseteq Orphans(g, q)
<1> DEFINE h == ClearRepo(g, q)
<1>1. Removed(g, h, Commits(g, q) \cup Reached(g, q))
    BY ClearRepoIs
<1> HIDE DEF h
<1>2. Held(h, q) \subseteq Orphans(g, q)
    BY <1>1 DEF Held, Orphans, Removed
<1> QED
    BY <1>2 DEF Orphans, h

\* Deleting files takes what they define along, and cuts nothing else off.
LEMMA DeleteFilesShrinks ==
    ASSUME NEW g, GraphOK(g), NEW q, NEW P, \A p \in P : RepoOf[p] = q
    PROVE  Orphans(DeleteFiles(g, P), q) \subseteq Orphans(g, q)
<1> DEFINE h == DeleteFiles(g, P)
           gone == FilesAt(g, P)
           N == WithContents(g, gone)
<1>1. Removed(g, h, N)
    BY DeleteFilesIs
<1>2. Kind(gone, q, "File")
    BY FilesAtOK
<1>3. Kind(Out(g, gone, "DEFINES"), q, "Symbol") /\ Kind(Out(g, gone, "HAS_CHUNK"), q, "Chunk")
    BY <1>2, KindWithin, OutOK
<1>4. N = gone \cup Out(g, gone, "DEFINES") \cup Out(g, gone, "HAS_CHUNK")
    BY DEF WithContents
<1> HIDE DEF h, gone, N
<1>5. \A n \in N : n[1] \in {"File", "Symbol", "Chunk"} /\ (n[1] = "File" => n \in gone)
    BY <1>2, <1>3, <1>4 DEF Kind
<1>6. Kind(Commits(g, q), q, "Commit") /\ Kind(FilesOf(g, q), q, "File")
    BY ReachedOK
<1>7. ASSUME NEW x \in FilesOf(g, q), x \notin gone PROVE x \in FilesOf(h, q) /\ x \notin N
  <2>1. x \notin N
      BY <1>5, <1>6, <1>7 DEF Kind
  <2>2. PICK e \in g.edge : e[1] \in Commits(g, q) /\ e[2] = "CONTAINS" /\ e[3] = x
      BY DEF FilesOf, Out
  <2>3. PICK d \in g.edge : d[1] = RepoNode(q) /\ d[2] = "HAS_COMMIT" /\ d[3] = e[1]
      BY <2>2 DEF Commits, Out
  <2>4. e[1][1] = "Commit" /\ RepoNode(q)[1] = "Repository"
      BY <1>6, <2>2 DEF Kind, RepoNode
  <2>5. d \in h.edge /\ e \in h.edge
      BY <1>1, <1>5, <2>1, <2>2, <2>3, <2>4 DEF Removed
  <2>6. e[1] \in Commits(h, q)
      BY <2>3, <2>5 DEF Commits, Out
  <2> QED
      BY <2>1, <2>2, <2>5, <2>6 DEF FilesOf, Out
<1>8. ASSUME NEW rel \in {"DEFINES", "HAS_CHUNK"}, NEW n \in Out(g, FilesOf(g, q), rel), n \notin N
      PROVE  n \in Out(h, FilesOf(h, q), rel)
  <2>1. PICK e \in g.edge : e[1] \in FilesOf(g, q) /\ e[2] = rel /\ e[3] = n
      BY DEF Out
  <2>2. Out(g, gone, rel) \subseteq N
      BY <1>4
  <2>3. e[1] \notin gone
      BY <1>8, <2>1, <2>2 DEF Out
  <2>4. e[1] \in FilesOf(h, q) /\ e[1] \notin N
      BY <1>7, <2>1, <2>3
  <2>5. e \in h.edge
      BY <1>1, <1>8, <2>1, <2>4 DEF Removed
  <2> QED
      BY <2>1, <2>4, <2>5 DEF Out
<1>9. ASSUME NEW n \in Held(h, q) PROVE n \in Held(g, q) /\ n \notin N
    BY <1>1 DEF Held, Removed
<1>10. gone \subseteq N
    BY <1>4
<1>11. ASSUME NEW n \in Reached(g, q), n \notin N PROVE n \in Reached(h, q)
    BY <1>7, <1>8, <1>10, <1>11 DEF Reached, WithContents
<1>12. Orphans(h, q) \subseteq Orphans(g, q)
    BY <1>9, <1>11 DEF Orphans
<1> QED
    BY <1>12 DEF h

-----------------------------------------------------------------------------
(***************************************************************************)
(* What each statement of _write_repo_content leaves for those after it.    *)
(***************************************************************************)
\* The nodes a run wants of repository r.
Wanted(F, r) == FileNodesOf(F, r) \cup SymbolNodesOf(F, r) \cup ChunkNodesOf(F, r)

\* What the statement op for repository r at commit sha leaves in the graph.
Left(g, r, sha, F, op) ==
    /\ op = "Repo" => Exists(g, RepoNode(r))
    /\ op = "Commit" => CommitEdge(r, sha) \in g.edge
    /\ op = "Files" => ContainsEdges(F, r, sha) \subseteq g.edge
    /\ op = "Symbols" => DefinesEdges(F, r, InRepo(F, r)) \subseteq g.edge
    /\ op = "Chunks" => ChunkEdges(F, r, InRepo(F, r)) \subseteq g.edge

\* What a statement left is not lost to one that only adds.
LEMMA LeftGrows ==
    ASSUME NEW g, NEW h, NEW N, Grown(g, h, N), NEW r, NEW sha, NEW F, NEW op, Left(g, r, sha, F, op)
    PROVE  Left(h, r, sha, F, op)
BY DEF Left, Grown, Exists

\* The edges E are of repository r and of a kind clearing follows.
Followed(E, r) == \A e \in E : e[1][2] = r /\ e[2] \in Struct

\* Edges that clearing follows are kept with the part they are of.
LEMMA FollowedSame ==
    ASSUME NEW g, NEW h, NEW r, SamePart(g, h, r), NEW E, Followed(E, r), E \subseteq g.edge
    PROVE  E \subseteq h.edge
BY DEF Followed, SamePart

\* What the statements leave are such edges.
LEMMA LeftFollowed ==
    ASSUME NEW r, NEW sha, NEW F, Parsed(F)
    PROVE  /\ Followed({CommitEdge(r, sha)}, r)
           /\ Followed(ContainsEdges(F, r, sha), r)
           /\ Followed(DefinesEdges(F, r, InRepo(F, r)), r)
           /\ Followed(ChunkEdges(F, r, InRepo(F, r)), r)
<1>1. Followed({CommitEdge(r, sha)}, r)
  <2>1. CommitEdge(r, sha)[1] = RepoNode(r) /\ CommitEdge(r, sha)[2] = "HAS_COMMIT" /\ RepoNode(r)[2] = r
      BY DEF CommitEdge, RepoNode
  <2> QED
      BY <2>1 DEF Followed, Struct
<1>2. ASSUME NEW e \in ContainsEdges(F, r, sha) PROVE e[1][2] = r /\ e[2] \in Struct
    BY DEF ContainsEdges, CommitNode, Struct
<1>3. \A p : FileNode(p)[2] = RepoOf[p]
    BY DEF FileNode
<1>4. \A p \in InRepo(F, r) : FileNode(p)[2] = r
    BY <1>3 DEF InRepo
<1>5. ASSUME NEW e \in DefinesEdges(F, r, InRepo(F, r)) PROVE e[1][2] = r /\ e[2] \in Struct
  <2>1. PICK p \in InRepo(F, r) :
            e \in {<<FileNode(p), "DEFINES", SymbolNode(r, s)>> : s \in Rec(F, p).syms}
      BY DEF DefinesEdges
  <2>2. e[1] = FileNode(p) /\ e[2] = "DEFINES"
      BY <2>1
  <2> QED
      BY <1>4, <2>2 DEF Struct
<1>6. ASSUME NEW e \in ChunkEdges(F, r, InRepo(F, r)) PROVE e[1][2] = r /\ e[2] \in Struct
  <2>1. PICK x \in ChunksOf(F, r) : /\ x[1] \in InRepo(F, r)
                                    /\ e = <<FileNode(x[1]), "HAS_CHUNK", ChunkNode(x[1], x[2])>>
      BY DEF ChunkEdges
  <2>2. e[1] = FileNode(x[1]) /\ e[2] = "HAS_CHUNK"
      BY <2>1
  <2> QED
      BY <1>4, <2>1, <2>2 DEF Struct
<1>7. Followed(ContainsEdges(F, r, sha), r)
    BY <1>2 DEF Followed
<1>8. Followed(DefinesEdges(F, r, InRepo(F, r)), r)
    BY <1>5 DEF Followed
<1>9. Followed(ChunkEdges(F, r, InRepo(F, r)), r)
    BY <1>6 DEF Followed
<1> QED
    BY <1>1, <1>7, <1>8, <1>9

\* What was left is still there after a statement of another repository.
LEMMA LeftSame ==
    ASSUME NEW g, NEW h, NEW r, SamePart(g, h, r), NEW sha, NEW F, Parsed(F), NEW op, Left(g, r, sha, F, op)
    PROVE  Left(h, r, sha, F, op)
<1>1. op = "Repo" => Exists(h, RepoNode(r))
    BY DEF Left, SamePart, RepoNode, Core, Exists
<1>2. op = "Commit" => CommitEdge(r, sha) \in h.edge
  <2>1. Followed({CommitEdge(r, sha)}, r)
      BY LeftFollowed
  <2>2. op = "Commit" => {CommitEdge(r, sha)} \subseteq g.edge
      BY DEF Left
  <2>3. op = "Commit" => {CommitEdge(r, sha)} \subseteq h.edge
      BY <2>1, <2>2, FollowedSame
  <2> QED
      BY <2>3
<1>3. op = "Files" => ContainsEdges(F, r, sha) \subseteq h.edge
    BY LeftFollowed, FollowedSame DEF Left
<1>4. op = "Symbols" => DefinesEdges(F, r, InRepo(F, r)) \subseteq h.edge
    BY LeftFollowed, FollowedSame DEF Left
<1>5. op = "Chunks" => ChunkEdges(F, r, InRepo(F, r)) \subseteq h.edge
    BY LeftFollowed, FollowedSame DEF Left
<1> QED
    BY <1>1, <1>2, <1>3, <1>4, <1>5 DEF Left

\* With the commit and the files there, the files are reached ...
LEMMA FilesReached ==
    ASSUME NEW g, NEW r, NEW sha, NEW F, Left(g, r, sha, F, "Commit"), Left(g, r, sha, F, "Files")
    PROVE  FileNodesOf(F, r) \subseteq FilesOf(g, r)
<1>1. CommitEdge(r, sha) \in g.edge /\ ContainsEdges(F, r, sha) \subseteq g.edge
    BY DEF Left
<1>2. CommitNode(r, sha) \in Commits(g, r)
    BY <1>1 DEF CommitEdge, Commits, Out
<1>3. ASSUME NEW n \in FileNodesOf(F, r) PROVE n \in FilesOf(g, r)
  <2>1. PICK p \in InRepo(F, r) : n = FileNode(p)
      BY DEF FileNodesOf
  <2>2. <<CommitNode(r, sha), "CONTAINS", n>> \in g.edge
      BY <1>1, <2>1 DEF ContainsEdges
  <2> QED
      BY <1>2, <2>2 DEF FilesOf, Out
<1> QED
    BY <1>3

\* ... and then the symbols, and the chunks.
LEMMA SymbolsReached ==
    ASSUME NEW g, NEW r, NEW sha, NEW F, FileNodesOf(F, r) \subseteq FilesOf(g, r),
           Left(g, r, sha, F, "Symbols")
    PROVE  SymbolNodesOf(F, r) \subseteq Reached(g, r)
<1>1. ASSUME NEW n \in SymbolNodesOf(F, r) PROVE n \in Reached(g, r)
  <2>1. PICK s \in SymbolsOf(F, r) : n = SymbolNode(r, s)
      BY DEF SymbolNodesOf
  <2>2. PICK p \in InRepo(F, r) : s \in Rec(F, p).syms
      BY DEF SymbolsOf
  <2>3. <<FileNode(p), "DEFINES", n>> \in DefinesEdges(F, r, InRepo(F, r))
      BY <2>1, <2>2 DEF DefinesEdges
  <2>4. <<FileNode(p), "DEFINES", n>> \in g.edge
      BY <2>3 DEF Left
  <2>5. FileNode(p) \in FilesOf(g, r)
      BY <2>2 DEF FileNodesOf
  <2>6. n \in Out(g, FilesOf(g, r), "DEFINES")
      BY <2>4, <2>5 DEF Out
  <2> QED
      BY <2>6 DEF Reached, WithContents
<1> QED
    BY <1>1

\* ... and the chunks.
LEMMA ChunksReached ==
    ASSUME NEW g, NEW r, NEW sha, NEW F, Parsed(F), FileNodesOf(F, r) \subseteq FilesOf(g, r),
           Left(g, r, sha, F, "Chunks")
    PROVE  ChunkNodesOf(F, r) \subseteq Reached(g, r)
<1>1. ASSUME NEW n \in ChunkNodesOf(F, r) PROVE n \in Reached(g, r)
  <2>1. PICK x \in ChunksOf(F, r) : n = ChunkNode(x[1], x[2])
      BY DEF ChunkNodesOf
  <2>2. x[1] \in InRepo(F, r)
      BY ChunksOfOK
  <2>3. <<FileNode(x[1]), "HAS_CHUNK", n>> \in ChunkEdges(F, r, InRepo(F, r))
      BY <2>1, <2>2 DEF ChunkEdges
  <2>4. <<FileNode(x[1]), "HAS_CHUNK", n>> \in g.edge
      BY <2>3 DEF Left
  <2>5. FileNode(x[1]) \in FilesOf(g, r)
      BY <2>2 DEF FileNodesOf
  <2>6. n \in Out(g, FilesOf(g, r), "HAS_CHUNK")
      BY <2>4, <2>5 DEF Out
  <2> QED
      BY <2>6 DEF Reached, WithContents
<1> QED
    BY <1>1

\* Nodes that are neither files, symbols nor chunks.
Aside(N) == \A n \in N : n[1] \notin {"File", "Symbol", "Chunk"}

\* Merging nodes that are neither files, symbols nor chunks adds no orphan.
LEMMA MergedAside ==
    ASSUME NEW g, NEW h, NEW N, NEW E, Merged(g, h, N, E), Aside(N), NEW r
    PROVE  Grown(g, h, {}) /\ Orphans(h, r) \subseteq Orphans(g, r)
<1>1. Grown(g, h, {})
    BY DEF Merged, Grown, Aside
<1>2. Orphans(h, r) \subseteq Orphans(g, r) \cup ({} \ Reached(h, r))
    BY <1>1, OrphansGrow
<1> QED
    BY <1>1, <1>2

\* Nothing added.
LEMMA NothingGrown == \A g, M : Grown(g, g, M)
BY DEF Grown

\* What a statement op of repository r leaves: it only adds what is wanted of
\* the files F, and, if it finds what the statements before it left, all of it
\* and in clearing's reach.
Leaves(g, h, r, sha, F, op, found) ==
    /\ Grown(g, h, Wanted(F, r))
    /\ found => Left(h, r, sha, F, op) /\ Orphans(h, r) \subseteq Orphans(g, r)

\* _UPSERT_REPO leaves the Repository node.
LEMMA UpsertRepoLeaves ==
    ASSUME NEW g, NEW q, NEW sha, NEW F
    PROVE  Leaves(g, UpsertRepo(g, q, sha), q, sha, F, "Repo", TRUE)
<1> DEFINE h == UpsertRepo(g, q, sha)
<1>1. Merged(g, h, {RepoNode(q)}, {})
    BY UpsertRepoIs
<1> HIDE DEF h
<1>2. RepoNode(q)[1] = "Repository"
    BY DEF RepoNode
<1>3. Aside({RepoNode(q)})
    BY <1>2 DEF Aside
<1>4. Grown(g, h, {}) /\ Orphans(h, q) \subseteq Orphans(g, q)
    BY <1>1, <1>3, MergedAside
<1>6. Grown(g, h, Wanted(F, q))
    BY <1>4, GrownWider
<1>5. Left(h, q, sha, F, "Repo")
    BY <1>1 DEF Left, Merged, Exists
<1> QED
    BY <1>4, <1>5, <1>6 DEF Leaves, h

\* _UPSERT_COMMIT leaves the commit, if it finds the repository.
LEMMA UpsertCommitLeaves ==
    ASSUME NEW g, NEW q, NEW sha, NEW F
    PROVE  Leaves(g, UpsertCommit(g, q, sha), q, sha, F, "Commit", Left(g, q, sha, F, "Repo"))
<1> DEFINE h == UpsertCommit(g, q, sha)
<1>1. CASE Exists(g, RepoNode(q))
  <2>1. Merged(g, h, {CommitNode(q, sha)}, {CommitEdge(q, sha)})
      BY <1>1, UpsertCommitIs
  <2> HIDE DEF h
  <2>2. CommitNode(q, sha)[1] = "Commit"
      BY DEF CommitNode
  <2>3. Aside({CommitNode(q, sha)})
      BY <2>2 DEF Aside
  <2>4. Grown(g, h, {}) /\ Orphans(h, q) \subseteq Orphans(g, q)
      BY <2>1, <2>3, MergedAside
  <2>6. Grown(g, h, Wanted(F, q))
      BY <2>4, GrownWider
  <2>5. Left(h, q, sha, F, "Commit")
      BY <2>1 DEF Left, Merged
  <2> QED
      BY <2>4, <2>5, <2>6 DEF Leaves, h
<1>2. CASE ~ Exists(g, RepoNode(q))
  <2>1. h = g
      BY <1>2, UpsertCommitIs
  <2>2. ~ Left(g, q, sha, F, "Repo")
      BY <1>2 DEF Left
  <2> QED
      BY <2>1, <2>2, NothingGrown DEF Leaves
<1> QED
    BY <1>1, <1>2

\* _UPSERT_FILES leaves the files in reach, if it finds the commit.
LEMMA UpsertFilesLeaves ==
    ASSUME NEW g, GraphOK(g), NEW q, NEW sha, NEW F
    PROVE  Leaves(g, UpsertFiles(g, q, sha, F), q, sha, F, "Files", Left(g, q, sha, F, "Commit"))
<1> DEFINE h == UpsertFiles(g, q, sha, F)
<1>1. CASE Exists(g, CommitNode(q, sha))
  <2>1. Merged(g, h, FileNodesOf(F, q), ContainsEdges(F, q, sha))
      BY <1>1, UpsertFilesIs
  <2> HIDE DEF h
  <2>2. Grown(g, h, FileNodesOf(F, q)) /\ Grown(g, h, Wanted(F, q))
      BY <2>1, MergedGrows DEF Wanted
  <2>3. Left(h, q, sha, F, "Files")
      BY <2>1 DEF Left, Merged
  <2>4. ASSUME Left(g, q, sha, F, "Commit") PROVE Orphans(h, q) \subseteq Orphans(g, q)
    <3>1. Left(h, q, sha, F, "Commit")
        BY <2>2, <2>4, LeftGrows
    <3>2. FileNodesOf(F, q) \subseteq FilesOf(h, q)
        BY <2>3, <3>1, FilesReached
    <3>3. FileNodesOf(F, q) \subseteq Reached(h, q)
        BY <3>2 DEF Reached, WithContents
    <3>4. Orphans(h, q) \subseteq Orphans(g, q) \cup (FileNodesOf(F, q) \ Reached(h, q))
        BY <2>2, OrphansGrow
    <3> QED
        BY <3>3, <3>4
  <2> QED
      BY <2>2, <2>3, <2>4 DEF Leaves, h
<1>2. CASE ~ Exists(g, CommitNode(q, sha))
  <2>1. h = g
      BY <1>2, UpsertFilesIs
  <2>2. ~ Left(g, q, sha, F, "Commit")
    <3>1. CommitEdge(q, sha)[3] = CommitNode(q, sha)
        BY DEF CommitEdge
    <3> QED
        BY <1>2, <3>1 DEF Left, GraphOK, NoDangling
  <2> QED
      BY <2>1, <2>2, NothingGrown DEF Leaves
<1> QED
    BY <1>1, <1>2

\* The File nodes the later statements MATCH.
LEMMA FilesThere ==
    ASSUME NEW g, GraphOK(g), NEW q, NEW sha, NEW F, Left(g, q, sha, F, "Files")
    PROVE  FilesIn(g, F, q) = InRepo(F, q)
<1>1. ASSUME NEW p \in InRepo(F, q) PROVE Exists(g, FileNode(p))
  <2>1. <<CommitNode(q, sha), "CONTAINS", FileNode(p)>> \in g.edge
      BY DEF Left, ContainsEdges
  <2> QED
      BY <2>1 DEF GraphOK, NoDangling
<1> QED
    BY <1>1 DEF FilesIn

\* _UPSERT_SYMBOLS leaves the symbols in reach, if the files are.
LEMMA UpsertSymbolsLeaves ==
    ASSUME NEW g, GraphOK(g), NEW q, NEW sha, NEW F, Parsed(F)
    PROVE  Leaves(g, UpsertSymbols(g, q, F), q, sha, F, "Symbols",
                  Left(g, q, sha, F, "Commit") /\ Left(g, q, sha, F, "Files"))
<1> DEFINE h == UpsertSymbols(g, q, F)
<1>1. PICK E : Merged(g, h, SymbolNodesOf(F, q), DefinesEdges(F, q, FilesIn(g, F, q)) \cup E)
    BY UpsertSymbolsIs
<1> HIDE DEF h
<1>2. Grown(g, h, SymbolNodesOf(F, q)) /\ Grown(g, h, Wanted(F, q))
    BY <1>1, MergedGrows DEF Wanted
<1>3. ASSUME Left(g, q, sha, F, "Commit"), Left(g, q, sha, F, "Files")
      PROVE  Left(h, q, sha, F, "Symbols") /\ Orphans(h, q) \subseteq Orphans(g, q)
  <2>1. Left(h, q, sha, F, "Commit") /\ Left(h, q, sha, F, "Files")
      BY <1>2, <1>3, LeftGrows
  <2>2. FilesIn(g, F, q) = InRepo(F, q)
      BY <1>3, FilesThere
  <2>3. Left(h, q, sha, F, "Symbols")
      BY <1>1, <2>2 DEF Left, Merged
  <2>4. FileNodesOf(F, q) \subseteq FilesOf(h, q)
      BY <2>1, FilesReached
  <2>5. SymbolNodesOf(F, q) \subseteq Reached(h, q)
      BY <2>3, <2>4, SymbolsReached
  <2>6. Orphans(h, q) \subseteq Orphans(g, q) \cup (SymbolNodesOf(F, q) \ Reached(h, q))
      BY <1>2, OrphansGrow
  <2> QED
      BY <2>3, <2>5, <2>6
<1> QED
    BY <1>2, <1>3 DEF Leaves, h

\* _UPSERT_CHUNKS leaves the chunks in reach, if the files are.
LEMMA UpsertChunksLeaves ==
    ASSUME NEW g, GraphOK(g), NEW q, NEW sha, NEW F, Parsed(F)
    PROVE  Leaves(g, UpsertChunks(g, q, F), q, sha, F, "Chunks",
                  Left(g, q, sha, F, "Commit") /\ Left(g, q, sha, F, "Files"))
<1> DEFINE h == UpsertChunks(g, q, F)
<1>1. Merged(g, h, ChunkNodesOf(F, q), ChunkEdges(F, q, FilesIn(g, F, q)))
    BY UpsertChunksIs
<1> HIDE DEF h
<1>2. Grown(g, h, ChunkNodesOf(F, q)) /\ Grown(g, h, Wanted(F, q))
    BY <1>1, MergedGrows DEF Wanted
<1>3. ASSUME Left(g, q, sha, F, "Commit"), Left(g, q, sha, F, "Files")
      PROVE  Left(h, q, sha, F, "Chunks") /\ Orphans(h, q) \subseteq Orphans(g, q)
  <2>1. Left(h, q, sha, F, "Commit") /\ Left(h, q, sha, F, "Files")
      BY <1>2, <1>3, LeftGrows
  <2>2. FilesIn(g, F, q) = InRepo(F, q)
      BY <1>3, FilesThere
  <2>3. Left(h, q, sha, F, "Chunks")
      BY <1>1, <2>2 DEF Left, Merged
  <2>4. FileNodesOf(F, q) \subseteq FilesOf(h, q)
      BY <2>1, FilesReached
  <2>5. ChunkNodesOf(F, q) \subseteq Reached(h, q)
      BY <2>3, <2>4, ChunksReached
  <2>6. Orphans(h, q) \subseteq Orphans(g, q) \cup (ChunkNodesOf(F, q) \ Reached(h, q))
      BY <1>2, OrphansGrow
  <2> QED
      BY <2>3, <2>5, <2>6
<1> QED
    BY <1>2, <1>3 DEF Leaves, h
=============================================================================
