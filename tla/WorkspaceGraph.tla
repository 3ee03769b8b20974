--------------------------- MODULE WorkspaceGraph ---------------------------
(***************************************************************************)
(* The persisted code graph and the Cypher statements of graph/writer.py.   *)
(*                                                                         *)
(* A graph is a record: "node" maps every node that exists to the property *)
(* that matters about it (the hash of a File, the file and content that    *)
(* last SET a Symbol, the file_path of a Module, ...), "edge" is the set    *)
(* of relationships <<from, type, to>>.  Each statement of the writer runs  *)
(* in one transaction and is one operator from graph to graph: a MATCH that *)
(* finds nothing makes the statement a no-op, MERGE creates what is         *)
(* missing, SET overwrites, DETACH DELETE drops a node with its edges.      *)
(*                                                                         *)
(* A file's content is an opaque value (its BLAKE3 hash); what the parser,  *)
(* extractors and chunker derive from it is the constant Parse.             *)
(***************************************************************************)
EXTENDS Naturals, Sequences, FiniteSets, Functions

CONSTANTS
    RepoOrder,  \* the repositories of the workspace, in manifest order
    Paths,      \* source files, each in one repository
    RepoOf,     \* [Paths -> repository]
    Contents,   \* possible contents of a file
    Parse,      \* [Paths -> [Contents -> what indexing derives from the file]]
    Absent      \* the file does not exist

Repos == Range(RepoOrder)

\* A manifest declares at least one repository, each with a name and none twice.
ASSUME GraphAssumption ==
    /\ RepoOrder \in Seq(Repos) /\ RepoOrder # << >> /\ IsInjective(RepoOrder)
    /\ "" \notin Repos
    /\ IsFiniteSet(Paths)
    /\ RepoOf \in [Paths -> Repos]
    /\ Absent \notin Contents
    /\ DOMAIN Parse = Paths

\* A symbol that another encloses is one of the file's.
ASSUME ParseAssumption ==
    \A p \in Paths : \A c \in DOMAIN Parse[p] :
        \A e \in Parse[p][c].encloses : e[2] \in Parse[p][c].syms

(***************************************************************************)
(* Node identities: the MERGE key of each label.                            *)
(***************************************************************************)
RepoNode(r) == <<"Repository", r, "">>
CommitNode(r, sha) == <<"Commit", r, sha>>
FileNode(p) == <<"File", RepoOf[p], p>>
ModuleNode(r, m) == <<"Module", r, m>>
SymbolNode(r, s) == <<"Symbol", r, s>>
FeatureNode(p, ft) == <<ft.kind, RepoOf[p], <<p, ft.key>>>>
ChunkNode(p, k) == <<"Chunk", RepoOf[p], <<p, k>>>>
TopicNode(k) == <<"KafkaTopic", "", k>>

HttpLabels == {"Route", "HttpClientCall"}
KafkaLabels == {"KafkaProducer", "KafkaConsumer"}
FeatureLabels == HttpLabels \cup KafkaLabels

\* The relationship from a symbol to a feature found inside it.
OwnerRel(kind) ==
    CASE kind = "Route" -> "HANDLES"
      [] kind = "HttpClientCall" -> "INVOKES"
      [] kind = "KafkaProducer" -> "PRODUCES"
      [] kind = "KafkaConsumer" -> "CONSUMES"

TopicRel(kind) == IF kind = "KafkaProducer" THEN "WRITES_TO" ELSE "READS_FROM"

(***************************************************************************)
(* Graph algebra.                                                           *)
(***************************************************************************)
EmptyGraph == [node |-> << >>, edge |-> {}]

Exists(g, n) == n \in DOMAIN g.node

Labelled(g, labels) == {n \in DOMAIN g.node : n[1] \in labels}

\* Where the edges of type rel that leave a node of N lead.
Out(g, N, rel) == {e[3] : e \in {x \in g.edge : x[1] \in N /\ x[2] = rel}}

\* Mutant of DetachDelete: only the outgoing edges go with a node.
DeleteKeepingIncoming(g, N) ==
    [node |-> Restrict(g.node, DOMAIN g.node \ N),
     edge |-> {e \in g.edge : e[1] \notin N}]

DetachDelete(g, N) ==
    [node |-> Restrict(g.node, DOMAIN g.node \ N),
     edge |-> {e \in g.edge : e[1] \notin N /\ e[3] \notin N}]

\* SET: the new values where there are some, the old ones elsewhere.
Over(new, old) ==
    [x \in DOMAIN new \cup DOMAIN old |-> IF x \in DOMAIN new THEN new[x] ELSE old[x]]

\* MERGE the nodes of DOMAIN props and SET their properties, MERGE the edges.
Upsert(g, props, edges) ==
    [node |-> Over(props, g.node), edge |-> g.edge \cup edges]

(***************************************************************************)
(* What a set of parsed files carries.  F maps the parsed files to their    *)
(* contents: the FileRecords of a bundle.                                   *)
(***************************************************************************)
Rec(F, p) == Parse[p][F[p]]

InRepo(F, r) == {p \in DOMAIN F : RepoOf[p] = r}

SymbolsOf(F, r) == UNION {Rec(F, p).syms : p \in InRepo(F, r)}

FeaturesOf(F, kinds) ==
    UNION {{<<p, ft>> : ft \in {x \in Rec(F, p).feats : x.kind \in kinds}} : p \in DOMAIN F}

ChunksOf(F, r) == UNION {{<<p, k>> : k \in Rec(F, p).chunks} : p \in InRepo(F, r)}

(***************************************************************************)
(* Full-refresh clearing.  _CLEAR_REPO finds files only through a commit of *)
(* the repository, symbols and chunks only through a file.                  *)
(***************************************************************************)
\* Mutant of ClearRepo: files are deleted, their symbols are not.
ClearFilesOnly(g, r) ==
    LET c == Out(g, {RepoNode(r)}, "HAS_COMMIT")
    IN  DetachDelete(g, c \cup Out(g, c, "CONTAINS"))

ClearRepo(g, r) ==
    LET c == Out(g, {RepoNode(r)}, "HAS_COMMIT")
        f == Out(g, c, "CONTAINS")
    IN  DetachDelete(g, c \cup f \cup Out(g, f, "DEFINES") \cup Out(g, f, "HAS_CHUNK"))

\* Mutant of ClearRepoModules: the filter on the repository is missing.
ClearAllModules(g, r) == DetachDelete(g, Labelled(g, {"Module"}))

ClearRepoModules(g, r) ==
    DetachDelete(g, {n \in Labelled(g, {"Module"}) : n[2] = r})

\* Mutant of ClearRepoRoutesAndClients: the Kafka labels are forgotten.
ClearHttpOnly(g, r) == DetachDelete(g, {n \in Labelled(g, HttpLabels) : n[2] = r})

ClearRepoRoutesAndClients(g, r) ==
    DetachDelete(g, {n \in Labelled(g, FeatureLabels) : n[2] = r})

(***************************************************************************)
(* Structural upserts.                                                      *)
(***************************************************************************)
\* _UPSERT_WORKSPACE and _UPSERT_REPO: the repository's last_indexed_sha.
UpsertRepo(g, r, sha) == Upsert(g, [n \in {RepoNode(r)} |-> sha], {})

UpsertCommit(g, r, sha) ==
    IF Exists(g, RepoNode(r))
    THEN Upsert(g, [n \in {CommitNode(r, sha)} |-> sha],
                {<<RepoNode(r), "HAS_COMMIT", CommitNode(r, sha)>>})
    ELSE g

\* Mutant of UpsertFiles: the hash is set only when the node is created.
UpsertFilesOnCreate(g, r, sha, F) ==
    IF Exists(g, CommitNode(r, sha))
    THEN [node |-> Over(g.node, [n \in {FileNode(p) : p \in InRepo(F, r)} |-> F[n[3]]]),
          edge |-> g.edge \cup
                   {<<CommitNode(r, sha), "CONTAINS", FileNode(p)>> : p \in InRepo(F, r)}]
    ELSE g

\* The MATCH of the commit comes first: without it no file is written.
UpsertFiles(g, r, sha, F) ==
    IF Exists(g, CommitNode(r, sha))
    THEN Upsert(g, [n \in {FileNode(p) : p \in InRepo(F, r)} |-> F[n[3]]],
                {<<CommitNode(r, sha), "CONTAINS", FileNode(p)>> : p \in InRepo(F, r)})
    ELSE g

\* A module's file_path is that of the last file that yields its FQN.
UpsertModules(g, r, F) ==
    LET files == InRepo(F, r)
    IN  Upsert(g,
               [n \in {ModuleNode(r, Rec(F, p).module) : p \in files} |->
                    CHOOSE p \in files : Rec(F, p).module = n[3]],
               {<<FileNode(p), "DEFINES_MODULE", ModuleNode(r, Rec(F, p).module)>> :
                    p \in {q \in files : Exists(g, FileNode(q))}})

\* MERGE the symbol, then MATCH its file: no file, no DEFINES and no ENCLOSES.
UpsertSymbols(g, r, F) ==
    LET files == InRepo(F, r)
        held == {p \in files : Exists(g, FileNode(p))}
        syms == {SymbolNode(r, s) : s \in SymbolsOf(F, r)}
        definer(s) == CHOOSE p \in files : s \in Rec(F, p).syms
        there == DOMAIN g.node \cup syms
    IN  Upsert(g,
               [n \in syms |-> <<definer(n[3]), F[definer(n[3])]>>],
               (UNION {{<<FileNode(p), "DEFINES", SymbolNode(r, s)>> : s \in Rec(F, p).syms} :
                          p \in held})
               \cup (UNION {{<<SymbolNode(r, e[1]), "ENCLOSES", SymbolNode(r, e[2])>> :
                          e \in {x \in Rec(F, p).encloses : SymbolNode(r, x[1]) \in there}} :
                          p \in held}))

\* One of _UPSERT_ROUTES, _HTTP_CLIENTS, _KAFKA_PRODUCERS, _KAFKA_CONSUMERS.
UpsertFeatures(g, kind, r, F) ==
    LET fs == {x \in FeaturesOf(F, {kind}) : RepoOf[x[1]] = r}
        topics == IF kind \in KafkaLabels THEN {TopicNode(x[2].key) : x \in fs} ELSE {}
    IN  Upsert(g,
               [n \in {FeatureNode(x[1], x[2]) : x \in fs} \cup topics |-> n[3]],
               {<<SymbolNode(r, x[2].owner), OwnerRel(kind), FeatureNode(x[1], x[2])>> :
                    x \in {y \in fs : Exists(g, SymbolNode(r, y[2].owner))}}
               \cup {<<FeatureNode(x[1], x[2]), TopicRel(kind), TopicNode(x[2].key)>> :
                    x \in {y \in fs : kind \in KafkaLabels}})

\* Chunk ids are file coordinates, so a re-chunked file overwrites the text.
UpsertChunks(g, r, F) ==
    Upsert(g, [n \in {ChunkNode(x[1], x[2]) : x \in ChunksOf(F, r)} |-> F[n[3][1]]],
           {<<FileNode(x[1]), "HAS_CHUNK", ChunkNode(x[1], x[2])>> :
                x \in {y \in ChunksOf(F, r) : Exists(g, FileNode(y[1]))}})

(***************************************************************************)
(* Derived edges.  The resolver and the two flow matchers see the bundle    *)
(* only; the writer then MATCHes both ends in the graph.                    *)
(***************************************************************************)
\* resolve_workspace: a callee in the caller's repository; else an imported one,
\* which the import-suffix strategy attributes to the caller's repository
\* although it is another that defines it; else the only symbol of that name.
ResolvedCalls(F, r) ==
    LET index == UNION {{SymbolNode(q, s) : s \in SymbolsOf(F, q)} : q \in Repos}
        found(s) == {n \in index : n[3] = s}
        target(p, s) ==
            CASE SymbolNode(r, s) \in index -> {SymbolNode(r, s)}
              [] SymbolNode(r, s) \notin index /\ s \in Rec(F, p).imports ->
                    {SymbolNode(r, n[3]) : n \in found(s)}
              [] OTHER -> IF Cardinality(found(s)) = 1 THEN found(s) ELSE {}
    IN  UNION {UNION {{<<SymbolNode(r, c[1]), "CALLS", n>> : n \in target(p, c[2])} :
                   c \in Rec(F, p).calls} : p \in InRepo(F, r)}

UpsertCalls(g, r, F) ==
    Upsert(g, << >>,
           {e \in ResolvedCalls(F, r) : Exists(g, e[1]) /\ Exists(g, e[3])})

\* resolved_fqn is set when some symbol of the bundle has that FQN; the MATCH
\* then takes every symbol of the workspace with it.
UpsertImports(g, r, F) ==
    LET known == UNION {SymbolsOf(F, q) : q \in Repos}
    IN  Upsert(g, << >>,
           UNION {{<<FileNode(p), "IMPORTS", n>> :
                      n \in {s \in Labelled(g, {"Symbol"}) :
                                 s[3] \in Rec(F, p).imports \cap known}} :
                  p \in {q \in InRepo(F, r) : Exists(g, FileNode(q))}})

ClearFlows(g, rel) == [g EXCEPT !.edge = {e \in @ : e[2] # rel}]

\* match_http_flows: <<client node, repository of the route, path>>.
HttpFlows(F) ==
    {<<FeatureNode(z[1][1], z[1][2]), RepoOf[z[2][1]], z[2][2].key>> :
        z \in {x \in FeaturesOf(F, {"HttpClientCall"}) \X FeaturesOf(F, {"Route"}) :
                  x[1][2].key = x[2][2].key}}

UpsertHttpFlows(g, F) ==
    Upsert(g, << >>,
           {<<e[1][1], "HTTP_FLOW", e[2]>> :
               e \in {x \in HttpFlows(F) \X Labelled(g, {"Route"}) :
                         /\ Exists(g, x[1][1])
                         /\ x[2][2] = x[1][2]
                         /\ x[2][3][2] = x[1][3]}})

\* match_kafka_flows: <<producer repository, consumer repository, topic>>.
KafkaFlows(F) ==
    {<<RepoOf[z[1][1]], RepoOf[z[2][1]], z[1][2].key>> :
        z \in {x \in FeaturesOf(F, {"KafkaProducer"}) \X FeaturesOf(F, {"KafkaConsumer"}) :
                  x[1][2].key = x[2][2].key}}

UpsertKafkaFlows(g, F) ==
    LET match(label, repo, topic) ==
            {n \in Labelled(g, {label}) : n[2] = repo /\ n[3][2] = topic}
    IN  Upsert(g, << >>,
           UNION {{<<a, "KAFKA_FLOW", b>> :
                      a \in match("KafkaProducer", e[1], e[3]),
                      b \in match("KafkaConsumer", e[2], e[3])} : e \in KafkaFlows(F)})

(***************************************************************************)
(* Surgical deletes of the incremental path, for the files P of repository  *)
(* r.  Features and modules are found by their file_path property, symbols  *)
(* and chunks through the file.                                             *)
(***************************************************************************)
\* Mutant of DeleteFeaturesForFiles: the paths are ignored.
DeleteFeaturesOfRepo(g, r, P) ==
    DetachDelete(g, {n \in Labelled(g, FeatureLabels) : n[2] = r})

DeleteFeaturesForFiles(g, r, P) ==
    DetachDelete(g, {n \in Labelled(g, FeatureLabels) : n[2] = r /\ n[3][1] \in P})

DeleteModulesForFiles(g, r, P) ==
    DetachDelete(g, {n \in Labelled(g, {"Module"}) : n[2] = r /\ g.node[n] \in P})

DeleteFiles(g, P) ==
    LET f == {n \in Labelled(g, {"File"}) : n[3] \in P}
    IN  DetachDelete(g, f \cup Out(g, f, "DEFINES") \cup Out(g, f, "HAS_CHUNK"))

\* fetch_existing_hashes: the hashes of the files a repository's commits contain.
ExistingHashes(g, r) ==
    LET f == Out(g, Out(g, {RepoNode(r)}, "HAS_COMMIT"), "CONTAINS")
    IN  [p \in {n[3] : n \in f} |-> g.node[FileNode(p)]]

(***************************************************************************)
(* The graph a set of files stands for, said directly: the reference the    *)
(* writer's statement sequences are compared with.  sha maps a repository   *)
(* to the commit it was indexed at.                                         *)
(***************************************************************************)
FileNodes(F) == {FileNode(p) : p \in DOMAIN F}

DerivedNodes(F) ==
    {ModuleNode(RepoOf[p], Rec(F, p).module) : p \in DOMAIN F}
    \cup (UNION {{SymbolNode(RepoOf[p], s) : s \in Rec(F, p).syms} : p \in DOMAIN F})
    \cup (UNION {{ChunkNode(p, k) : k \in Rec(F, p).chunks} : p \in DOMAIN F})
    \cup {FeatureNode(x[1], x[2]) : x \in FeaturesOf(F, FeatureLabels)}

\* The edges from a file to what it defines and from a symbol of its own to its
\* features; what stands in the module itself has the module as its parent or owner, and
\* that is no Symbol.
LocalEdges(F) ==
    (UNION {{<<FileNode(p), "DEFINES", SymbolNode(RepoOf[p], s)>> : s \in Rec(F, p).syms} :
            p \in DOMAIN F})
    \cup (UNION {{<<FileNode(p), "HAS_CHUNK", ChunkNode(p, k)>> : k \in Rec(F, p).chunks} :
            p \in DOMAIN F})
    \cup {<<FileNode(p), "DEFINES_MODULE", ModuleNode(RepoOf[p], Rec(F, p).module)>> :
            p \in DOMAIN F}
    \cup {<<SymbolNode(RepoOf[x[1]], x[2].owner), OwnerRel(x[2].kind), FeatureNode(x[1], x[2])>> :
            x \in {y \in FeaturesOf(F, FeatureLabels) : y[2].owner \in Rec(F, y[1]).syms}}
    \cup (UNION {{<<SymbolNode(RepoOf[p], e[1]), "ENCLOSES", SymbolNode(RepoOf[p], e[2])>> :
            e \in {x \in Rec(F, p).encloses : x[1] \in Rec(F, p).syms}} : p \in DOMAIN F})
    \cup {<<FeatureNode(x[1], x[2]), TopicRel(x[2].kind), TopicNode(x[2].key)>> :
            x \in FeaturesOf(F, KafkaLabels)}

\* The edges to features from the symbols that own them, wherever those are
\* defined: an Express handler is named as it stands in the call, which may be
\* the FQN of a symbol of another file.
OwnerEdges(F) ==
    {<<SymbolNode(RepoOf[x[1]], x[2].owner), OwnerRel(x[2].kind), FeatureNode(x[1], x[2])>> :
        x \in {y \in FeaturesOf(F, FeatureLabels) : y[2].owner \in SymbolsOf(F, RepoOf[y[1]])}}

\* Every pair of a source and a sink with the same path or topic.
FlowEdges(F, source, rel, sink) ==
    {<<FeatureNode(z[1][1], z[1][2]), rel, FeatureNode(z[2][1], z[2][2])>> :
        z \in {x \in FeaturesOf(F, {source}) \X FeaturesOf(F, {sink}) :
                  x[1][2].key = x[2][2].key}}

AllFlowEdges(F) ==
    FlowEdges(F, "HttpClientCall", "HTTP_FLOW", "Route")
    \cup FlowEdges(F, "KafkaProducer", "KAFKA_FLOW", "KafkaConsumer")

ImportEdges(F) ==
    UNION {{<<FileNode(z[1]), "IMPORTS", SymbolNode(RepoOf[z[2]], s)>> :
               s \in Rec(F, z[1]).imports \cap Rec(F, z[2]).syms} :
           z \in (DOMAIN F) \X (DOMAIN F)}

CallEdges(F) ==
    {e \in UNION {ResolvedCalls(F, r) : r \in Repos} : {e[1], e[3]} \subseteq DerivedNodes(F)}
=============================================================================
