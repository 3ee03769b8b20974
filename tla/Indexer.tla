------------------------------- MODULE Indexer -------------------------------
(***************************************************************************)
(* Indexer runs against one workspace: indexer.index_workspace together     *)
(* with incremental.py and graph/writer.py's GraphWriter.                   *)
(*                                                                         *)
(* A run reads existing hashes (incremental mode), walks the checkouts,     *)
(* derives calls and flows from its bundle, and then writes: one Neo4j      *)
(* transaction per statement, in the order of the writer's code.  A         *)
(* transient error restarts the write from its first statement, at most     *)
(* MaxAttempts times; a crash leaves what was committed.  Several indexers  *)
(* (CI, the index_repository tool, an abandoned tool call) may run at once: *)
(* nothing in the code excludes them from each other.                       *)
(***************************************************************************)
EXTENDS WorkspaceGraph, SequencesExt

CONSTANTS
    Indexers,     \* processes that may run the indexer
    Modes,        \* subset of {"full", "delta"}: what --incremental selects
    Scopes,       \* per indexer, the repository lists it is run on: the whole
                  \* workspace in manifest order, or --repo's one
    Shas,         \* commits the checkouts may be at
    Unparsable,   \* contents whose parse raises
    Oversize,     \* contents above max_file_bytes
    InitDisk,     \* [Paths -> Contents \cup {Absent}]
    MaxAttempts,  \* attempts of a retried writer method (5 in the code)
    MaxRuns,      \* bound: runs started
    MaxEdits,     \* bound: edits to the checkouts
    MaxFaults     \* bound: crashes and read errors

ASSUME IndexerAssumption ==
    /\ Modes \subseteq {"full", "delta"}
    /\ Scopes \in [Indexers -> SUBSET ({RepoOrder} \cup {<<r>> : r \in Repos})]
    /\ Unparsable \subseteq Contents /\ Oversize \subseteq Contents
    /\ \A p \in Paths : Contents \ (Unparsable \cup Oversize) \subseteq DOMAIN Parse[p]
    /\ InitDisk \in [Paths -> Contents \cup {Absent}]
    /\ MaxAttempts \in Nat \ {0} /\ {MaxRuns, MaxEdits, MaxFaults} \subseteq Nat

VARIABLES
    disk,    \* the working copies the local checkouts are
    graph,   \* the Neo4j database
    proc,    \* per indexer, the local state of its current run
    torn,    \* history: repositories a dead run may have left half-written
    tangled, \* history: repositories two runs wrote at once, not alike or not to the end
    bound    \* how much of the bounds is used up

vars == <<disk, graph, proc, torn, tangled, bound>>

NoRun == [pc |-> "idle", mode |-> "full", scope |-> << >>, sha |-> "", idx |-> 1,
          known |-> << >>, changed |-> {}, deleted |-> {}, files |-> << >>,
          plan |-> << >>, k |-> 1, att |-> 1, datt |-> 1, met |-> {}]

Init ==
    /\ disk = InitDisk
    /\ graph = EmptyGraph
    /\ proc = [i \in Indexers |-> NoRun]
    /\ torn = {}
    /\ tangled = {}
    /\ bound = [runs |-> 0, edits |-> 0, faults |-> 0]

Running(i) == proc[i].pc \notin {"idle", "done", "failed"}

\* Two runs that write the same: of the same files, at the same commit.
Alike(p, q) ==
    /\ p.mode = q.mode /\ p.scope = q.scope /\ p.sha = q.sha
    /\ p.files = q.files /\ p.deleted = q.deleted

(***************************************************************************)
(* The environment: somebody edits, adds or removes a source file.          *)
(***************************************************************************)
EditFile(p, c) ==
    /\ bound.edits < MaxEdits
    /\ disk[p] # c
    /\ disk' = [disk EXCEPT ![p] = c]
    /\ bound' = [bound EXCEPT !.edits = @ + 1]
    /\ UNCHANGED <<graph, proc, torn, tangled>>

(***************************************************************************)
(* Reading: hashes from the graph, then repository after repository from    *)
(* the checkout.  unread is the set of files whose stat or read fails.      *)
(***************************************************************************)
StartRun(i, mode, scope, sha) ==
    /\ ~Running(i)
    /\ bound.runs < MaxRuns
    /\ proc' = [proc EXCEPT ![i] = [NoRun EXCEPT
                    !.pc = IF mode = "delta" THEN "fetch" ELSE "walk",
                    !.mode = mode, !.scope = scope, !.sha = sha]]
    /\ bound' = [bound EXCEPT !.runs = @ + 1]
    /\ UNCHANGED <<disk, graph, torn, tangled>>

\* After the last repository of a loop go on with stage next, else stay in loop.
NextRepo(p, loop, next) ==
    IF p.idx = Len(p.scope) THEN [p EXCEPT !.pc = next, !.idx = 1]
    ELSE [p EXCEPT !.pc = loop, !.idx = @ + 1]

FetchHashes(i) ==
    LET p == proc[i] IN
    /\ p.pc = "fetch"
    /\ proc' = [proc EXCEPT ![i] = NextRepo(
                    [p EXCEPT !.known = Over(ExistingHashes(graph, p.scope[p.idx]), @)],
                    "fetch", "diff")]
    /\ UNCHANGED <<disk, graph, torn, tangled, bound>>

SourceFiles(r) == {q \in Paths : RepoOf[q] = r /\ disk[q] \notin {Absent} \cup Oversize}

ReadErrors(unread, r) ==
    /\ unread \subseteq SourceFiles(r)
    /\ bound.faults + Cardinality(unread) <= MaxFaults
    /\ bound' = [bound EXCEPT !.faults = @ + Cardinality(unread)]

\* _iter_repo_source_pairs and compute_diff.
DiffRepo(i, unread) ==
    LET p == proc[i]
        r == p.scope[p.idx]
        seen == SourceFiles(r) \ unread
        mine == {q \in DOMAIN p.known : RepoOf[q] = r}
        same == {q \in seen \cap mine : p.known[q] = disk[q]}
    IN
    /\ p.pc = "diff"
    /\ ReadErrors(unread, r)
    /\ proc' = [proc EXCEPT ![i].changed = @ \cup (seen \ same),
                            ![i].deleted = @ \cup (mine \ seen),
                            ![i].pc = "walk"]
    /\ UNCHANGED <<disk, graph, torn, tangled>>

(***************************************************************************)
(* Writing.  A plan is the sequence of statements a run executes; a         *)
(* statement with an empty payload is not executed at all.                  *)
(***************************************************************************)
Stmt(op, r) == [op |-> op, repo |-> r]

DeleteOps == {"DeleteFeatures", "DeleteModules", "DeleteFiles"}

\* _write_repo_content
ContentPlan(p, r) ==
    LET feature(kind) == {x \in FeaturesOf(p.files, {kind}) : RepoOf[x[1]] = r}
        when(nonempty, op) == IF nonempty THEN <<Stmt(op, r)>> ELSE << >>
        files == InRepo(p.files, r) # {}
    IN  <<Stmt("Repo", r), Stmt("Commit", r)>>
        \o when(files, "Files") \o when(files, "Modules")
        \o when(SymbolsOf(p.files, r) # {}, "Symbols")
        \o when(feature("Route") # {}, "Route")
        \o when(feature("HttpClientCall") # {}, "HttpClientCall")
        \o when(feature("KafkaProducer") # {}, "KafkaProducer")
        \o when(feature("KafkaConsumer") # {}, "KafkaConsumer")
        \o when(ChunksOf(p.files, r) # {}, "Chunks")

DeletedIn(p, r) == {q \in p.deleted : RepoOf[q] = r}

\* _write_repo, or delete_files and _write_repo_delta
RepoPlan(p, r) ==
    (IF p.mode = "full"
     THEN <<Stmt("ClearRepo", r), Stmt("ClearModules", r), Stmt("ClearFeatures", r)>>
     ELSE IF DeletedIn(p, r) # {}
     THEN <<Stmt("DeleteFeatures", r), Stmt("DeleteModules", r), Stmt("DeleteFiles", r)>>
     ELSE << >>)
    \o ContentPlan(p, r)

\* write_workspace_bundle and write_workspace_bundle_delta
Plan(p) ==
    LET perRepo(op, nonempty(_)) ==
            FlattenSeq([j \in 1..Len(p.scope) |->
                IF nonempty(p.scope[j]) THEN <<Stmt(op, p.scope[j])>> ELSE << >>])
        calls(r) == ResolvedCalls(p.files, r) # {}
        imports(r) == \E q \in InRepo(p.files, r) :
            Rec(p.files, q).imports \cap UNION {SymbolsOf(p.files, s) : s \in Repos} # {}
    IN  FlattenSeq([j \in 1..Len(p.scope) |-> RepoPlan(p, p.scope[j])])
        \o <<Stmt("ClearHttpFlows", ""), Stmt("ClearKafkaFlows", "")>>
        \o perRepo("Calls", calls) \o perRepo("Imports", imports)
        \o (IF HttpFlows(p.files) # {} THEN <<Stmt("HttpFlows", "")>> ELSE << >>)
        \o (IF KafkaFlows(p.files) # {} THEN <<Stmt("KafkaFlows", "")>> ELSE << >>)

\* A run starts to write.  The history notes which repositories it shares
\* with another writing run, and that they are tangled if the two differ.
BeginWrite(i, p) ==
    LET writing == {j \in Indexers \ {i} : proc[j].pc = "write"}
        shared(j) == Range(p.scope) \cap Range(proc[j].scope)
    IN
    /\ proc' = [j \in Indexers |->
                  CASE j = i -> [p EXCEPT !.plan = Plan(p), !.met = UNION {shared(w) : w \in writing}]
                    [] j \in writing -> [proc[j] EXCEPT !.met = @ \cup shared(j)]
                    [] OTHER -> proc[j]]
    /\ tangled' = tangled \cup UNION {shared(j) : j \in {w \in writing : ~Alike(p, proc[w])}}

\* _walk_repo; after the last repository the resolver and the matchers run and
\* the write begins.
WalkRepo(i, unread) ==
    LET p == proc[i]
        r == p.scope[p.idx]
        wanted == IF p.mode = "delta" THEN SourceFiles(r) \cap p.changed ELSE SourceFiles(r)
        parsed == {q \in wanted \ unread : disk[q] \notin Unparsable}
        read == NextRepo([p EXCEPT !.files = Over(@, [q \in parsed |-> disk[q]])],
                         IF p.mode = "delta" THEN "diff" ELSE "walk", "write")
    IN
    /\ p.pc = "walk"
    /\ ReadErrors(unread, r)
    /\ IF read.pc = "write" THEN BeginWrite(i, read)
       ELSE proc' = [proc EXCEPT ![i] = read] /\ UNCHANGED tangled
    /\ UNCHANGED <<disk, graph, torn>>

\* The effect of one committed statement of run p on graph g.
Apply(g, st, p) ==
    LET r == st.repo IN
    CASE st.op = "ClearRepo"       -> ClearRepo(g, r)
      [] st.op = "ClearModules"    -> ClearRepoModules(g, r)
      [] st.op = "ClearFeatures"   -> ClearRepoRoutesAndClients(g, r)
      [] st.op = "DeleteFeatures"  -> DeleteFeaturesForFiles(g, r, DeletedIn(p, r))
      [] st.op = "DeleteModules"   -> DeleteModulesForFiles(g, r, DeletedIn(p, r))
      [] st.op = "DeleteFiles"     -> DeleteFiles(g, DeletedIn(p, r))
      [] st.op = "Repo"            -> UpsertRepo(g, r, p.sha)
      [] st.op = "Commit"          -> UpsertCommit(g, r, p.sha)
      [] st.op = "Files"           -> UpsertFiles(g, r, p.sha, p.files)
      [] st.op = "Modules"         -> UpsertModules(g, r, p.files)
      [] st.op = "Symbols"         -> UpsertSymbols(g, r, p.files)
      [] st.op \in FeatureLabels   -> UpsertFeatures(g, st.op, r, p.files)
      [] st.op = "Chunks"          -> UpsertChunks(g, r, p.files)
      [] st.op = "ClearHttpFlows"  -> ClearFlows(g, "HTTP_FLOW")
      [] st.op = "ClearKafkaFlows" -> ClearFlows(g, "KAFKA_FLOW")
      [] st.op = "Calls"           -> UpsertCalls(g, r, p.files)
      [] st.op = "Imports"         -> UpsertImports(g, r, p.files)
      [] st.op = "HttpFlows"       -> UpsertHttpFlows(g, p.files)
      [] st.op = "KafkaFlows"      -> UpsertKafkaFlows(g, p.files)

\* The statement a writing run executes next.
AtStatement(i) == proc[i].pc = "write" /\ proc[i].k <= Len(proc[i].plan)
Current(i) == proc[i].plan[proc[i].k]

\* One session.execute_write that succeeds.
WriteStep(i) ==
    /\ AtStatement(i)
    /\ graph' = Apply(graph, Current(i), proc[i])
    /\ proc' = [proc EXCEPT ![i].k = @ + 1,
                            ![i].datt = IF Current(i).op = "DeleteFiles" THEN 1 ELSE @]
    /\ UNCHANGED <<disk, torn, tangled, bound>>

\* Mutant of Retry: the write resumes after the statement that failed.
RetryResumes(p, st) ==
    IF p.att < MaxAttempts THEN [p EXCEPT !.k = @ + 1, !.att = @ + 1, !.datt = 1]
    ELSE [p EXCEPT !.pc = "failed"]

\* Mutant of Retry: attempts of the whole write are not counted.
RetryForever(p, st) == [p EXCEPT !.k = 1, !.datt = 1]

\* Restart of the write after an error at statement st: delete_files is
\* retried on its own first, then the whole method, then the error is raised.
Retry(p, st) ==
    LET first == CHOOSE j \in 1..p.k : p.plan[j] = Stmt("DeleteFeatures", st.repo)
    IN  CASE st.op \in DeleteOps /\ p.datt < MaxAttempts ->
                [p EXCEPT !.k = first, !.datt = @ + 1]
          [] (st.op \notin DeleteOps \/ p.datt = MaxAttempts) /\ p.att < MaxAttempts ->
                [p EXCEPT !.k = 1, !.att = @ + 1, !.datt = 1]
          [] OTHER -> [p EXCEPT !.pc = "failed"]

\* What a run leaves that ends in the middle of its write.
Dies(i) ==
    /\ torn' = torn \cup Range(proc[i].scope)
    /\ tangled' = tangled \cup proc[i].met

\* A transient error of the driver; the transaction may have been committed.
TransientError(i) ==
    /\ AtStatement(i)
    /\ \/ graph' = graph
       \/ graph' = Apply(graph, Current(i), proc[i])
    /\ proc' = [proc EXCEPT ![i] = Retry(proc[i], Current(i))]
    /\ IF proc'[i].pc = "failed" THEN Dies(i) ELSE UNCHANGED <<torn, tangled>>
    /\ UNCHANGED <<disk, bound>>

\* The process is killed; what happens before the first write leaves no trace.
Crash(i) ==
    /\ proc[i].pc = "write"
    /\ bound.faults < MaxFaults
    /\ proc' = [proc EXCEPT ![i] = NoRun]
    /\ Dies(i)
    /\ bound' = [bound EXCEPT !.faults = @ + 1]
    /\ UNCHANGED <<disk, graph>>

\* The writer returns its stats.
Finish(i) ==
    /\ proc[i].pc = "write"
    /\ proc[i].k > Len(proc[i].plan)
    /\ proc' = [proc EXCEPT ![i].pc = "done"]
    /\ torn' = IF proc[i].mode = "full" THEN torn \ Range(proc[i].scope) ELSE torn
    /\ UNCHANGED <<disk, graph, tangled, bound>>

Step(i) ==
    \/ FetchHashes(i)
    \/ \E unread \in SUBSET Paths : DiffRepo(i, unread)
    \/ \E unread \in SUBSET Paths : WalkRepo(i, unread)
    \/ WriteStep(i)
    \/ TransientError(i)
    \/ Finish(i)

Next ==
    \/ \E p \in Paths, c \in Contents \cup {Absent} : EditFile(p, c)
    \/ \E i \in Indexers :
          \/ \E mode \in Modes, scope \in Scopes[i], sha \in Shas : StartRun(i, mode, scope, sha)
          \/ Step(i)
          \/ Crash(i)

Spec == Init /\ [][Next]_vars

\* A started run keeps going: the process is scheduled, tenacity's wait ends.
\* This is WF_vars(Step(i)) with its ENABLED spelled out, which is Running(i)
\* (TLC evaluates the ENABLED of statements that compute graphs very slowly).
FairSpec ==
    Spec /\ \A i \in Indexers : []<>~Running(i) \/ []<><<proc'[i] # proc[i]>>_vars

-----------------------------------------------------------------------------
(***************************************************************************)
(* Properties.                                                              *)
(***************************************************************************)
\* Every variable has its type; a graph has no dangling edge.
TypeOK ==
    /\ disk \in [Paths -> Contents \cup {Absent}]
    /\ \A e \in graph.edge : Exists(graph, e[1]) /\ Exists(graph, e[3])
    /\ DOMAIN proc = Indexers
    /\ \A i \in Indexers : LET p == proc[i] IN
          /\ p.pc \in {"idle", "fetch", "diff", "walk", "write", "done", "failed"}
          /\ p.mode \in {"full", "delta"} /\ Range(p.scope) \subseteq Repos
          /\ DOMAIN p.files \cup DOMAIN p.known \cup p.changed \cup p.deleted \subseteq Paths
          /\ p.att \in 1..MaxAttempts /\ p.datt \in 1..MaxAttempts /\ p.k \in Nat
    /\ torn \cup tangled \subseteq Repos
    /\ bound.runs <= MaxRuns /\ bound.edits <= MaxEdits /\ bound.faults <= MaxFaults

\* The files of repositories R the graph holds, with their hashes.
GraphFiles(g, R) ==
    LET f == {n \in Labelled(g, {"File"}) : n[2] \in R}
    IN  [p \in {n[3] : n \in f} |-> g.node[FileNode(p)]]

\* Everything that indexing the files F derives from each of them is there.
Complete(g, F) == DerivedNodes(F) \subseteq DOMAIN g.node /\ LocalEdges(F) \subseteq g.edge

Finishes(i) == proc[i].pc = "write" /\ proc'[i].pc = "done"

WholeWorkspace(p) == p.scope = RepoOrder

LastWriter(i) == \A j \in Indexers \ {i} : proc[j].pc # "write"

\* The graph is that of the files F at commit sha: nothing is missing, and
\* nothing is left of what was there before (topics and repositories persist).
ExactlyIndexed(g, F, sha) ==
    LET commits == {CommitNode(r, sha) : r \in Repos}
        fileEdges == {<<CommitNode(RepoOf[p], sha), "CONTAINS", FileNode(p)>> : p \in DOMAIN F}
        repoEdges == {<<RepoNode(r), "HAS_COMMIT", CommitNode(r, sha)>> : r \in Repos}
    IN  /\ DOMAIN g.node \ Labelled(g, {"Repository", "KafkaTopic"})
              = commits \cup FileNodes(F) \cup DerivedNodes(F)
        /\ g.edge = fileEdges \cup repoEdges \cup LocalEdges(F) \cup OwnerEdges(F)
                        \cup AllFlowEdges(F) \cup CallEdges(F) \cup ImportEdges(F)
        /\ \A p \in DOMAIN F : g.node[FileNode(p)] = F[p]
        /\ \A n \in Labelled(g, {"Symbol"}) :
              LET from == g.node[n] IN F[from[1]] = from[2] /\ n[3] \in Rec(F, from[1]).syms
        /\ \A n \in Labelled(g, {"Chunk"}) : g.node[n] = F[n[3][1]]

\* A full refresh of the workspace that returns, the last of those writing,
\* leaves exactly the graph of the files it walked, whatever graph it started
\* from (after crashes, failed runs, deltas), however often the writes were
\* retried, and however its statements fell between those of other runs that
\* wrote the same and returned too.
FullRefreshExact ==
    [][\A i \in Indexers :
          Finishes(i) /\ proc[i].mode = "full" /\ WholeWorkspace(proc[i])
                      /\ LastWriter(i) /\ tangled = {}
              => ExactlyIndexed(graph, proc[i].files, proc[i].sha)]_vars

\* Between any two statements every File, Symbol and Chunk can be reached from
\* its Repository: _CLEAR_REPO finds them in no other way, so a node that is
\* not reachable would survive every later refresh.  While two runs write a
\* repository at once there are such nodes; they are gone when both have
\* returned, if both wrote the same.
NoOrphans ==
    LET f == Out(graph, Out(graph, {RepoNode(r) : r \in Repos}, "HAS_COMMIT"), "CONTAINS")
        met == tangled \cup UNION {proc[i].met : i \in {j \in Indexers : proc[j].pc = "write"}}
        held(label) == {n \in Labelled(graph, {label}) : n[2] \notin met}
    IN  /\ held("File") \subseteq f
        /\ held("Symbol") \subseteq Out(graph, f, "DEFINES")
        /\ held("Chunk") \subseteq Out(graph, f, "HAS_CHUNK")

\* A hash in the graph vouches for its file (the incremental diff skips a file
\* on the strength of it): what the file defines is there too, unless a run
\* that died may have left the repository half-written, one is writing it, or
\* two that differed wrote it at once.
HashVouches ==
    \A r \in Repos \ (torn \cup tangled) :
        (\A i \in Indexers : ~(proc[i].pc = "write" /\ r \in Range(proc[i].scope)))
            => Complete(graph, GraphFiles(graph, {r}))

\* A delta that returns has applied its diff: changed files carry the hash of
\* the content that was parsed, deleted ones are gone, every other file (an
\* unparsable one included) keeps the hash the run had read.
DeltaAppliesDiff ==
    [][\A i \in Indexers : LET p == proc[i] IN
          Finishes(i) /\ p.mode = "delta"
              => GraphFiles(graph, Range(p.scope))
                     = Over(p.files, Restrict(p.known, DOMAIN p.known \ p.deleted))]_vars

\* No statement of a delta takes anything away from the files the diff found
\* unchanged: the nodes they define, and the edges that tie those together.
UnchangedUntouched ==
    [][\A i \in Indexers : LET p == proc[i]
                               F == Restrict(p.known, DOMAIN p.known \ (p.changed \cup p.deleted))
                           IN
          p.pc = "write" /\ p.mode = "delta" /\ proc'[i] # p
              => /\ (FileNodes(F) \cup DerivedNodes(F)) \cap DOMAIN graph.node \subseteq DOMAIN graph'.node
                 /\ LocalEdges(F) \cap graph.edge \subseteq graph'.edge]_vars

\* The part of the graph that belongs to repositories outside R, without the
\* flows, which are derived for the workspace as a whole.
Outside(g, R) ==
    LET in(n) == n[2] \in R \cup {""}
    IN  <<Restrict(g.node, {n \in DOMAIN g.node : ~in(n)}),
          {e \in g.edge : ~in(e[1]) /\ ~in(e[3]) /\ e[2] \notin {"HTTP_FLOW", "KAFKA_FLOW"}}>>

\* A run restricted with --repo never touches what other repositories own.
ScopeIsolation ==
    [][\A i \in Indexers : proc'[i] # proc[i]
          => Outside(graph', Range(proc[i].scope)) = Outside(graph, Range(proc[i].scope))]_vars

\* Retries are bounded: a started run returns, fails or is killed.
RunEnds == \A i \in Indexers : Running(i) ~> ~Running(i)

(***************************************************************************)
(* What the theorems about some of these properties take for granted of a   *)
(* workspace and of its indexers, and the code does not see to.              *)
(***************************************************************************)
\* The symbols and the modules that a file has at some content.
Syms(q) == UNION {Parse[q][c].syms : c \in DOMAIN Parse[q]}
Mods(q) == {Parse[q][c].module : c \in DOMAIN Parse[q]}

\* No two files of a repository define the same symbol or yield the same module,
\* at any of their contents: deleting a file takes its symbols with it, and its
\* module, whatever other file has them too.  FQNs are made of paths, so that
\* only files like a.py and a/__init__.py can share any.
Separate ==
    \A p, q \in Paths : p # q /\ RepoOf[p] = RepoOf[q]
        => Syms(p) \cap Syms(q) = {} /\ Mods(p) \cap Mods(q) = {}

\* What encloses a symbol of a file is a symbol of that file, unless no other
\* file of the repository defines it.  Only a file like a/__init__.py that
\* defines b, next to an a/b.py, makes it otherwise: the symbols at the top of
\* the latter have the module a.b as their parent, which is then also the former's b.
ParentsLocal ==
    \A p, q \in Paths : p # q /\ RepoOf[p] = RepoOf[q]
        => \A c \in DOMAIN Parse[p], d \in DOMAIN Parse[q] :
              {e[1] : e \in Parse[p][c].encloses} \cap Parse[q][d].syms \subseteq Parse[p][c].syms

\* No two indexers are run on the same repository.
Apart ==
    \A i, j \in Indexers : i # j
        => \A s \in Scopes[i], t \in Scopes[j] : Range(s) \cap Range(t) = {}

(***************************************************************************)
(* What documentation says and the code does not do.                        *)
(***************************************************************************)
\* indexer.py:104 "Cross-service flows are always recomputed workspace-wide":
\* when a run returns, the flows are those between all files of the graph.
FlowsWorkspaceWide ==
    [][\A i \in Indexers : Finishes(i) /\ torn = {}
          => {e \in graph.edge : e[2] \in {"HTTP_FLOW", "KAFKA_FLOW"}}
                 = AllFlowEdges(GraphFiles(graph, Repos))]_vars

\* writer.py:595 "assumes delete_files already dropped stale nodes": when a
\* delta returns, the graph has no node its files do not define any more.
DeltaDropsStale ==
    [][\A i \in Indexers : Finishes(i) /\ torn = {} /\ proc[i].mode = "delta"
          => Labelled(graph, {"Symbol", "Chunk", "Module"} \cup FeatureLabels)
                 \subseteq DerivedNodes(GraphFiles(graph, Repos))]_vars

\* writer.py:17 "the writer is safe to retry mid-failure": a run that returns
\* leaves the repositories it covered complete, also after a run that died.
RerunRepairs ==
    [][\A i \in Indexers : Finishes(i)
          => Complete(graph, GraphFiles(graph, Range(proc[i].scope)))]_vars
=============================================================================
