# A TLA+ model of code-spider

code-spider parses the repositories of a workspace, derives a graph of symbols,
calls, HTTP and Kafka flows from them, stores it in Neo4j, and answers questions
about it over MCP. This directory holds a TLA+ model of the parts of it in which
order, failure, concurrency or boundaries matter: the modules, the
configurations TLC checks them with, and theorems checked by TLAPS.

`PROJECT.json` ties it to the code: `map` names the lines each definition stands
for, `hazards` lists what is hard to test and the properties aimed at it,
`findings` the places where a run shows that the code does not do what its own
documentation says.

Paths below are relative to `src/code_spider/`.

## The system

| Part | State it keeps | Operations | Talks to |
|---|---|---|---|
| MCP server and tools (`mcp/`) | an executor of 8 threads, a context singleton | one body per tool, wrapped by `audited`, which adds a timeout | every part below |
| Indexer (`indexer.py`, `incremental.py`) | nothing between runs; during one, a bundle of parsed files | `index_workspace`: fetch hashes and diff, or walk everything; parse, chunk, resolve, match, embed, write | checkout, adapters, resolver, matchers, embedding, writer |
| Checkout (`checkout/git.py`) | directories `<repo>@<sha>` shared by all runs | `ensure_checkout` | git |
| Adapters and extractors (`parser/`, `routes/`, `messaging/`, `symbols/`) | none | source to symbols, imports, call sites, routes, clients, topics | tree-sitter |
| Chunker (`chunker/`) | none | line ranges of a file | |
| Resolver and flow matchers (`resolver/`, `routes/matcher.py`, `messaging/kafka_matcher.py`) | indexes of one run | a callee for a call site; routes for a client; consumers for a producer | |
| Embedding (`embedding/`, `_embed_workspace`) | vectors of one run; a thread pool per repository | slices, batches, halving | a provider over HTTP |
| Graph writer (`graph/writer.py`, `graph/client.py`, `graph/schema.py`) | Neo4j: nodes, edges, file hashes | one transaction per statement, full and delta; retries | Neo4j, count cache |
| Count cache (`graph/count_cache.py`) | one TTL store per process, a lock | `get_or_compute`, `invalidate`, `clear`, `set_ttl` | read by the schema and workspace tools, invalidated by the writer |
| Search (`search/`, `graph/neo4j_vector.py`) | none | two retrievers and their fusion | Neo4j, provider |
| Symbol queries (`mcp/tools/_symbol_resolution.py`, `get_call_graph.py`, `get_impact_analysis.py`, `trace_*.py`) | none | lookup with fallback, traversals | Neo4j |
| Schema migration (`graph/schema.py`) | Neo4j's constraints and indexes | `apply_schema` | Neo4j |
| Settings and onboarding (`config.py`, `onboarding.py`) | the user's and the project's dotenv files | `configure`; the layers every other command reads | python-dotenv |
| Manifest, command line, progress, metrics | none | one-shot | |

What is hard to get right:

* **No exclusion between writers.** A write is a dozen transactions. Two jobs, a
  tool call that timed out and went on, or a crash can interleave with it anywhere.
* **Partial failure.** A retried writer method restarts from its first
  statement; a run that dies leaves what it had committed, hashes included, and
  the next incremental run trusts the hashes.
* **Increments.** A delta sees only changed files and must leave alone, and not
  forget, everything else.
* **Out-of-order results.** Slices are embedded by several threads, halved, refused, and
  complete in any order.
* **Stale reads.** Cached counts race with their invalidation; the clock is read
  before the lock is taken; writes happen in other processes.
* **Shared directories.** Runs reuse each other's clones and recognise a finished one by `.git`.
* **Abandoned work.** A timed-out body keeps its worker.
* **Boundaries.** Ranks, ties, limits, overlaps, cyclic graphs.
* **Agreement.** Seven walks over syntax trees have to attribute what they find to the
  same definitions; a request and its endpoint are read by different code in
  different languages and must still meet; the wizard and the program read one file by different rules.

## Modules

| Module | Models | State and actions |
|---|---|---|
| `WorkspaceGraph` | the graph and each Cypher statement of `graph/writer.py` | nodes are tuples that carry the keys of `graph/schema.py`'s constraints; each statement is an operator from graph to graph; what files define, and the calls and flows between them |
| `Indexer` | `index_workspace`, `incremental.py`, `GraphWriter`'s methods | `disk`, `graph`, a record per indexer with its stage, bundle and plan of statements; `StartRun`, `FetchHashes`, `DiffRepo`, `WalkRepo`, `WriteStep`, `TransientError`, `Finish`, `Crash`, `EditFile` |
| `BoundedStaleness` | abstract: an answer is a snapshot no older than a bound | |
| `CountCache` | `graph/count_cache.py`, its readers and the writer's invalidation | `get_or_compute` in its atomic steps (`Begin`, `Hit`, `Miss`, `Fetch`, `FetchFails`, `Insert`), `SetTtl`, `Clear`, writes and their invalidation, writes of other processes, `Tick` |
| `EmbedPromise` | abstract: what may become of each chunk of a repository | |
| `EmbedDispatch` | `_embed_workspace` and `LiteLLMEmbeddingProvider.embed_batch` | slices, a thread's list of ranges still to do (the halving recursion), futures that have completed, landing, applying |
| `Checkout` | `checkout/git.py`, with git's own steps | a directory per commit, a stage per run, a branch that advances or is rewritten, kills |
| `ToolPromise` | abstract: what the caller of a tool is promised | |
| `ToolPool` | `audited` in `mcp/auth.py` and its executor | caller, future, queue, workers; `Submit`, `Deliver`, `Expire`, `GiveUp`, `Take`, `BodyEnds`, and calls without a timeout |
| `Chunker`, `ModuleNames`, `Resolver`, `FlowMatchers`, `HybridSearch`, `SymbolQueries` | the pure algorithms: `chunker/ast_chunker.py`; `symbols/fqn.py` and the import statements of `parser/python_adapter.py`; `resolver/`; `routes/matcher.py`, `routes/_common.py`, `messaging/kafka_matcher.py` and the statement that stores HTTP flows; `search/` and `neo4j_vector.py`'s query; the symbol tools | operators in the shape of the code, and next to them definitions of the same results without loops, orders or indexes |
| `SourceTrees` | the walks of `parser/python_adapter.py`, `parser/_ts_js_base.py`, `routes/` and `messaging/` | a syntax tree is the sequence of its nodes; a walk is a record of the kinds it takes for definitions, skips and enters, and one function interprets it; beside it, the innermost definition around a node |
| `Endpoints` | how `routes/*_routes.py` and `messaging/*_kafka.py` read routes, HTTP calls and topics from decorators, calls and file names | an operator per framework; beside them, which endpoint serves which request |
| `Onboarding` | `configure` of `onboarding.py`, the layers of `config.py`, and python-dotenv as they use it | a file is its lines, a value a text in layers of quotes and blanks |
| `SchemaMigration` | `apply_schema` of `graph/schema.py` by several runs in steps that interleave or stop | the database, and where each run is |
| `Algorithms` | runs each of them on each of its inputs | |
| `CountCache_proofs`, `Checkout_proofs`, `ToolPool_proofs`, `EmbedDispatch_proofs`, `Indexer_proofs`, `Incremental_proofs`, `Refresh_proofs` | theorems | |
| `WorkspaceGraph_proofs` | lemmas: what each statement does to the graph | |
| `MC*` | the instances | |

How they fit together: `Indexer` is composed with `WorkspaceGraph`; `CountCache`, `EmbedDispatch` and
`ToolPool` each implement an abstract module through `INSTANCE`.
`WorkspaceGraph` gives the resolver and the matchers by their outcome on the
names that occur in it (it takes a route and a client to match when their paths are equal);
`Resolver` and `FlowMatchers` have the details. Likewise `Parse` gives what a file defines, and
`SourceTrees`, `Endpoints` and `ModuleNames` have how it is found. `FlowsReach` composes extraction,
normalisation, matching and storing, `ImportsReach` module names, imports and resolver. A local checkout is `disk` of
`Indexer`; a remote one is `Checkout`.

Abstractions to know when reading:

* Batches of 500 rows are one statement: each batch is a transaction of its
  own, but a crash between two of them is no different in kind from a crash between statements.
* Names, contents, vectors and texts are model values or small records. A
  vector is the pair of its repository and its chunk, so that a vector at a wrong chunk shows.
* A count is the snapshot of the database it was made from.
* Scores and confidences are fractions or percentages; reciprocal ranks are multiplied by a common multiple.
* A dotted name is a sequence of segments.

## Refinements

* `CountCache` implements `BoundedStaleness` with `Bound <- MaxTtl + 2 * MaxHold`
  (`now`, `db`, `past` and `answer` are shared): whatever writers fail to
  invalidate, an answer is a snapshot of that window. `MaxHold` is how long a call may
  take between reading the clock or the database and using what it read. The entry's expiry
  is computed after the fetch and the lookup uses a clock value read before the lock, so each adds one `MaxHold`.
* `EmbedDispatch` implements `EmbedPromise` (same `emb`, `next`, `stats`): one
  `FinishRepo` is one `EmbedRepo`, all else stutters.
* `ToolPool` implements `ToolPromise`, where `asked`, `body` and `answer` are
  computed from the caller's stage, the future and the body's end.

## Runs

| Run | Question | Bounds |
|---|---|---|
| `single` | Does a full refresh leave exactly the graph of the files it walked, and a delta exactly the diff, whatever came before; do hashes vouch for their files and is every node reachable in between? `TypeOK`, `NoOrphans`, `HashVouches`, `FullRefreshExact`, `DeltaAppliesDiff`, `UnchangedUntouched`, and does a run for one repository leave the others alone (`ScopeIsolation`) | one indexer, two runs in either mode for the workspace or one repository, one edit, one crash or read error, two attempts per writer method; three files in two repositories, two parsable contents each, a route whose handler is in another file, one that does not parse and one above the size cap |
| `overlap` | Two full refreshes of one repository at once, statements interleaved: what is left in the end if they read the same (`FullRefreshExact`), what can break at all (`NoOrphans`, `HashVouches`), and that both end (`RunEnds`, under fairness) | two indexers, one file with two contents, one edit, two attempts |
| `delta_flows`, `delta_stale`, `rerun` | findings, below | one indexer |
| `counts` | `TypeOK`, `Reflected`, `BoundedStale` | two callers of one key, TTL 1 or off, delays of 1, clock to 4 (beyond the bound of 3), one write of the process and others outside |
| `count_global` | finding | two workspaces, no time |
| `embed` | `TypeOK`, `SliceInOrder`, `KeepsPromise` (with liveness) | three threads; repositories of seven chunks (slices of 3, 3 and 1), none, and three (the path without a pool); provider batches of 2 |
| `checkout` | `TypeOK`, `ReadsItsCommit`, `GitMeansWhole`, `NotPulledAway` | three runs, two commits, one kill |
| `checkout_collide` | finding | two runs, one commit |
| `tools` | `TypeOK`, `WorkConserved`, `KeepsPromise` (with liveness) | two workers, three calls with a timeout and one without |
| `algorithms` | each algorithm against its direct definition | the input families of `MCAlgorithms` |

Why the bounds suffice for what is asked:

* Two runs of an indexer are the smallest history in which a run meets what another left, in
  every pair of modes, with an edit between, during or before them; the fault
  may be a crash at any statement or a file that cannot be read in either of
  the two passes. The contents are chosen so that every statement has a payload
  for some of them and every change of content changes what is defined. A
  second attempt is all a retry needs: the next restarts from the same state.
* In `overlap` one repository with one file is enough: every statement of a
  refresh has a payload for one of the contents, and runs meet only in the
  repositories they share (`ScopeIsolation`). Crashes are left to `single`.
* In `counts` one key is enough for the window and for racing insertions, keys
  meet only in `invalidate`, and the theorems cover any set of keys. The clock
  runs past the promised bound, or `BoundedStale` could not fail.
* `embed`: a short last slice, a batch that is halved into one and one, fewer and more
  slices than threads.
* `checkout`: two runs that share a commit and a third on another, or on the
  same after one was killed. The properties except `spoiled` commits: of a kill they cover what it leaves before
  `.git` is there (an empty directory), of an overlap nothing; a refused clone that removes the directory in use is one.
* `tools`: two blocked bodies exhaust the pool while a third call is queued.
* `algorithms`: files of up to six lines with chunks of three; definitions that
  touch, overlap, exceed a chunk or the file; up to three symbols of
  one name in two repositories under every import; Python files as modules and
  packages below several source roots with every form of import; up to three routes that tie,
  are written differently or are the same in two repositories, paths of ten segments with 6, 7 and 8 that agree (7 is the threshold), two clients on one line, in two lines, files or repositories; result lists of up to three hits, limits of 0 and beyond; an over-fetch of 2
  with up to seven chunks, so that other workspaces can take its places; all call graphs on
  three symbols over eight possible calls, cycles and self-calls included. Syntax trees are every way from the
  module through at most four nested nodes, with a call beside any of them (what a walk does at a node depends on the node and the caller above it, and
  no definition's effect reaches further than the next one). Endpoints and requests are every pair of
  five paths and three methods in every framework's and client's notation. Configuration
  files have up to two lines (a managed key, the password, one of the user's, a comment; six ways to
  quote), with flags, prompts, failed tests and other layers. Migrations are all schedules of two runs, cut off anywhere.

Two full refreshes of one repository that read different files, or of which one dies, can leave
nodes no later run removes: the second's clearing takes the commit the first
still hangs its nodes on. The history variable `tangled` names the repositories this happened to, from the
moment two unlike runs write the same one (`BeginWrite`), or one that had company dies (`Dies`); the
invariants speak of the others. For runs that are `Alike` nothing is excused: whatever their
statements' order, and with retries in between, the last one to finish leaves the exact graph.

Every property is violated by at least one mutant of the code (`mutants`):
a guard, a reset, a clean-up or an order that a plausible mistake would get wrong.
Their operators stand next to the definitions they replace.

`CHECK_DEADLOCK FALSE` is set where the system ends: all runs are over, all
repositories embedded, all calls answered, the one algorithm has run.

### Fairness

* `Indexer!FairSpec`: a started run keeps taking steps. The process is
  scheduled, Neo4j answers or raises, and tenacity's waits and attempts are
  finite (`graph/client.py:75`). It is weak fairness of a run's `Step` with its
  `ENABLED`, which is `Running(i)`, written out. Nothing is assumed of edits, crashes or starts.
* `EmbedDispatch`: something of an unfinished workspace happens. Provider
  calls time out (`timeout_s`), and the main thread is woken by `as_completed`.
* `ToolPool`: only the caller's own wait ends and its handler runs. Nothing is
  assumed of workers or bodies: they may block for ever, which is the point.
* `CountCache`, `Checkout`, `Algorithms`: safety only, no fairness.

### What the properties leave out

A property of the algorithms asserts what the code's documents promise where the code keeps it, and leaves open, without
asserting the opposite, where it does not; its comment names the lines, "Seen while modelling" below describes each case. What a crash between statements
leaves (`torn`) is excepted from `HashVouches`: `rerun` shows it. `VectorFills` holds as long as other workspaces' chunks fit into
the over-fetch. In `hazards` an item with no property has a note that says why.

## What is proved

For every value of the constants, under the named assumptions of the modules
(`CountCacheAssumption`: keys among the possible ones, TTLs at most
`MaxTtl`; `CheckoutAssumption`: at least one commit; `ToolPoolAssumption`: the timed calls are
calls, and no call is the mark of a free worker; `GraphAssumption`: a manifest declares at
least one repository and none twice (`workspace/manifest.py` rejects others), and there are finitely
many paths, each in one repository; `ParseAssumption`: the symbol that a file's symbol is enclosed by is one of
the file's; `IndexerAssumption`: what can be parsed has a parse, and a writer's method
has at least one attempt; `EmbedAssumption`: the mark of a missing vector is no vector. No thread count,
slice or batch size is assumed to be positive, the code takes at least one).

`CountCache_proofs`

* `TypeCorrect`. By induction, an action at a time.
* `InvalidationReflected`. `Reflected` speaks of entries in the store, and an entry is made from
  what a call carries, so it is not inductive. `ReflectedInv` adds the same of
  calls between fetch and insert and that what was invalidated has been committed:
  the view of a call that no invalidation raced with is at least as new as each workspace's last invalidation.
* `AnswersBounded`. `AgeInv` bounds the age of every
  snapshot by where it is: in a call about to insert it, in the store until it expires.
  With it each step of the cache maps to a step of `BoundedStaleness` or to a stutter (`RefinementStep`).

`Checkout_proofs`

* `TypeCorrect`.
* `ReadsCorrect`, `PresenceEnough`, `NeverPulledAway` rest on one inductive
  invariant, `CheckoutInv`: `Exclusive` (two runs clone one commit only if that is noted in `spoiled`),
  `Stage` (what each stage of an undisturbed run knows of its directory),
  `Returned` (a directory handed out is not being built) and `Clean` (where `.git` is, the files are, unless
  some run is in a stage that may leave one without the other). `Stage` alone
  is not inductive: another run's step preserves it only because of `Exclusive`, a reuse only because of `Clean`, and
  the reader's directory only because of `Returned`. All three except the commits in `spoiled`: those whose clone was killed once `.git` was
  there, and those two runs cloned at once. The code cannot tell such a directory from a finished one (`checkout/git.py:110`), so for them the
  statements are false; `checkout_collide` shows it of an overlap, and a kill in `fetch` or `switch` has the same effect.
* `PresenceEnoughAlone`: these are the only exceptions. If runs do not overlap and none is killed (`Alone`), `.git`
  stands for the whole commit everywhere, whatever fails in git and wherever the branch moves.

`ToolPool_proofs`

* `TypeCorrect`.
* `NothingLost`. `WorkConserved` counts; `PoolInv`, which is inductive, says where things are: a worker
  has a call exactly while its future runs (`Working`), the queue holds the pending ones once each, and
  maybe cancelled ones (`Queued`), and how far a call's caller, future and body are goes together
  (`TimedStage`, `InlineStage`).
* `PromiseSafe`. With `PoolInv` each step maps to a step of `ToolPromise` or to a stutter
  (`RefinementStep`). That a timed call is answered at all is the other half of
  `KeepsPromise`, which TLC checks.

`Indexer_proofs`, from `WorkspaceGraph_proofs`

* `TypeCorrect`. `TypeInv` is stronger than `TypeOK`: the graph's nodes and edges are well-formed
  (`GraphOK`: labels, the repository in each key, which labels an edge joins), and a writing run's plan is the one
  its files and diff call for (`WellPlanned`): every statement it needs, none it does not, and
  those for one repository in the writer's order. The plan is a flattened sequence
  of sequences; `FlattenIs` says where its elements come from, and `PlanIs` what follows for the order.
* `ScopeIsolated`. For each statement a lemma says which nodes and edges it may add or
  remove, hence which repository it touches (`Touches`). `Moves` sorts the steps by what they do to graph and plans: `Reads`,
  `Begins`, `Writes`, `Returns`, `Dead`.
* `Reachable`. `NoOrphans` is not inductive: that a merged file hangs on its
  commit is due to statements that came before. A run is the `Holder` of a repository when it still has to write whatever clearing does not
  reach and what its statements so far had to leave for the next ones (`Left`) is there. `OrphanInv` says: what nobody writes has no
  orphans; what one writes, it holds; of several (which are alike, `Overlaps`) one holds it, or nothing is out of reach and all they
  want is there (`Settled`). The hard step is a clearing while another run is halfway: the one that clears becomes the
  holder, whatever the other had committed. A retry clears or merges again and stays the holder.

`Incremental_proofs`, from `Indexer_proofs`

Two facts about a workspace are hypotheses of these theorems, because the code relies on them and does not see to them. `Separate`: no
two files of a repository can define the same symbol or module. FQNs are made of paths, so only files like `a.py` and
`a/__init__.py` can; where they do, deleting one takes the other's symbol with it (`graph/writer.py:299`, among the hazards). TLC
finds that `Separate` holds of the instances it checks (`InstanceSeparate`). `Apart`: no two indexers are run on the same
repository, which is so when there is one job per workspace, as in the runs with one indexer.

* `HashesVouch` (`Separate`). `HashVouches` speaks of repositories that nobody writes. While one is written its hashes vouch for
  nothing: a statement commits them, and the statements that derive what they vouch for come after. `Vouching` says what
  is kept of a repository that is not tangled. Of those writing it, one has everything there that its statements were to leave so far
  (`Built`), or all it will ever leave (`Whole`); what each has cleared or deleted stays away, but for what it writes itself
  (`Cleared`); and the files that a delta neither writes nor deletes are as good as they were (`Spared`). A run that returns is through its plan, so
  that `Built` is `Whole`: with `Cleared` (a full refresh) or `Spared` (a delta) every hash vouches. That one run clears while another,
  alike, is halfway turns the first into the one that has everything there. `Owned` says whose a node is, so that deleting a file
  spares the others (`DeleteSpares`, where `Separate` is needed). Two runs' crashes are no exception: they make a repository `torn` or `tangled`.
* `DeltaSpares` (`Separate`), an action property: what a delta's diff found unchanged was parsed at that content (`KnownInv`), and
  no statement it executes removes what belongs to such a file (`Mine`).
* `DeltaApplied` (`Apart`). `ApartInv`: the hashes a delta knows are those of the graph, repository by repository as it fetches them
  (`Fresh`), and go on being so, but for the files it deletes and writes itself (`Sparing`). Fetching finds every file because clearing reaches every
  file (`Reachable`'s invariant): the query walks from the repository through its commits. When it returns, `Built` and `Cleared` say the rest.

`Refresh_proofs`, from `Incremental_proofs`

* `RefreshExact` (`ParentsLocal`): when a full refresh of the workspace returns, no other run writes and no unlike or dying runs ever overlapped,
  the graph is exactly that of the files it walked, whatever was in it before. Each statement runs in a transaction of its
  own and matches what earlier ones left; a relationship whose ends are missing is not written, and nobody notices. `RefreshInv` says of every
  prefix of the plan what it has achieved, from both sides, and needs both. `Upper`: whatever clearing does not reach, and what has been
  cleared, holds nothing but what the files are to leave; so what is written later is never joined to something older
  (`Pure`). The first refresh to write starts there because everything old is within clearing's reach (`NoOrphans`'s
  invariant). `BuiltTo`: of the refreshes that write, one has everything there that the statements it has passed are for, the
  owners of features, the links and the flows included; they find their ends because the plan has them after everything else
  (`LateLast`, a fact about its flattened sequence). Overlapping refreshes with the same files are `Twins`, and what
  holds of the one ahead holds of the one behind (`OtherBuilt`). When nothing is left of the plan, the two sides meet
  (`ExactUpper`, `ExactLower`).
* Its hypothesis: what encloses a symbol is in the symbol's own file, unless no other file of the repository defines
  it. `a/__init__.py` that defines `b` next to `a/b.py` breaks it: the top-level symbols of the latter have the parent `a.b`, which is now a symbol, and
  hang below it or not by the order of batches. TLC finds that it holds of the instances (`InstanceParents`). Owners of features need
  no such hypothesis: they are written after all symbols, and `OwnerEdges` has those in other files.

`EmbedDispatch_proofs`

* `InOrder`. `EmbedInv` says where slices are: queued, at work or arrived, in one place only (`Once`); that a
  thread's vectors and its ranges still to do make up its slice in order (`TaskOK`), kept by the halving because `PiecesCut` shows the cuts to be
  without gap or overlap for any size; that a landed slice has all its vectors or none, the
  failures counted (`LandInv`); and that repositories to come are untouched (`Fresh`).
* `Implements`. Under `EmbedInv`, `FinishRepo` and `SkipEmptyRepo` are `EmbedRepo`, the rest stutters.

Only model-checked:

* Liveness, and refinements with liveness: `RunEnds`, the other halves of `KeepsPromise`.
* `Algorithms`: the algorithms are recursive operators, which the prover cannot use together with its
  arithmetic. (Recursive functions can be proved about, by way of a least counterexample, as `FlattenIs` shows.)

## Findings

Each is a run that TLC finds violated.

1. `delta_flows`. An incremental run clears the flows of the whole workspace and
   rebuilds those between changed files only; `indexer.py:104` says they are "always recomputed workspace-wide".
2. `delta_stale`. A changed file's old symbols, features and chunks stay in the
   graph; `graph/writer.py:595` assumes "delete_files already dropped stale nodes".
3. `rerun`. Hashes are committed before what they vouch for: after a run that died in
   between, incremental runs skip the files; `graph/writer.py:17` says "safe to retry mid-failure". A full refresh does
   repair it (`FullRefreshExact`).
4. `count_global`. A count over all workspaces cached under one of them survives
   the invalidation of another; `graph/count_cache.py:178` says such entries are dropped.
5. `checkout_collide`. A second run takes a clone in progress for a finished one;
   `checkout/git.py:11` says runs "never collide".

Seen while modelling, without a run of their own:

* `resolver/strategies.py:124`: `lookup_fqn` looks in every repository, so a
  callee found through an import is attributed to the caller's repository even if it lives in
  another; `symbols/model.py:153` describes the field as the callee's. The call edge then has no end and is not written. `CallsResolve`
  asks for the callee's repository everywhere else and leaves it open here; `FullRefreshExact` cannot show the lost edge, its reference (`CallEdges`) is made of what the resolver records.
* `resolver/strategies.py:121`: after `import a.b`, `a.b.f()` is looked for as `a.b.b.f`.
  Relative imports keep their dots and TypeScript ones their slashes, so they meet no FQN. `ImportsReach` states the forms that do resolve.
* `mcp/tools/get_impact_analysis.py:31`: `handles_routes` follows calls from
  the symbol downwards, so it lists routes handled by what the symbol calls, not those whose
  handler is impacted by it (line 30), whose "handler chain touches the symbol" (line 69). `kafka_inbound` lists
  the producers owned by the symbol or upstream of it, although line 44 speaks of "Kafka producers reaching this symbol via published topics": no topic
  is followed. `InboundAgrees` is about `http_inbound` and says nothing of these two.
* `mcp/tools/get_call_graph.py:121`: if two repositories share the best candidate's FQN,
  the traversal takes whichever row comes first.
* `search/vector.py:18` promises the closest `limit` chunks of the workspace; the index limits before the
  workspace is filtered. `VectorFills` states when the promise holds.
* `search/hybrid.py:64`: symbols of two repositories with one FQN share a key; the
  second one's data is lost and its rank is added to the first's, where line 6 has one rank for a document in a list. `FusionKeepsBest` says
  nothing of what such symbols score, but holds the other hits to theirs.
* `mcp/tools/get_coordinate_snippet.py:76`: a range beyond the file gives a negative line count.
* `routes/matcher.py:5` says the writer persists the matches; those of a route for all methods
  carry the client's method, and the writer looks for a route of that method (`graph/writer.py:284`): they are never stored. `HttpFlowsBest`
  and `FlowsReach` ask for the matches and leave open whether these are stored.
* `graph/writer.py:282` finds a client by repository, file and first line, so two clients on one line share their flows; `HttpFlowsBest` allows it.
* An Express handler may be a symbol of another file. A delta that finds only that file changed does not write the route
  again, so a handler that is new gets its `HANDLES` relationship with the next full refresh (`OwnerEdges`).
* Overlapping refreshes with different contents, or with a crash, leave nodes no full refresh removes (see `tangled` above).
* Routes in TypeScript: `routes/ts_routes.py:362` keeps a page's file name before its stem; `axios.get('/x')` is recorded as an
  Express route as well; Express routes in class bodies and call arguments are not seen, and their handlers' names are never qualified by a module;
  a NestJS class inside a function or namespace is qualified by the module only; exports by list or destructuring are not found; the docstring's
  `infer_nextjs_route_from_path` does not exist.
* Calls in TypeScript are lost when they are all of an initialiser or of an arrow function's body, or stand in a
  destructuring or a class field; JavaScript's class fields are not recognised at all. Clients and Kafka calls are owned by other names than
  calls below namespaces, generators and class fields. `TsCallsOwned` states the exceptions.
* Topics: of a TypeScript array or of `sendBatch` the first or none counts; `messaging/python_kafka.py:12` says faust topics are captured by their bare
  name, the code gives `<dynamic>`. `FlowsReach` leaves both open: a TypeScript list's later topics (`messaging/ts_kafka.py:7`) may be connected or not, and a faust variable's. Paths and topics passed by keyword are lost, as are router prefixes; query strings stay in the path.
* Calls, clients and routes of a module's own level have no symbol to hang on and get no edge.
* `configure` writes a value with a blank before `#` unquoted, and python-dotenv cuts it there; it takes one layer of nested quotes off
  per run; two runs at once share one temporary file. `SettingsKept` excludes such values.
* `onboarding.py:371` says the check fails if the Symbol constraint is missing; any constraint satisfies it.
* `graph/schema.py:125` says a change of dimension deletes every embedding; dropping the index keeps the property, and an incremental run
  does not renew the vectors of unchanged files.
* `mcp/tools/get_graph_schema.py:120` says `mandatory` is or-ed; the code ands it.
* A body's own `TimeoutError` is reported as a tool timeout (`mcp/auth.py:140`); the model has it as the ending "timeout".

## Not modelled

* TypeScript's imports and module names: a specifier (`./m`) is bound as it stands and equals no FQN, so
  that its calls are resolved by name only. Signatures, docstrings, visibility: text.
* Validation of tool arguments, `execute_cypher`, the folding of the schema tool's rows: recognition and layout of strings.
* `trace_kafka_flow`: two patterns around a topic, with nothing to compare them to.
* The server context, `mcp-config`, `doctor`: one-shot steps without state of their own.
* Vectors in the graph: `EmbedDispatch` ends where the chunks have theirs.
* Progress, logging, metrics, formatting of answers.

## Plan

Done, in order of importance: the writer and the incremental indexer (`WorkspaceGraph`,
`Indexer`) with overlapping refreshes, the cache with its abstract specification and proofs, embedding, checkout with its
proofs, the tool pool with its proofs, the proofs about the indexer, up to the exactness of a refresh, and about embedding, the algorithms, the extraction of what they work on, settings, schema migration.

Next:

1. A deleted file whose symbol another file defines.
2. Readers between the statements of `Indexer`: the symbol tools' two transactions, the
   snippet tool's use of the recorded commit and `Checkout`'s directories.
3. Proofs about single algorithms, written as recursive functions: the chunker's cover, the fusion.

To run everything by hand: `tlc -workers 2 -config <cfg> <module>` for a run of
`PROJECT.json`, `tlapm <module>` for the proof modules.
