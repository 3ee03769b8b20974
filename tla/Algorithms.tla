----------------------------- MODULE Algorithms -----------------------------
(***************************************************************************)
(* The pure algorithms of the indexer and of the search, each run on one of *)
(* its inputs and compared with what it is to compute.                      *)
(***************************************************************************)
EXTENDS Chunker, Resolver, SourceTrees, Endpoints, HybridSearch, SymbolQueries, Onboarding, SchemaMigration

CONSTANTS
    Files,       \* inputs of chunk_file
    Links,       \* inputs of resolve_workspace
    Programs,    \* inputs of parse_file and resolve_workspace: two files and a third that imports
    PyTrees,     \* syntax trees of Python files
    TsTrees,     \* syntax trees of TypeScript files
    Wires,       \* an endpoint and a request, each with how it is written
    Streams,     \* topics consumed and produced, each with how it is written
    HttpCases,   \* inputs of match_http_flows
    KafkaCases,  \* inputs of match_kafka_flows
    Queries,     \* inputs of hybrid_search
    Lookups,     \* inputs of resolve
    Graphs,      \* inputs of get_call_graph
    Impacts,     \* inputs of get_impact_analysis
    Setups,      \* configuration files, and what configure is asked on them
    Migrations   \* runs of apply_schema and the order of their steps

VARIABLES
    step,  \* the algorithm that has run
    input  \* and what it was given

Init == step = "none" /\ input = << >>

Run(name, inputs) ==
    /\ step = "none"
    /\ step' = name
    /\ input' \in inputs

Next ==
    \/ Run("chunk_file", Files)
    \/ Run("resolve_workspace", Links)
    \/ Run("parse_file", Programs)
    \/ Run("python _walk", PyTrees)
    \/ Run("typescript _walk", TsTrees)
    \/ Run("http extraction", Wires)
    \/ Run("kafka extraction", Streams)
    \/ Run("match_http_flows", HttpCases)
    \/ Run("match_kafka_flows", KafkaCases)
    \/ Run("hybrid_search", Queries)
    \/ Run("resolve", Lookups)
    \/ Run("get_call_graph", Graphs)
    \/ Run("get_impact_analysis", Impacts)
    \/ Run("run_configure", Setups)
    \/ Run("apply_schema", Migrations)

Spec == Init /\ [][Next]_<<step, input>>

\* The name of the module of a syntax tree.
Module == <<"m">>

-----------------------------------------------------------------------------
(***************************************************************************)
(* Properties.                                                              *)
(***************************************************************************)
\* Every line of a file can be found by search, in chunks of definitions or of
\* what lies between them; only lines that nothing but blank lines separates
\* from the next definitions are left out.
ChunksCover == step = "chunk_file" => CoversExactly(input.blank, input.spans)

\* A chunk is never too long, never empty, and never mixes a definition with
\* what is around it, also when definitions overlap or end beyond the file.
ChunksNeverMix == step = "chunk_file" => NeverMixes(input.blank, input.spans)

\* A call is resolved to a symbol the strongest applicable strategy allows, or
\* not at all if none does, whatever order and however often files name their
\* symbols, and by the import that is in force.  The repository is not looked at
\* if only others have the sibling or the imported symbol: strategies.py:124
\* then records the caller's, and model.py:153 says the callee's.
CallsResolve ==
    step = "resolve_workspace" =>
        LET got == Resolve(input.refs, input.imports, input.call)
            allowed == Allowed(input.refs, input.imports, input.call)
            elsewhere == /\ got.strategy \in {"same-module", "import-suffix"}
                         /\ \A a \in allowed : a[1] # input.call.repo
        IN  /\ got = None <=> allowed = {}
            /\ got # None => /\ \E a \in allowed : a[2] = got.fqn
                             /\ ~elsewhere => <<got.repo, got.fqn>> \in allowed

\* What an imported name denotes in Python is what a call of it resolves to,
\* wherever below a source root the module lies and whatever else has the
\* name.  Dotted and relative imports are another matter: the code joins
\* "import a.b" and a.b.f to a.b.b.f, and leaves the dots before a module as
\* they are.
ImportsReach ==
    step = "parse_file" =>
        LET stmt == input.stmt
            fqn(file) == Qualify(FileToModuleFqn(file), "f")
            refs == [k \in DOMAIN input.files |-> [repo |-> input.files[k].repo, fqn |-> fqn(input.files[k])]]
            got == Resolve(refs, PythonImports(stmt, input.again), input.call)
            meant == Denoted(stmt, input.call.text)
            plain == Head(stmt.module) # "." /\ (stmt.form = "import" => Len(stmt.module) = 1)
        IN  plain /\ meant # << >> =>
                /\ \A file \in ToSet(input.files) :
                      meant = Append(file.importable, "f") => got.strategy = "import-suffix" /\ got.fqn = meant
                /\ got.strategy = "import-suffix" => got.fqn = meant

\* The walks over a Python file agree: every call in it, also as a client's or
\* a Kafka call, is attributed to the innermost definition around it, except in
\* decorators, parameters and base classes, where none is found; and a route's
\* handler is one of the symbols.
PyCallsOwned ==
    LET defs == {"def"}
        owner(n) == Innermost(input, Module, n, defs)
        found == {n \in DOMAIN input : input[n].kind = "call" /\ ~Before(input, n, defs)}
        symbols == Symbols(input, Module, PySymbolWalk)
    IN  /\ \A walk \in {PySymbolWalk, PyClientWalk, PyKafkaWalk} :
              CallSites(input, Module, walk) = {<<n, owner(n)>> : n \in found}
        /\ \A n \in found : owner(n) \in symbols \cup {Module}
        /\ PyHandlers(input, Module) \subseteq symbols

\* In TypeScript a call is missing too when it is all of a variable's value or
\* of an arrow function's body, or stands in a destructuring or a class field.
\* Clients and Kafka calls have the same owner as calls, a symbol, unless a
\* namespace, a generator or a class field's function is around them; NestJS
\* handlers are symbols unless the class stands in another definition.
TsCallsOwned ==
    LET defs == {"function", "method", "class", "scope", "arrow", "generator", "field function"}
        around(n, kinds) == \E m \in Around(input, n) : input[m].kind \in kinds
        whole(n) == input[n].part = "expression" \/ (input[n].part = "value" /\ KindAbove(input, n) = "variable")
        owner(n) == Innermost(input, Module, n, defs)
        calls == {n \in DOMAIN input : input[n].kind = "call"}
        found == {n \in calls : ~Before(input, n, defs) /\ ~around(n, {"pattern", "field"}) /\ ~whole(n)}
        symbols == Symbols(input, Module, TsSymbolWalk)
        odd == {"scope", "generator", "field function", "field", "pattern"}
    IN  /\ CallSites(input, Module, TsSymbolWalk) = {<<n, owner(n)>> : n \in found}
        /\ \A n \in found : owner(n) \in symbols \cup {Module}
        /\ \A walk \in {TsClientWalk, TsKafkaWalk} :
              \A n \in {c \in calls : ~around(c, odd) /\ ~Before(input, c, defs) /\ input[c].part # "expression"} :
                  {x[2] : x \in {y \in CallSites(input, Module, walk) : y[1] = n}} = {owner(n)}
                      /\ owner(n) \in symbols \cup {Module}
        /\ \A n \in ExpressCalls(input, Module) : ~around(n, {"call", "class"})
        /\ (\A n \in DOMAIN input : input[n].kind = "class" => ~around(n, defs \cup {"pattern", "field"})) =>
              NestHandlers(input, Module) \subseteq symbols

CallsOwned ==
    /\ step = "python _walk" => PyCallsOwned
    /\ step = "typescript _walk" => TsCallsOwned

\* A client written for an endpoint is matched with it and with no endpoint of
\* another method or length, whatever frameworks and languages the two are
\* written in; and the flow is stored.  Whether it is when the endpoint serves
\* all methods is left open: matcher.py:5 says so, writer.py:284 finds no route.
HttpReaches ==
    LET clients == IF input.language = "python" THEN PyClients(input.call) ELSE TsClients(input.call)
        routes == Routes(input.declared)
        c == [k \in DOMAIN clients |-> clients[k] @@ [id |-> k, site |-> "client"]]
        r == [k \in DOMAIN routes |-> routes[k] @@ [id |-> k, repo |-> "server"]]
        matched == MatchHttpFlows(c, r)
    IN  /\ Serves(input.endpoint, input.request) =>
              matched # << >> /\ (input.endpoint.method # "*" => StoredFlows(c, r) # {})
        /\ matched # << >> => /\ input.endpoint.method \in {"*", input.request.method}
                              /\ Len(input.endpoint.path) = Len(input.request.path)

\* A producer of a topic is connected to those who consume it and to nobody
\* else, whatever libraries and languages they use.  Left open are the topics
\* after the first of a TypeScript list, which ts_kafka.py:7 shows and the code
\* drops, and the variable of a faust agent, whose name python_kafka.py:12 says
\* is the topic.
KafkaReaches ==
    LET at(repo, topics) == [k \in DOMAIN topics |-> [repo |-> repo, topic |-> topics[k]]]
        flows == MatchKafkaFlows(at("p", Kafka(input.producer).produces), at("c", Kafka(input.consumer).consumes))
        consumes == input.produced \in ToSet(input.consumed)
        first == consumes /\ input.produced = input.consumed[1]
        variable == input.consumer.language = "faust" /\ input.consumed = << >>
    IN  /\ consumes /\ (first \/ input.consumer.language # "typescript") => flows # << >>
        /\ flows # << >> => consumes \/ variable

FlowsReach ==
    /\ step = "http extraction" => HttpReaches
    /\ step = "kafka extraction" => KafkaReaches

\* Each client gets an edge to every route it agrees with best, and to no
\* other, whatever order the routes come in and however paths are written; the
\* writer finds both ends of it again by their repository, place, method and
\* path, and ties no client to a route that none on its line reaches.  Whether
\* an edge to a route for all methods is stored is left open (matcher.py:5).
HttpFlowsBest ==
    step = "match_http_flows" =>
        LET edges == MatchHttpFlows(input.clients, input.routes)
            of(c) == SelectSeq(edges, LAMBDA e : e.client = c.id)
            stored(c) == {f[2] : f \in {g \in StoredFlows(input.clients, input.routes) : g[1] = c.id}}
            beside(c) == {d \in ToSet(input.clients) : d.site = c.site}
        IN  \A c \in ToSet(input.clients) :
                /\ {e.route : e \in ToSet(of(c))} = Reached(c, input.routes)
                /\ Len(of(c)) = Cardinality(Reached(c, input.routes))
                /\ {r \in Reached(c, input.routes) : input.routes[r].method # "*"} \subseteq stored(c)
                /\ stored(c) \subseteq UNION {Reached(d, input.routes) : d \in beside(c)}

\* There is one edge for each pair of a producer and a consumer of a topic
\* that is known, and no edge at a repository that is said to have no topics.
KafkaFlowsPaired ==
    step = "match_kafka_flows" =>
        LET p == input.producers
            c == input.consumers
            edges == MatchKafkaFlows(p, c)
            pairs(e) == {<<i, j>> \in (DOMAIN p) \X (DOMAIN c) :
                            p[i].repo = e.from /\ c[j].repo = e.to
                                /\ p[i].topic = c[j].topic /\ p[i].topic = e.topic}
            known == {<<i, j>> \in (DOMAIN p) \X (DOMAIN c) :
                         p[i].topic = c[j].topic /\ p[i].topic # Dynamic}
        IN  /\ Len(edges) = Cardinality(known)
            /\ \A e \in ToSet(edges) :
                  /\ Cardinality({k \in DOMAIN edges : edges[k] = e}) = Cardinality(pairs(e))
                  /\ \A r \in {e.from, e.to} : RepoTopics(r, p, c) # {}

\* What hybrid_search retrieves and what it returns.
Lex == LexicalSearch(input.index.symbols, input.workspace, input.k)
Vec == VectorQuery(input.index.chunks, input.workspace, input.k)
Hits == Search(input.index, input.workspace, input.k, input.k, input.limit)

\* The vector retriever returns the closest chunks of the workspace, as many as
\* are wanted, unless other workspaces' chunks take the places the over-fetch
\* provides.
VectorFills ==
    step = "hybrid_search" =>
        LET ranked == input.index.chunks
            wanted == Firsts(Within(ranked, input.workspace), input.k)
            foreign == {j \in DOMAIN ranked : /\ ranked[j].workspace # input.workspace
                                              /\ \E k \in DOMAIN ranked : k > j /\ ranked[k] = Last(wanted)}
        IN  wanted # << >> /\ Cardinality(foreign) <= (OverFetch - 1) * input.k => Vec = wanted

\* Unless two symbols of the fulltext hits share an FQN, fusing the two lists
\* is dealing them out in turn, rank by rank, a symbol before a chunk.
FusionInterleaves ==
    step = "hybrid_search" /\ IsInjective([k \in DOMAIN Lex |-> Lex[k].fqn]) =>
        [k \in DOMAIN Hits |-> Hits[k].data] = Interleaved(Lex, Vec, input.limit)

\* What is returned has the score its rank gives it (hybrid.py:6), comes in
\* falling order and once, and what is left out scores no more than what is
\* returned, nor is it left out before the limit is reached: also beside symbols
\* of several repositories that share an FQN.  Of those symbols themselves
\* nothing is said: hybrid.py:64 keeps the first one's data and adds their ranks.
FusionKeepsBest ==
    step = "hybrid_search" =>
        LET distinct == Distinct(Lex, Vec)
            shown == {h.data : h \in ToSet(Hits)}
        IN  /\ Len(Hits) = Cardinality(shown) /\ Len(Hits) <= input.limit
            /\ shown \subseteq ToSet(Lex) \cup ToSet(Vec)
            /\ \A k \in DOMAIN Hits :
                  /\ Hits[k].data \in distinct => Hits[k].rrf = Score(Hits[k].data, Lex, Vec)
                  /\ \A j \in 1..k : Hits[j].rrf >= Hits[k].rrf
            /\ \A doc \in distinct \ shown :
                  /\ Len(Hits) = input.limit
                  /\ \A k \in DOMAIN Hits : Hits[k].rrf >= Score(doc, Lex, Vec)

\* A lookup uses the strictest of its modes that finds anything, and returns
\* the best of what that mode finds, as many as were asked for and no others.
LookupStrictest ==
    step = "resolve" =>
        LET got == Lookup(input.db, input.asked, input.mode, input.limit)
            modes == IF input.mode = "auto" THEN {"exact", "suffix", "fuzzy"} ELSE {input.mode}
            finds(m) == m \in modes /\ Matches(input.db, input.asked, m) # {}
            all == Matches(input.db, input.asked, got.used)
            better(s, t) == Preferred(s, t, got.used)
        IN  /\ got.used = IF finds("exact") THEN "exact" ELSE IF finds("suffix") THEN "suffix"
                          ELSE IF finds("fuzzy") THEN "fuzzy" ELSE "none"
            /\ ToSet(got.rows) \subseteq all
            /\ Cardinality(ToSet(got.rows)) = Len(got.rows)
            /\ Len(got.rows) = Least(Clamped(input.limit), Cardinality(all))
            /\ \A k \in DOMAIN got.rows : \A s \in all \ {got.rows[j] : j \in 1..k} :
                  ~better(s, got.rows[k])

\* The callers of a symbol are those that some calls within the depth lead
\* from, cycles and the symbol itself included; the fewest hops reported are
\* the distance, and a confidence is that of a path which exists; and a symbol
\* is among the callees of its callers.
CallGraphExact ==
    step = "get_call_graph" =>
        LET db == input.db
            got == CallGraph(db, input.asked, input.depth, input.direction, "exact", 1)
            s == got.target[1]
            hops(x) == {c.hops : c \in {d \in got.callers : d.symbol = x}}
            near(m) == UNION {Behind(db, s, n, m) : n \in 1..input.depth}
        IN  input.direction # "callees" =>
                /\ {c.symbol : c \in got.callers} = near(0)
                /\ \A x \in near(0) : \E n \in hops(x) :
                      x \in Behind(db, s, n, 0) /\ \A m \in 1..(n - 1) : x \notin Behind(db, s, m, 0)
                /\ \A c \in got.callers :
                      /\ c.symbol \in near(c.min_confidence)
                      /\ [c EXCEPT !.symbol = s] \in Callees(db, c.symbol, input.depth)

\* The impact analysis and the traces tell the same: a client is inbound if and
\* only if it is traced to a route whose handler is the symbol or upstream of
\* it, which it is if the trace goes down to the symbol.  Nothing is said of
\* kafka_inbound and handles_routes, in which the code does not do what its
\* comments say (get_impact_analysis.py:30, :44).
InboundAgrees ==
    step = "get_impact_analysis" =>
        \A s \in {Id(t) : t \in ToSet(input.db.symbols)} :
            LET db == input.db
                impact == Impact(db, s)
                here == {s} \cup impact.upstream
                routes == {e[3] : e \in {f \in db.edge : f[2] = "HANDLES"}}
            IN  /\ impact.http_inbound
                       = UNION {TraceHttp(db, r).callers : r \in {q \in routes : TraceHttp(db, q).handlers \cap here # {}}}
                /\ \A r \in routes :
                      s \in TraceHttp(db, r).downstream => TraceHttp(db, r).callers \subseteq impact.http_inbound

\* A run of configure that fails leaves the file alone; any other keeps what the
\* user added and how the program reads it, the program reads what was answered
\* unless it is set elsewhere, and another run with nothing new to say changes
\* nothing: as long as nobody's quotes or blanks before a "#" matter, which the
\* wizard drops and never writes.
SettingsKept ==
    step = "run_configure" =>
        LET done == Configure(input.file, input.asked)
            before == ParseEnvFile(input.file)
            after == ParseEnvFile(done.file)
            theirs(dict) == SelectSeq(dict, LAMBDA e : e.key \notin ToSet(Managed))
            plain(dict) == \A e \in ToSet(dict) : Plain(e.value)
            answer(key) == Answer(input.asked, before, key)
            read(file, key) == Setting(input.env, input.project, file, key, Empty)
            again == Configure(done.file, [flags |-> << >>, typed |-> << >>, interactive |-> FALSE, test |-> "ok"])
        IN  /\ done.exit # 0 => done.file = input.file
            /\ done.exit = 0 =>
                  /\ plain(theirs(before)) /\ plain(theirs(LoadDotenv(<< >>, input.file))) =>
                        /\ theirs(after) = theirs(before)
                        /\ \A key \in Keys(theirs(before)) : read(done.file, key) = read(input.file, key)
                  /\ \A key \in ToSet(Connection) :
                        Plain(answer(key)) /\ ~Has(input.env \o input.project, key) => read(done.file, key) = answer(key)
                  /\ plain(after) /\ answer(Password) # Empty => again = done

\* A migration during and after which no other one takes a step leaves the
\* vector index at its dimension and everything else in place, whatever runs
\* were cut off before it; and so do runs of one dimension that overlap, once
\* each that began has ended: if the server tells an index's dimension.
SchemaSettles ==
    step = "apply_schema" =>
        LET runs == input.runs
            db == ApplySchema(input.dim, runs, input.schedule)
            begun == {r \in DOMAIN runs : db.pc[r] # "show"}
            settled(r) == db.rest /\ db.vector = runs[r].dim
        IN  \A r \in begun : db.pc[r] = "done" /\ runs[r].tells =>
                \/ settled(r)
                \/ /\ ~Alone(input.schedule, r)
                   /\ \E q \in begun : db.pc[q] # "done" \/ runs[q].dim # runs[r].dim \/ ~runs[q].tells
=============================================================================
