---------------------------- MODULE MCAlgorithms ----------------------------
(***************************************************************************)
(* Inputs on which the algorithms' cases meet: files in which definitions   *)
(* touch, overlap, exceed a chunk and the file; workspaces of up to three   *)
(* symbols of one name; routes that tie, differ in one segment of four, or  *)
(* are written differently; retrievers that return one FQN twice and ones   *)
(* crowded by another workspace; call graphs of any shape on three symbols. *)
(***************************************************************************)
EXTENDS Algorithms

CONSTANTS A, B, MaxDepth

Spans(n) == {<<s, e, top>> \in (1..n) \X (1..n + 1) \X BOOLEAN : s <= e}

MCFiles ==
    UNION {{[blank |-> b, spans |-> s] : b \in [1..n -> BOOLEAN],
                                         s \in {<< >>} \cup {<<x>> : x \in Spans(n)}} : n \in {0, 1, 6}}
    \cup {[blank |-> b, spans |-> <<x, y>>] :
             b \in [1..4 -> BOOLEAN], x \in Spans(4), y \in {z \in Spans(4) : z[3]}}

\* Modules m and n.k with a function f, another one of m, and one that is in
\* no module.
Fqns == {<<"m", "f">>, <<"n", "k", "f">>, <<"n", "f">>, <<"f">>, <<"m", "g">>}

Import(name, target) == [name |-> name, target |-> target]

MCImports ==
    {<< >>, <<Import("f", <<"n", "f">>)>>, <<Import("k", <<"n", "k">>)>>,
     <<Import("k", <<"m">>), Import("k", <<"n", "k">>)>>, <<Import("*", <<"n">>)>>}

MCLinks ==
    {[refs |-> s, imports |-> i, call |-> [text |-> t, caller |-> c, repo |-> A]] :
        s \in BoundedSeq([repo : {A, B}, fqn : Fqns], 3), i \in MCImports,
        t \in {<<"f">>, <<"k", "f">>}, c \in {<<"m", "c">>, <<"n", "k", "c">>, <<"c">>}}

\* A module or a package in a source root or in none, and its importable name.
Sources(repos, roots) ==
    {[repo |-> r, dirs |-> top \o IF p THEN n ELSE Front(n), importable |-> n,
      stem |-> IF p THEN "__init__" ELSE Last(n)] :
        r \in repos, top \in roots, p \in BOOLEAN,
        n \in {<<"a">>, <<"a", "b">>, <<"b">>, <<"a", "b", "b">>}}

Statements ==
    {[form |-> "import", module |-> m] : m \in {<<"a">>, <<"b">>, <<"a", "b">>}}
    \cup {[form |-> "import as", module |-> m, alias |-> "x"] : m \in {<<"a">>, <<"a", "b">>}}
    \cup {[form |-> "from", module |-> m, name |-> n] : m \in {<<"a">>, <<"a", "b">>, <<".", "b">>}, n \in {"b", "f"}}
    \cup {[form |-> "from as", module |-> m, name |-> n, alias |-> "x"] : m \in {<<"a">>, <<"a", "b">>}, n \in {"b", "f"}}
    \cup {[form |-> "from *", module |-> <<"a">>]}

MCPrograms ==
    {[files |-> <<f, g>>, stmt |-> s, again |-> w,
      call |-> [text |-> t, caller |-> <<"y", "c">>, repo |-> A]] :
        f \in Sources({A}, {<< >>, <<"src">>}), g \in Sources({A, B}, {<<"lib">>}),
        s \in Statements, w \in BOOLEAN,
        t \in {<<"f">>, <<"x">>, <<"x", "f">>, <<"b", "f">>, <<"a", "f">>, <<"a", "b", "f">>}}

MCSyntax == {"{id}", ":id", "<id>", "[id]", "{x}"}
MCUpper ==
    [get |-> "GET", Get |-> "GET", GET |-> "GET", post |-> "POST", Post |-> "POST", POST |-> "POST",
     trace |-> "TRACE"] @@ ("*" :> "*")
MCHttpMethods == {"GET", "POST", "TRACE"}
MCExpressNames == {"get", "post", "all"}
MCNestNames == {"Get", "Post", "All"}
MCClientNames == [python |-> {"requests", "client"}, typescript |-> {"axios", "client"}]
MCTopicNames == [consumer |-> {"KafkaConsumer"}, produce |-> {"send"}, subscribe |-> {"subscribe"}]

MCPaths ==
    {<< >>, <<"users">>, <<"users", "me">>, <<"", "users", "{id}">>, <<"users", ":id", "">>,
     <<"a", "v1", "users", "me">>, <<"a", "v1", "users", "{id}">>, <<"a", "v1", "", "orders", ":id">>,
     <<"a", "v2", "users", "me">>}

(***************************************************************************)
(* Syntax trees: every way from the module down through at most MaxDepth    *)
(* nodes, and (in TypeScript one node less) with a call beside any of them. *)
(***************************************************************************)
Node(kind, part) == [kind |-> kind, part |-> part]

\* What may stand below a node, in what part of it; inside tells whether
\* statements may stand there.
Blocks(kinds) == {Node(k, "body") : k \in kinds}
Expressions(part) == {Node(k, part) : k \in {"call", "other"}}

PyBelow(kind) ==
    CASE kind = "module" -> Blocks({"def", "call", "other"})
      [] kind = "def" -> Blocks({"def", "call", "other"}) \cup Expressions("head") \cup Expressions("decorator")
      [] kind = "other" -> Blocks({"def", "call", "other"})
      [] kind = "call" -> Expressions("body")

Nested == {"function", "class", "scope", "arrow", "generator", "pattern", "variable", "call", "other"}

TsBelow(kind) ==
    CASE kind \in {"module", "scope"} -> Blocks(Nested)
      [] kind \in {"function", "method", "generator"} -> Blocks(Nested) \cup Expressions("head")
      [] kind \in {"arrow", "field function"} -> Blocks(Nested) \cup Expressions("head") \cup Expressions("expression")
      [] kind = "class" -> Blocks({"method", "field", "field function", "other"}) \cup Expressions("head")
      [] kind \in {"field", "pattern", "variable"} -> Expressions("value")
      [] kind = "call" -> Expressions("body")
      [] kind = "other" -> Blocks(Nested)

Names == <<"a", "b", "c", "d", "e", "f", "g", "h", "i">>

\* The ways down of a length, as sequences of nodes.
Ways(below(_), long) ==
    LET of[n \in 1..long] ==
            IF n = 1 THEN {<<x>> : x \in below("module")}
            ELSE of[n - 1] \cup UNION {{Append(w, x) : x \in below(Last(w).kind)} : w \in {v \in of[n - 1] : Len(v) = n - 1}}
    IN  of[long]

\* One node below the other.
Chain(way) == [k \in DOMAIN way |-> way[k] @@ [up |-> k - 1, name |-> Names[k]]]

\* A call after all, below one of the nodes or the module.
WithCall(tree, below(_)) ==
    LET kind(n) == IF n = 0 THEN "module" ELSE tree[n].kind IN
    {Append(tree, x @@ [up |-> n, name |-> Names[Len(tree) + 1]]) :
        <<n, x>> \in {y \in (0..Len(tree)) \X {Node("call", p) : p \in {"body", "head", "value", "expression", "decorator"}} :
                        y[2] \in below(kind(y[1]))}}

\* Lambdas hold no statements, so that no definition is below what is not one.
PyValid(way) ==
    \A j, k \in DOMAIN way : j < k /\ (way[j].kind = "call" \/ way[j].part \in {"head", "decorator"}) => way[k].kind # "def"

MCPyTrees ==
    LET ways == {w \in Ways(PyBelow, MaxDepth) : PyValid(w)}
    IN  UNION {WithCall(Chain(w), PyBelow) : w \in ways}

MCTsTrees ==
    LET ways == Ways(TsBelow, MaxDepth)
    IN  {Chain(w) : w \in ways} \cup UNION {WithCall(Chain(w), TsBelow) : w \in {v \in ways : Len(v) < MaxDepth}}

(***************************************************************************)
(* Endpoints as each framework writes them, requests as each client does;   *)
(* "?" is a parameter, or what is in a variable.                            *)
(***************************************************************************)
Writing(path, parameter) == [k \in DOMAIN path |-> IF path[k] = "?" THEN parameter ELSE path[k]]

String(value) == [kind |-> "string", value |-> value]
List(items) == [kind |-> "list", items |-> items]
Keyword(name, value) == [kind |-> "keyword", name |-> name, value |-> value]
Object(key, value) == [kind |-> "object", pairs |-> <<[key |-> "other", value |-> [kind |-> "other"]], [key |-> key, value |-> value]>>]
Variable == [kind |-> "other"]

Called(callee, args) == [callee |-> callee, member |-> Len(callee) > 1, args |-> args]

\* With a leading slash, or with a trailing one instead.
Slashed(path) == {<<"">> \o path, path \o <<"">>}

Lower(method) == CASE method = "GET" -> "get" [] method = "POST" -> "post" [] method = "*" -> "all"
Title(method) == CASE method = "GET" -> "Get" [] method = "POST" -> "Post" [] method = "*" -> "All"

Decorators(e) ==
    {Called(<<"app", Lower(e.method)>>, <<String(p)>>) : p \in Slashed(Writing(e.path, "{id}"))}
    \cup {Called(<<"app", "route">>, <<String(p), Keyword("methods", List(<<"", m>>))>>) :
              p \in Slashed(Writing(e.path, "<id>")), m \in {e.method, Lower(e.method)}}
    \cup (IF e.method # "GET" THEN {} ELSE
              {Called(<<"app", "route">>, <<String(p)>>) : p \in Slashed(Writing(e.path, "<id>"))})

Declared(e) ==
    (IF e.method = "*" THEN {} ELSE
        {[by |-> "decorator", decorator |-> d] : d \in Decorators(e)}
        \cup {[by |-> "file", file |-> [dirs |-> <<"src", "app">> \o Writing(e.path, "[id]"), name |-> "route.ts", stem |-> "route"],
              exports |-> <<[form |-> "other", names |-> <<e.method>>], [form |-> f, names |-> <<n, e.method>>]>>] :
                 f \in {"function", "const"}, n \in {e.method}})
    \cup {[by |-> "call", call |-> Called(<<"app", Lower(e.method)>>, <<String(p), Variable>>)] :
              p \in Slashed(Writing(e.path, ":id"))}
    \cup {[by |-> "class", controller |-> <<Called(<<"Injectable">>, << >>), Called(<<"Controller">>, c)>>,
            decorators |-> <<Called(<<"UseGuards">>, <<Variable>>), Called(<<Title(e.method)>>, m)>>] :
              <<c, m>> \in UNION {
                  {<<IF j = 0 THEN << >> ELSE <<String(p)>>, IF j = Len(e.path) THEN << >> ELSE <<String(q)>>>> :
                      p \in Slashed(SubSeq(Writing(e.path, ":id"), 1, j)),
                      q \in Slashed(SubSeq(Writing(e.path, ":id"), j + 1, Len(e.path)))} : j \in 0..Len(e.path)}}

Urls(path, variable) ==
    LET p == Writing(path, variable) IN {<<"">> \o p, <<"http:", "", "host">> \o p, <<"https:", "", "host", "">> \o p \o <<"">>}

Requests(r) ==
    {[language |-> "python", call |-> Called(<<"requests", Lower(r.method)>>, <<String(u), Keyword("timeout", Variable)>>)] :
        u \in Urls(r.path, "{x}")}
    \cup {[language |-> "typescript", call |-> Called(<<"this", "client", Lower(r.method)>>, <<String(u)>>)] : u \in Urls(r.path, "{}")}
    \cup {[language |-> "typescript", call |-> Called(<<"fetch">>, <<String(u), Object("method", String(r.method))>>)] : u \in Urls(r.path, "{}")}
    \cup (IF r.method # "GET" THEN {} ELSE
              {[language |-> "typescript", call |-> Called(<<"fetch">>, <<String(u)>>)] : u \in Urls(r.path, "{}")})

Places == {<< >>, <<"users">>, <<"users", "?">>, <<"?", "me">>}

MCWires ==
    UNION {LET declared == Declared(e)
               requests == Requests(r)
           IN  {[endpoint |-> e, request |-> r, declared |-> d, language |-> c.language, call |-> c.call] :
                   d \in declared, c \in requests} :
           e \in [method : {"GET", "POST", "*"}, path : Places],
           r \in [method : {"GET", "POST"}, path : Places \cup {<<"users", "me">>}]}

Written(language, call, topics) == [language |-> language, call |-> call, topics |-> topics]

Producers ==
    UNION {{Written("python", Called(<<"p", "send">>, <<String(t), Variable, Keyword("key", String("u"))>>), <<t>>),
            Written("typescript", Called(<<"p", "send">>, <<Object("topic", String(t))>>), <<t>>),
            Written("typescript", Called(<<"p", "send">>, <<String(t), Variable>>), <<t>>)} : t \in {"t", "u"}}

\* A consumer lists topics and, as "", variables.
Consumers ==
    UNION {{Written("python", Called(<<"KafkaConsumer">>, <<String(l[1]), Keyword("group", String("t"))>>), <<l[1]>>),
            Written("python", Called(<<"c", "subscribe">>, <<List(l)>>), l),
            Written("python", Called(<<"c", "subscribe">>, <<[kind |-> "tuple", items |-> l]>>), l),
            Written("faust", Called(<<"app", "agent">>, <<String(l[1])>>), <<l[1]>>),
            Written("typescript", Called(<<"c", "subscribe">>, <<Object("topic", String(l[1]))>>), <<l[1]>>),
            Written("typescript", Called(<<"c", "subscribe">>, <<Object("topics", List(l))>>), l),
            Written("typescript", Called(<<"c", "subscribe">>, <<List(l)>>), l)} :
           l \in {x \in BoundedSeq({"t", "u", ""}, 3) : x # << >>}}
    \cup {Written("python", Called(<<"KafkaConsumer">>, <<Keyword("group", String("t"))>>), << >>),
          Written("faust", Called(<<"app", "agent">>, <<Variable>>), << >>),
          Written("typescript", Called(<<"c", "subscribe">>, <<Variable>>), << >>)}

MCStreams ==
    {[producer |-> p, consumer |-> c, produced |-> p.topics[1], consumed |-> SelectSeq(c.topics, LAMBDA t : t # "")] :
        p \in Producers, c \in Consumers}

Client(k, site, method, path) == [id |-> k, site |-> site, method |-> method, path |-> path]
Route(k, repo, method, path) == [id |-> k, repo |-> repo, method |-> method, path |-> path]
Site(repo, file, line) == [repo |-> repo, file |-> file, line |-> line]

\* Ten segments of which so many differ from the client's: with 7 of 10 that
\* agree the score is the threshold.
Ten(differing) == [k \in 1..10 |-> IF k <= differing THEN "b" ELSE "a"]

\* One client; two clients on one line, in two lines, files or repositories,
\* with routes of which two may be the same in two repositories; long paths.
MCHttpCases ==
    {[clients |-> <<Client(1, Site(A, "x", 1), "get", p)>>,
      routes |-> [k \in DOMAIN r |-> Route(k, A, r[k][1], r[k][2])]] :
        p \in MCPaths, r \in BoundedSeq({"GET", "*"} \X MCPaths, 2)}
    \cup
    {[clients |-> <<Client(1, Site(A, "x", 1), m, <<"users", "me">>), Client(2, s, n, <<"users", "{id}">>)>>,
      routes |-> [k \in DOMAIN r |-> Route(k, IF k = 3 THEN b ELSE A, r[k], <<"users", IF k = 1 THEN "me" ELSE "you">>)]] :
        m, n \in {"get", "*"}, r \in BoundedSeq({"GET", "POST", "*"}, 3), b \in {A, B},
        s \in {Site(A, "x", 1), Site(A, "x", 2), Site(A, "y", 1), Site(B, "x", 1)}}
    \cup
    {[clients |-> <<Client(1, Site(A, "x", 1), "get", Ten(0))>>,
      routes |-> [k \in DOMAIN d |-> Route(k, A, "GET", Ten(d[k]))]] : d \in BoundedSeq({2, 3, 4}, 3)}

TopicUses == BoundedSeq([repo : {A, B}, topic : {"t", "u", "<dynamic>"}], 2)

MCKafkaCases == [producers : TopicUses, consumers : TopicUses]

Chunk(w, k) == [workspace |-> w, id |-> k]

Seven == <<"a", "b", "c", "d", "e", "f", "g">>

MCQueries ==
    {[index |-> [symbols |-> l, chunks |-> [k \in 1..n |-> Chunk("w", k)]], workspace |-> "w", k |-> 3, limit |-> m] :
        l \in {s \in BoundedSeq([workspace : {"w"}, repo : {A, B}, fqn : {"f", "g", "h"}], 3) : IsInjective(s)},
        n \in 0..3, m \in 0..6}
    \cup
    {[index |-> [symbols |-> [k \in DOMAIN c |-> [workspace |-> c[k], repo |-> A, fqn |-> Seven[k]]],
                 chunks |-> [k \in DOMAIN c |-> Chunk(c[k], k)]], workspace |-> "w", k |-> n, limit |-> m] :
        c \in BoundedSeq({"w", "other"}, 7), n \in 1..3, m \in 1..3}

Named == [repo : {A, B}, fqn : {<<"f">>, <<"m", "f">>, <<"n", "m", "f">>}, score : 0..1]

MCLookups ==
    {[db |-> [symbols |-> s, calls |-> {}, edge |-> {}], asked |-> a, mode |-> m, limit |-> n] :
        s \in {t \in BoundedSeq(Named, 3) : IsInjective([k \in DOMAIN t |-> Id(t[k])])},
        a \in {<<"f">>, <<"m", "f">>}, m \in {"exact", "suffix", "fuzzy", "auto"}, n \in {0, 3}}

F == [repo |-> A, fqn |-> <<"f">>]
G == [repo |-> A, fqn |-> <<"m", "f">>]
H == [repo |-> B, fqn |-> <<"f">>]

Three == [k \in 1..3 |-> <<F, G, H>>[k] @@ [score |-> 0]]

Calling == {<<F, G, 95>>, <<G, F, 55>>, <<G, H, 85>>, <<H, G, 90>>, <<F, H, 75>>, <<H, F, 55>>}
Loops == {<<F, F, 85>>, <<G, G, 75>>}

MCGraphs ==
    {[db |-> [symbols |-> Three, calls |-> c, edge |-> {}], asked |-> a, depth |-> d, direction |-> r] :
        c \in SUBSET (Calling \cup Loops), a \in {F.fqn, G.fqn}, d \in 1..3, r \in {"callers", "both", "callees"}}

\* Each owned by one symbol or by none: two routes and a client.
Other(x) == [node |-> x]

Own(type, x) == {{}} \cup {{<<s, type, Other(x)>>} : s \in {F, G, H}}

MCImpacts ==
    {[db |-> [symbols |-> Three, calls |-> c,
              edge |-> h1 \cup h2 \cup i \cup f]] :
        c \in SUBSET (Calling \ {<<H, F, 55>>}), h1 \in Own("HANDLES", "r1"), h2 \in Own("HANDLES", "r2"),
        i \in Own("INVOKES", "c"),
        f \in SUBSET {<<Other("c"), "HTTP_FLOW", Other("r1")>>, <<Other("c"), "HTTP_FLOW", Other("r2")>>}}

(***************************************************************************)
(* Configuration files of up to two lines, quoted or not, with comments or  *)
(* without; and migrations to two dimensions of which two overlap.          *)
(***************************************************************************)
MCConnection == <<"URI", "PASSWORD">>
MCLogging == <<"LEVEL">>
MCDefaults == [URI |-> <<"local">>, PASSWORD |-> <<"">>, LEVEL |-> <<"info">>]
MCCommented == "x #y" :> "x"

Values == {<<"x">>, <<"">>, <<"x #y">>, <<"double", "x">>, <<"double", "x #y">>, <<"blank", "double", "single", "x">>}

Line(k, v) == [key |-> k, value |-> v]

EnvLines == {Line(k, v) : k \in {"PASSWORD", "LEVEL", "EXTRA"}, v \in Values} \cup {Line("#", <<"x">>)}

Flags == {<< >>, <<Line("URI", <<"u">>)>>, <<Line("PASSWORD", <<"p">>)>>, <<Line("PASSWORD", <<"">>)>>,
          <<Line("PASSWORD", <<"x #y">>), Line("URI", <<"">>)>>}

\* The prompt for the password ends only with one.
MCAsked ==
    [flags : Flags, typed : {<< >>}, interactive : {FALSE}, test : {"ok", "failed"}]
    \cup [flags : Flags, typed : {<<Line("PASSWORD", <<"q">>)>>, <<Line("PASSWORD", <<"q">>), Line("URI", <<"v">>)>>},
          interactive : {TRUE}, test : {"skipped", "failed", "failed, saved anyway"}]

MCSetups ==
    [file : BoundedSeq(EnvLines, 2), asked : MCAsked, env : {<< >>, <<Line("PASSWORD", <<"e">>)>>},
     project : {<< >>, <<Line("URI", <<"double", "w">>), Line("EXTRA", <<"z">>)>>}]

MCMigrations ==
    [dim : 0..2, runs : [1..2 -> [dim : 1..2, tells : BOOLEAN]],
     schedule : {s \in BoundedSeq(1..2, 8) : \A r \in 1..2 : Cardinality(Steps(s, r)) <= 4}]
=============================================================================
