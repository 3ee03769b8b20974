------------------------------ MODULE Endpoints ------------------------------
(***************************************************************************)
(* How routes, HTTP calls and Kafka calls are read from decorators, calls   *)
(* and file names: routes/python_routes.py, routes/ts_routes.py,            *)
(* messaging/python_kafka.py, messaging/ts_kafka.py.                        *)
(*                                                                         *)
(* A call or decorator is the chain of names it calls, whether that is a    *)
(* member of something, and its arguments; an argument is a record of its   *)
(* kind ("string", "list", "tuple", "keyword", "object", "other") and its   *)
(* content.  A string that is a path or a URL is what stands between its    *)
(* slashes, "" being << >>; the interpolations of a template are "{}".      *)
(***************************************************************************)
EXTENDS FlowMatchers

CONSTANTS
    HttpMethods,    \* _VALID_METHODS
    ExpressNames,   \* _EXPRESS_METHODS
    NestNames,      \* _NEST_METHOD_DECORATORS
    ClientNames,    \* modules and variables that are HTTP clients
    TopicNames      \* constructors and methods of producers and consumers

ASSUME EndpointAssumption == /\ HttpMethods \subseteq {Upper[m] : m \in DOMAIN Upper}
                             /\ DOMAIN TopicNames = {"consumer", "produce", "subscribe"}

IsHttpMethod(name) == name \in DOMAIN Upper /\ Upper[name] \in HttpMethods

RouteOf(method, path) == <<[method |-> method, path |-> Segments(path)]>>

Literal(args) == IF args # << >> /\ args[1].kind = "string" THEN <<args[1].value>> ELSE << >>

Positional(args) == SelectSeq(args, LAMBDA a : a.kind # "keyword")

\* _first_string_arg
FirstString(args) == Literal(Positional(args))

(***************************************************************************)
(* Routes.                                                                  *)
(***************************************************************************)
\* _flask_methods_kwarg, and what a route without it gets.
FlaskMethods(args) ==
    LET lists == SelectSeq(args, LAMBDA a : a.kind = "keyword" /\ a.name = "methods" /\ a.value.kind = "list")
        named == IF lists = << >> THEN << >> ELSE SelectSeq(lists[1].value.items, IsHttpMethod)
    IN  IF named = << >> THEN <<"GET">> ELSE [k \in DOMAIN named |-> Upper[named[k]]]

\* _route_from_decorator
PyRoutes(decorator) ==
    LET attr == Last(decorator.callee)
        path == FirstString(decorator.args)
        methods == CASE IsHttpMethod(attr) /\ Upper[attr] \notin {"CONNECT", "TRACE"} -> <<Upper[attr]>>
                     [] attr = "route" -> FlaskMethods(decorator.args)
                     [] OTHER -> << >>
    IN  IF Len(decorator.callee) < 2 \/ path = << >> THEN << >>
        ELSE FlattenSeq([k \in DOMAIN methods |-> RouteOf(methods[k], path[1])])

\* _maybe_express_route
ExpressRoutes(call) ==
    LET name == Last(call.callee)
        path == Literal(call.args)
    IN  IF ~call.member \/ name \notin ExpressNames \/ path = << >> THEN << >>
        ELSE RouteOf(IF name = "all" THEN "*" ELSE Upper[name], path[1])

\* _nest_decorator_string_arg for the first decorator of the name, if any.
NestArgument(decorators, names) ==
    LET of == SelectSeq(decorators, LAMBDA d : d.callee[1] \in names)
        strings == SelectSeq(of[1].args, LAMBDA a : a.kind = "string")
    IN  IF of = << >> \/ strings = << >> THEN << >> ELSE strings[1].value

\* Mutant of NestPath: a method without a path of its own is at the root.
NestPathRoot(prefix, sub) == IF sub = << >> THEN << >> ELSE Segments(prefix) \o Segments(sub)

\* The controller's prefix and the method's path with one slash between them.
NestPath(prefix, sub) == Segments(prefix) \o Segments(sub)

\* _nest_prefix_from_decorators and _maybe_nest_method_route
NestRoutes(controller, decorators) ==
    LET routes == SelectSeq(decorators, LAMBDA d : d.callee[1] \in NestNames)
        prefix == NestArgument(controller, {"Controller"})
        method(d) == IF d.callee[1] = "All" THEN "*" ELSE Upper[d.callee[1]]
    IN  FlattenSeq([k \in DOMAIN routes |->
            RouteOf(method(routes[k]), NestPath(prefix, NestArgument(<<routes[k]>>, NestNames)))])

\* _nextjs_app_router_path and _emit_nextjs_handlers: the directories below the
\* first one called app, and the functions or first constants exported under
\* the name of a method.
NextAppRoutes(file, exports) ==
    LET app == SelectInSeq(file.dirs, LAMBDA d : d = "app")
        first == [k \in DOMAIN exports |-> IF exports[k].form \in {"function", "const"}
                                           THEN exports[k].names[1] ELSE "none"]
        methods == SelectSeq(first, IsHttpMethod)
    IN  FlattenSeq([k \in DOMAIN methods |->
            RouteOf(Upper[methods[k]], SubSeq(file.dirs, app + 1, Len(file.dirs)))])

\* _nextjs_pages_path: the path keeps the file's name, before its stem.
NextPagesRoutes(file) ==
    LET pages == SelectInSeq(file.dirs, LAMBDA d : d = "pages")
        stem == IF file.stem = "index" THEN << >> ELSE <<file.stem>>
    IN  RouteOf("*", <<"api">> \o SubSeq(file.dirs, pages + 2, Len(file.dirs)) \o <<file.name>> \o stem)

\* _infer_nextjs_routes_from_ast
NextRoutes(file, exports) ==
    LET pages == SelectInSeq(file.dirs, LAMBDA d : d = "pages") IN
    IF "app" \in ToSet(file.dirs) /\ file.stem = "route" THEN NextAppRoutes(file, exports)
    ELSE IF pages \in 1..(Len(file.dirs) - 1) /\ file.dirs[pages + 1] = "api" THEN NextPagesRoutes(file)
    ELSE << >>

\* What parse_file makes of a declaration.
Routes(declared) ==
    CASE declared.by = "decorator" -> PyRoutes(declared.decorator)
      [] declared.by = "call" -> ExpressRoutes(declared.call)
      [] declared.by = "class" -> NestRoutes(declared.controller, declared.decorators)
      [] declared.by = "file" -> NextRoutes(declared.file, declared.exports)

(***************************************************************************)
(* HTTP clients.                                                            *)
(***************************************************************************)
\* Mutant of UrlPath: the host stays in the path.
UrlPathHost(url) == IF Len(url) > 2 /\ url[1] \in {"http:", "https:"} THEN SubSeq(url, 3, Len(url)) ELSE url

\* _split_url
UrlPath(url) == IF Len(url) > 2 /\ url[1] \in {"http:", "https:"} THEN SubSeq(url, 4, Len(url)) ELSE url

\* A method of an HTTP client that is called on what has a client's name.
IsClientCall(call, names) ==
    /\ Len(call.callee) > 1 /\ IsHttpMethod(Last(call.callee))
    /\ Last(Front(call.callee)) \in names

\* _python_http_call_from
PyClients(call) ==
    LET url == FirstString(call.args) IN
    IF IsClientCall(call, ClientNames.python) /\ url # << >>
    THEN RouteOf(Upper[Last(call.callee)], UrlPath(url[1])) ELSE << >>

\* _options_method, and what fetch without it does.
FetchMethod(args) ==
    LET options == IF Len(args) > 1 /\ args[2].kind = "object" THEN args[2].pairs ELSE << >>
        named == SelectSeq(options, LAMBDA p : p.key = "method" /\ p.value.kind = "string" /\ IsHttpMethod(p.value.value))
    IN  IF named = << >> THEN "GET" ELSE Upper[named[1].value.value]

\* _maybe_http_call and _fetch_call
TsClients(call) ==
    LET url == Literal(call.args)
        fetches == ~call.member /\ call.callee = <<"fetch">>
    IN  IF url = << >> \/ ~(fetches \/ IsClientCall(call, ClientNames.typescript)) THEN << >>
        ELSE RouteOf(IF fetches THEN FetchMethod(call.args) ELSE Upper[Last(call.callee)], UrlPath(url[1]))

(***************************************************************************)
(* Topics.                                                                  *)
(***************************************************************************)
\* Of the items of a list, those that are no literals are "".
Literals(items) == SelectSeq(items, LAMBDA i : i # "")

FirstTopic(topics) == IF topics = << >> THEN <<Dynamic>> ELSE <<topics[1]>>

\* Mutant of EveryTopic: the first of several topics only.
EveryTopicFirst(topics) == FirstTopic(topics)

EveryTopic(topics) == IF topics = << >> THEN <<Dynamic>> ELSE topics

\* The literals in the first argument that is not a keyword, if it is of one
\* of these kinds.
Content(args, kinds) ==
    LET p == Positional(args) IN
    IF p = << >> \/ p[1].kind \notin kinds THEN << >>
    ELSE Literals(IF p[1].kind = "string" THEN <<p[1].value>> ELSE p[1].items)

\* _first_positional_string
PyTopic(args) == FirstTopic(Content(args, {"string", "list"}))

\* _collect_string_list_arg
PyTopics(args) == EveryTopic(Content(args, {"string", "list", "tuple"}))

Producing(topics) == [produces |-> topics, consumes |-> << >>]
Consuming(topics) == [produces |-> << >>, consumes |-> topics]

\* _maybe_kafka_call, Python.
PyKafka(call) ==
    LET name == Last(call.callee) IN
    CASE ~call.member /\ name \in TopicNames.consumer -> Consuming(PyTopic(call.args))
      [] call.member /\ name \in TopicNames.produce -> Producing(PyTopic(call.args))
      [] call.member /\ name \in TopicNames.subscribe -> Consuming(PyTopics(call.args))
      [] OTHER -> Producing(<< >>)

\* _maybe_faust_agent: the first string among the arguments.
FaustTopic(decorator) ==
    FirstTopic(Literals([k \in DOMAIN decorator.args |->
        IF decorator.args[k].kind = "string" THEN decorator.args[k].value ELSE ""]))

\* _topic_from_object and _topic_from_call_args: the first of several topics.
TsTopic(args) ==
    LET pairs == IF args # << >> /\ args[1].kind = "object"
                 THEN SelectSeq(args[1].pairs, LAMBDA p : p.key \in {"topic", "topics"}) ELSE << >>
        from == IF args # << >> /\ args[1].kind = "object" THEN [k \in DOMAIN pairs |-> pairs[k].value] ELSE args
    IN  FirstTopic(Content(from, {"string", "list"}))

\* _maybe_kafka_call, TypeScript.
TsKafka(call) ==
    LET name == Last(call.callee) IN
    CASE call.member /\ name \in TopicNames.produce -> Producing(TsTopic(call.args))
      [] call.member /\ name \in TopicNames.subscribe -> Consuming(TsTopic(call.args))
      [] OTHER -> Producing(<< >>)

\* What a call or, in Python, a decorator does in Kafka.
Kafka(written) ==
    CASE written.language = "python" -> PyKafka(written.call)
      [] written.language = "faust" -> Consuming(FaustTopic(written.call))
      [] written.language = "typescript" -> TsKafka(written.call)

-----------------------------------------------------------------------------
\* An endpoint serves a request; what "?" stands for is up to a variable.
Serves(endpoint, request) ==
    /\ endpoint.method \in {"*", request.method}
    /\ Len(endpoint.path) = Len(request.path)
    /\ \A k \in DOMAIN request.path : endpoint.path[k] \in {request.path[k], "?"}
=============================================================================
