----------------------------- MODULE SourceTrees -----------------------------
(***************************************************************************)
(* Who calls: the walks over a file's syntax tree that attribute calls,     *)
(* HTTP clients, Kafka calls and routes to the definition they stand in     *)
(* (parser/python_adapter.py, parser/_ts_js_base.py, routes/, messaging/).  *)
(*                                                                         *)
(* A tree is the sequence of its nodes in preorder: the kind, the node      *)
(* above (0 for the module), the part of that node it belongs to, and a     *)
(* name for a definition.  A decorated Python definition is one node with   *)
(* its decorators as a part; a TypeScript variable or class field that      *)
(* holds a function is one node with that function, and "expression" is the *)
(* part of an arrow function whose body is an expression, namely that       *)
(* expression.  Statements and expressions that matter to no walk are       *)
(* "other".                                                                 *)
(*                                                                         *)
(* A walk looks at the nodes below a node under a caller.  It takes the     *)
(* nodes of the named kinds for definitions, walks their bodies and nothing *)
(* else of them; leaves out those of the skipped kinds; and starts below    *)
(* the parts that are only entered, which it never looks at themselves.     *)
(***************************************************************************)
EXTENDS ModuleNames

PySymbolWalk == [named |-> {"def"}, skipped |-> {}, entered |-> {}]
PyRouteWalk == [named |-> {"def"}, skipped |-> {}, entered |-> {}]
PyClientWalk == [named |-> {"def"}, skipped |-> {}, entered |-> {}]
PyKafkaWalk == [named |-> {"def"}, skipped |-> {}, entered |-> {}]

\* Mutant of TsSymbolWalk: a class field's function is not a scope.
TsFlatFields ==
    [named   |-> {"function", "method", "class", "scope", "arrow", "generator"},
     skipped |-> {"pattern", "field"},
     entered |-> {<<"variable", "value">>, <<"arrow", "expression">>, <<"field function", "expression">>}]

\* Destructuring and class fields without a function are ignored.
TsSymbolWalk ==
    [named   |-> {"function", "method", "class", "scope", "arrow", "generator", "field function"},
     skipped |-> {"pattern", "field"},
     entered |-> {<<"variable", "value">>, <<"arrow", "expression">>, <<"field function", "expression">>}]

\* Namespaces, enumerations, generators and class fields are no definitions.
TsClientWalk ==
    [named |-> {"function", "method", "class", "arrow"}, skipped |-> {}, entered |-> {<<"arrow", "expression">>}]
TsKafkaWalk ==
    [named |-> {"function", "method", "class", "arrow"}, skipped |-> {}, entered |-> {<<"arrow", "expression">>}]

\* Nor is anything for routes, and nothing is walked below a call or a class.
TsRouteWalk == [named |-> {}, skipped |-> {"call", "class"}, entered |-> {}]

KindAbove(tree, n) == IF tree[n].up = 0 THEN "module" ELSE tree[tree[n].up].kind

\* The caller under which a walk comes to each node, if it does.
CallerAt(tree, module, walk) ==
    LET at[n \in 0..Len(tree)] ==
            IF n = 0 THEN {module}
            ELSE LET above == at[tree[n].up] IN
                 CASE KindAbove(tree, n) \in walk.skipped -> {}
                   [] KindAbove(tree, n) \in walk.named /\ tree[n].part \in {"head", "decorator"} -> {}
                   [] KindAbove(tree, n) \in walk.named /\ tree[n].part \in {"body", "expression"} ->
                         {Qualify(f, tree[tree[n].up].name) : f \in above}
                   [] OTHER -> above
    IN  at

\* The nodes of a kind a walk looks at, each with its caller.
Seen(tree, module, walk, kind) ==
    LET at == CallerAt(tree, module, walk)
        looked == {n \in DOMAIN tree : tree[n].kind = kind /\ <<KindAbove(tree, n), tree[n].part>> \notin walk.entered}
    IN  {<<n, f>> \in looked \X UNION {at[n] : n \in looked} : f \in at[n]}

CallSites(tree, module, walk) == Seen(tree, module, walk, "call")

\* The FQNs of the symbols: the definitions', and the variables'.
Symbols(tree, module, walk) ==
    {Qualify(x[2], tree[x[1]].name) : x \in UNION {Seen(tree, module, walk, k) : k \in walk.named \cup {"variable"}}}

\* Python: every decorated definition handles the routes of its decorators.
PyHandlers(tree, module) ==
    {Qualify(x[2], tree[x[1]].name) : x \in Seen(tree, module, PyRouteWalk, "def")}

\* NestJS: the methods of a class are qualified by the class, the class by the
\* module whatever it stands in.
NestHandlers(tree, module) ==
    UNION {{Qualify(Qualify(x[2], tree[x[1]].name), tree[m].name) :
               m \in {k \in DOMAIN tree : tree[k].up = x[1] /\ tree[k].kind = "method"}} :
           x \in Seen(tree, module, TsRouteWalk, "class")}

\* Express: the calls that can declare a route.
ExpressCalls(tree, module) == {x[1] : x \in CallSites(tree, module, TsRouteWalk)}

-----------------------------------------------------------------------------
\* A node and what it stands in.
Upwards(tree, n) ==
    LET up[m \in 0..Len(tree)] == IF m = 0 THEN {} ELSE {m} \cup up[tree[m].up]
    IN  up[n]

Around(tree, n) == Upwards(tree, n) \ {n}

\* It stands in what a definition of these kinds is declared with, before it
\* has a body: parameters, base classes, decorators.
Before(tree, n, kinds) ==
    \E m \in Upwards(tree, n) : KindAbove(tree, m) \in kinds /\ tree[m].part \in {"head", "decorator"}

\* The name of the innermost definition around a node: its path of definitions.
Innermost(tree, module, n, kinds) ==
    LET around == SetToSortSeq({m \in Around(tree, n) : tree[m].kind \in kinds}, <)
    IN  module \o [k \in DOMAIN around |-> tree[around[k]].name]
=============================================================================
