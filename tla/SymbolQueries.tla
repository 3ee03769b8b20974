---------------------------- MODULE SymbolQueries ----------------------------
(***************************************************************************)
(* The tools that ask the graph about symbols: the lookup of               *)
(* _symbol_resolution.py, get_call_graph, get_impact_analysis, and          *)
(* trace_http_flow.                                                         *)
(*                                                                         *)
(* A database is a record: "symbols", in the order it returns them when     *)
(* none is asked for, each with its repository, its FQN (the sequence of    *)
(* pieces a suffix may start at) and the score the fulltext index gives it  *)
(* for the query (0: no match); "calls", the CALLS edges as triples <<from, *)
(* to, confidence>>; and "edge", the others as triples <<from, type, to>>.  *)
(***************************************************************************)
EXTENDS Integers, SequencesExt

CONSTANTS
    HardMax,    \* _HARD_MAX_CANDIDATES (50 in the code)
    MinSuffix,  \* shortest suffix looked for (3 characters in the code)
    Reach       \* hops of the impact analysis (5 in the code)

ASSUME QueryAssumption == HardMax \in Nat \ {0} /\ MinSuffix \in Nat /\ Reach \in Nat \ {0}

(***************************************************************************)
(* resolve                                                                  *)
(***************************************************************************)
\* clamp_candidates
Clamped(n) == IF n < 1 THEN 1 ELSE IF n > HardMax THEN HardMax ELSE n

\* ORDER BY cost LIMIT limit: ties stay in the database's order.
Best(rows, cost, limit) ==
    LET order == SortSeq([k \in DOMAIN rows |-> k],
                         LAMBDA j, k : cost[j] < cost[k] \/ (cost[j] = cost[k] /\ j < k))
    IN  [k \in 1..(IF limit < Len(rows) THEN limit ELSE Len(rows)) |-> rows[order[k]]]

RunExact(db, asked, limit) ==
    LET found == SelectSeq(db.symbols, LAMBDA s : s.fqn = asked)
    IN  Best(found, [k \in DOMAIN found |-> 0], limit)

\* Mutant of SuffixCost: the longest FQN comes first.
LongestFirst(s) == -Len(s.fqn)

SuffixCost(s) == Len(s.fqn)

RunSuffix(db, asked, limit) ==
    LET found == SelectSeq(db.symbols, LAMBDA s : IsSuffix(asked, s.fqn))
    IN  IF Len(asked) < MinSuffix THEN << >>
        ELSE Best(found, [k \in DOMAIN found |-> SuffixCost(found[k])], limit)

RunFuzzy(db, asked, limit) ==
    LET found == SelectSeq(db.symbols, LAMBDA s : s.score > 0)
    IN  Best(found, [k \in DOMAIN found |-> -found[k].score], limit)

Runner(db, asked, mode, limit) ==
    CASE mode = "exact" -> RunExact(db, asked, limit)
      [] mode = "suffix" -> RunSuffix(db, asked, limit)
      [] mode = "fuzzy" -> RunFuzzy(db, asked, limit)

\* The candidates, best first, and the mode that found them.
Lookup(db, asked, mode, n) ==
    LET modes == IF mode = "auto" THEN <<"exact", "suffix", "fuzzy">> ELSE <<mode>>
        found(m) == Runner(db, asked, m, Clamped(n))
        used == SelectInSeq(modes, LAMBDA m : found(m) # << >>)
    IN  IF used = 0 THEN [rows |-> << >>, used |-> "none"]
        ELSE [rows |-> found(modes[used]), used |-> modes[used]]

(***************************************************************************)
(* Variable-length patterns: paths that use no edge twice.                  *)
(***************************************************************************)
Trails(db, most) ==
    LET of[n \in 1..most] ==
            IF n = 1 THEN {<<e>> : e \in db.calls}
            ELSE {Append(t, e) : <<t, e>> \in {<<u, f>> \in of[n - 1] \X db.calls :
                                                  f[1] = Last(u)[2] /\ f \notin ToSet(u)}}
    IN  UNION {of[n] : n \in 1..most}

Lowest(t) == CHOOSE m \in {e[3] : e \in ToSet(t)} : \A e \in ToSet(t) : m <= e[3]

Entry(s, t) == [symbol |-> s, hops |-> Len(t), min_confidence |-> Lowest(t)]

\* (x)-[:CALLS*0..most]->(s)
Reaching(db, s, most) == {s} \cup {t[1][1] : t \in {u \in Trails(db, most) : Last(u)[2] = s}}

\* (s)-[:CALLS*0..most]->(x)
ReachedFrom(db, s, most) == {s} \cup {Last(t)[2] : t \in {u \in Trails(db, most) : u[1][1] = s}}

Id(s) == [repo |-> s.repo, fqn |-> s.fqn]

\* The traversals match the best candidate's FQN, in whichever repository the
\* database finds it first.
Primary(db, rows) == Id(SelectSeq(db.symbols, LAMBDA s : s.fqn = rows[1].fqn)[1])

\* Mutant of Callers: paths one call shorter than asked for.
CallersNearer(db, s, depth) ==
    {Entry(t[1][1], t) : t \in {u \in Trails(db, depth) : Last(u)[2] = s /\ (Len(u) < depth \/ depth = 1)}}

Callers(db, s, depth) == {Entry(t[1][1], t) : t \in {u \in Trails(db, depth) : Last(u)[2] = s}}

Callees(db, s, depth) == {Entry(Last(t)[2], t) : t \in {u \in Trails(db, depth) : u[1][1] = s}}

\* get_call_graph
CallGraph(db, asked, depth, direction, mode, n) ==
    LET found == Lookup(db, asked, mode, n)
        target == Primary(db, found.rows)
    IN  IF found.rows = << >>
        THEN [target |-> << >>, callers |-> {}, callees |-> {}, used |-> "none"]
        ELSE [target |-> <<target>>, used |-> found.used,
              callers |-> IF direction # "callees" THEN Callers(db, target, depth) ELSE {},
              callees |-> IF direction # "callers" THEN Callees(db, target, depth) ELSE {}]

(***************************************************************************)
(* get_impact_analysis of one symbol.                                       *)
(***************************************************************************)
From(db, type, to) == {e[1] : e \in {f \in db.edge : f[2] = type /\ f[3] = to}}

To(db, from, type) == {e[3] : e \in {f \in db.edge : f[1] = from /\ f[2] = type}}

\* What xs are, each with every symbol that owns it.
WithOwners(db, type, xs) == UNION {From(db, type, x) \X {x} : x \in xs}

\* Mutant of HandlersInto: the handlers the symbol calls.
HandlersBelow(db, s) == ReachedFrom(db, s, Reach)

\* Symbols whose requests end at s, should they be handlers.
HandlersInto(db, s) == Reaching(db, s, Reach)

Inbound(db, s) ==
    LET routes == UNION {To(db, h, "HANDLES") : h \in HandlersInto(db, s)}
    IN  WithOwners(db, "INVOKES", UNION {From(db, "HTTP_FLOW", r) : r \in routes})

\* handles_routes goes from the symbol to what it calls, three hops deep.
Impact(db, s) ==
    [upstream |-> {c.symbol : c \in Callers(db, s, Reach)},
     handles_routes |-> UNION {To(db, h, "HANDLES") : h \in ReachedFrom(db, s, 3)},
     http_inbound |-> Inbound(db, s),
     kafka_inbound |-> UNION {To(db, p, "PRODUCES") : p \in Reaching(db, s, Reach)}]

(***************************************************************************)
(* trace_http_flow of one route.                                            *)
(***************************************************************************)
TraceHttp(db, route) ==
    LET handlers == From(db, "HANDLES", route)
    IN  [handlers |-> handlers,
         callers |-> WithOwners(db, "INVOKES", From(db, "HTTP_FLOW", route)),
         downstream |-> UNION {{c.symbol : c \in Callees(db, h, 3)} : h \in handlers}]

-----------------------------------------------------------------------------
(***************************************************************************)
(* The same, said directly.                                                 *)
(***************************************************************************)
\* All that a mode finds, and when one of these is better than another.
Matches(db, asked, mode) ==
    {s \in ToSet(db.symbols) :
        \/ mode = "exact" /\ s.fqn = asked
        \/ mode = "suffix" /\ Len(asked) >= MinSuffix /\ IsSuffix(asked, s.fqn)
        \/ mode = "fuzzy" /\ s.score > 0}

Preferred(s, t, mode) ==
    \/ mode = "suffix" /\ Len(s.fqn) < Len(t.fqn)
    \/ mode = "fuzzy" /\ s.score > t.score

\* The symbols from which n calls of a confidence of at least m lead to s.
Behind(db, s, n, m) ==
    LET layer[k \in 0..n] ==
            IF k = 0 THEN {s} ELSE {e[1] : e \in {f \in db.calls : f[2] \in layer[k - 1] /\ f[3] >= m}}
    IN  layer[n]
=============================================================================
