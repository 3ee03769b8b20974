---------------------------- MODULE FlowMatchers ----------------------------
(***************************************************************************)
(* The two matchers that derive cross-service flows from a bundle:          *)
(* routes/matcher.py with the path similarity of routes/_common.py, and     *)
(* messaging/kafka_matcher.py.                                              *)
(*                                                                         *)
(* A path is the sequence of what stands between its slashes; a segment is  *)
(* a parameter when it is written in one of the four frameworks' syntaxes.  *)
(* A client's site is the repository, the file and the line it starts in.   *)
(***************************************************************************)
EXTENDS Integers, SequencesExt

CONSTANTS
    ParamSyntax,  \* segments that are parameters, as they are written
    Upper,        \* methods and their upper-case form
    Threshold,    \* percentage of segments that have to match (70 in the code)
    Dynamic       \* the topic of a call whose argument is not a literal

ASSUME FlowAssumption == Threshold \in 1..100

Param == "{}"

(***************************************************************************)
(* HTTP.                                                                    *)
(***************************************************************************)
\* normalize_path, path_segments: parameters are all alike; a leading slash
\* added, doubled ones collapsed or a trailing one dropped leave no segment.
Segments(path) ==
    LET normal == [k \in DOMAIN path |-> IF path[k] \in ParamSyntax THEN Param ELSE path[k]]
    IN  SelectSeq(normal, LAMBDA s : s # "")

\* path_similarity as a fraction.
Similarity(a, b) ==
    LET x == Segments(a)
        y == Segments(b)
        same == {k \in DOMAIN x : x[k] = y[k] \/ Param \in {x[k], y[k]}}
    IN  CASE x = y -> <<1, 1>>
          [] x # y /\ Len(x) # Len(y) -> <<0, 1>>
          [] OTHER -> <<Cardinality(same), Len(x)>>

Above(s, t) == s[1] * t[2] > t[1] * s[2]

MethodsMatch(client, route) == "*" \in {client, route} \/ Upper[client] = Upper[route]

Edge(client, route) ==
    [client |-> client.id, site |-> client.site,
     route |-> route.id, repo |-> route.repo, path |-> route.path,
     method |-> IF route.method # "*" THEN Upper[route.method] ELSE client.method]

\* Mutant of Better: the candidates so far are kept when a better one comes.
KeepCandidates(best, edge, score) ==
    IF Above(score, best.score) THEN [score |-> score, edges |-> Append(best.edges, edge)]
    ELSE IF Above(best.score, score) THEN best ELSE [best EXCEPT !.edges = Append(@, edge)]

\* The candidates of a client after one more route above the threshold.
Better(best, edge, score) ==
    IF Above(score, best.score) THEN [score |-> score, edges |-> <<edge>>]
    ELSE IF Above(best.score, score) THEN best ELSE [best EXCEPT !.edges = Append(@, edge)]

MatchClient(client, routes) ==
    LET step(best, route) ==
            LET score == Similarity(client.path, route.path) IN
            IF MethodsMatch(client.method, route.method) /\ ~Above(<<Threshold, 100>>, score)
            THEN Better(best, Edge(client, route), score) ELSE best
    IN  FoldLeft(step, [score |-> <<0, 1>>, edges |-> << >>], routes).edges

\* match_http_flows
MatchHttpFlows(clients, routes) ==
    FlattenSeq([k \in DOMAIN clients |-> MatchClient(clients[k], routes)])

\* _UPSERT_HTTP_FLOWS: an edge is stored from all the clients at its site to all
\* routes of its repository, method and path.
StoredFlows(clients, routes) ==
    LET from(edge) == {c \in ToSet(clients) : c.site = edge.site}
        to(edge) == {r \in ToSet(routes) : <<r.repo, r.method, r.path>> = <<edge.repo, edge.method, edge.path>>}
    IN  UNION {{c.id : c \in from(e)} \X {r.id : r \in to(e)} : e \in ToSet(MatchHttpFlows(clients, routes))}

(***************************************************************************)
(* Kafka.  Producers and consumers are records of repository and topic.     *)
(***************************************************************************)
\* Mutant of Known: dynamic topics are matched like any other.
KnownAll(calls) == calls

Known(calls) == SelectSeq(calls, LAMBDA c : c.topic # Dynamic)

\* match_kafka_flows: per topic, in the order of first appearance.
MatchKafkaFlows(producers, consumers) ==
    LET p == Known(producers)
        c == Known(consumers)
        first == SelectSeq([k \in DOMAIN p |-> k],
                           LAMBDA k : \A j \in 1..(k - 1) : p[j].topic # p[k].topic)
        of(calls, topic) == SelectSeq(calls, LAMBDA x : x.topic = topic)
        pairs(topic) ==
            FlattenSeq([i \in DOMAIN of(p, topic) |->
                [j \in DOMAIN of(c, topic) |->
                    [from |-> of(p, topic)[i].repo, to |-> of(c, topic)[j].repo, topic |-> topic]]])
    IN  FlattenSeq([k \in DOMAIN first |-> pairs(p[first[k]].topic)])

\* count_repo_topics
RepoTopics(repo, producers, consumers) ==
    {x.topic : x \in {y \in ToSet(Known(producers)) \cup ToSet(Known(consumers)) : y.repo = repo}}

-----------------------------------------------------------------------------
(***************************************************************************)
(* The same, said directly.                                                 *)
(***************************************************************************)
\* Two segments can be the same place.
Unify(a, b) == a = b \/ a \in ParamSyntax \cup {Param} \/ b \in ParamSyntax \cup {Param}

\* How many segments of two paths of the same length unify; 0 else.
Agreement(a, b) ==
    LET x == SelectSeq(a, LAMBDA s : s # "")
        y == SelectSeq(b, LAMBDA s : s # "")
    IN  IF Len(x) # Len(y) THEN 0 ELSE Cardinality({k \in DOMAIN x : Unify(x[k], y[k])})

\* The routes a client reaches: among those whose method and path fit, every
\* one that agrees in the most segments.
Reached(client, routes) ==
    LET long == Len(SelectSeq(client.path, LAMBDA s : s # ""))
        fits(r) == /\ Upper[client.method] = Upper[r.method] \/ "*" \in {client.method, r.method}
                   /\ Len(SelectSeq(r.path, LAMBDA s : s # "")) = long
                   /\ 100 * Agreement(client.path, r.path) >= Threshold * long
        fit == {k \in DOMAIN routes : fits(routes[k])}
    IN  {routes[k].id : k \in {i \in fit : \A j \in fit :
            Agreement(client.path, routes[i].path) >= Agreement(client.path, routes[j].path)}}
=============================================================================
