------------------------------ MODULE MCIndexer ------------------------------
(***************************************************************************)
(* A workspace small enough for TLC: repository A (a client with a helper   *)
(* file) calls repository B (a server).  Every statement of the writer has  *)
(* a payload for some content, and every content changes what its file      *)
(* defines; one route names its handler in another file.                    *)
(***************************************************************************)
EXTENDS Indexer

CONSTANTS A, B, a1, a2, b1

MCPaths == {a1, a2, b1}
MCRepoOrder == <<A, B>>
MCRepoOf == [p \in MCPaths |-> IF p = b1 THEN B ELSE A]

Ft(kind, key, owner) == [kind |-> kind, key |-> key, owner |-> owner]

File(module, syms, encloses, calls, imports, feats, chunks) ==
    [module |-> module, syms |-> syms, encloses |-> encloses, calls |-> calls,
     imports |-> imports, feats |-> feats, chunks |-> chunks]

\* "bad" does not parse, "big" is above the size cap: nothing is derived.
MCContents == {"c1", "c2", "bad", "big"}

MCParse ==
    [p \in MCPaths |->
        CASE p = a1 ->
            [c1 |-> File("m.a", {"f"}, {}, {<<"f", "h">>, <<"f", "g">>}, {"g"},
                         {Ft("HttpClientCall", "/u", "f")}, {1}),
             c2 |-> File("m.a", {"f", "K"}, {<<"K", "f">>}, {<<"f", "g">>}, {},
                         {Ft("KafkaProducer", "t", "f")}, {1, 2})]
          [] p = a2 ->
            [c1 |-> File("m.h", {"h"}, {}, {}, {}, {Ft("Route", "/u", "f")}, {1}),
             c2 |-> File("m.h", {"h2"}, {<<"m.h", "h2">>}, {<<"m.h", "g">>}, {"g"},
                         {Ft("HttpClientCall", "/v", "m.h")}, {1})]
          [] p = b1 ->
            [c1 |-> File("m.g", {"g"}, {}, {}, {}, {Ft("Route", "/u", "g"),
                                                   Ft("KafkaConsumer", "t", "g")}, {1}),
             c2 |-> File("m.g", {"g"}, {}, {}, {}, {Ft("Route", "/v", "g")}, {1, 2})]]

\* a2 does not exist.
MCInitDisk == [p \in MCPaths |-> IF p = a2 THEN Absent ELSE "c1"]

\* One indexer, for the workspace or for one repository of it; two for the workspace.
WholeScope == [i \in {"i1"} |-> {MCRepoOrder}]
EitherScope == [i \in {"i1"} |-> {MCRepoOrder, <<A>>}]
BothWhole == [i \in {"i1", "i2"} |-> {<<A>>}]

\* A workspace of one repository with one file, which calls its own route.
OneRepo == <<A>>
OnePath == {a1}
OneRepoOf == [p \in OnePath |-> A]
OneDisk == [p \in OnePath |-> "c1"]
OneParse ==
    [p \in OnePath |->
        [c1 |-> File("m.a", {"f", "g"}, {}, {}, {},
                     {Ft("HttpClientCall", "/u", "f"), Ft("Route", "/u", "g")}, {1}),
         c2 |-> File("m.a", {"f", "h"}, {}, {}, {}, {Ft("Route", "/v", "h")}, {1, 2})]]

\* What the theorems take for granted of a workspace holds of both: of the files
\* that define the same, and of what encloses the symbols of a file.
ASSUME InstanceSeparate == Separate
ASSUME InstanceParents == ParentsLocal
=============================================================================
