---------------------------- MODULE HybridSearch ----------------------------
(***************************************************************************)
(* search/hybrid.py: reciprocal rank fusion of the symbols and chunks that  *)
(* lexical.py and neo4j_vector.py retrieve from the fulltext and the vector *)
(* index, which rank the hits of all workspaces.                            *)
(*                                                                         *)
(* A symbol is a record of workspace, repository and FQN, a chunk one of    *)
(* workspace and id.  Ranks are weighted with integers in the proportion of *)
(* 1 / (k + r).                                                             *)
(***************************************************************************)
EXTENDS Integers, SequencesExt, TLC

CONSTANTS
    RrfK,       \* RRF_K (60 in the code)
    OverFetch,  \* chunks asked for per chunk wanted (4 in the code)
    Longest     \* bound: hits of a retriever (30 in the code)

ASSUME HybridAssumption == RrfK \in Nat /\ OverFetch \in Nat \ {0} /\ Longest \in Nat \ {0}

(***************************************************************************)
(* The retrievers.                                                          *)
(***************************************************************************)
Firsts(hits, n) == SubSeq(hits, 1, IF n < Len(hits) THEN n ELSE Len(hits))

Within(hits, workspace) == SelectSeq(hits, LAMBDA h : h.workspace = workspace)

\* lexical_search filters before it limits.
LexicalSearch(ranked, workspace, limit) == Firsts(Within(ranked, workspace), limit)

\* Mutant of Fetched: no more chunks are asked for than are wanted.
FetchedExactly(limit) == limit

Fetched(limit) == limit * OverFetch

\* Neo4jVectorBackend.query: the index limits, then the workspace is filtered.
VectorQuery(ranked, workspace, limit) ==
    Firsts(Within(Firsts(ranked, Fetched(limit)), workspace), limit)

\* Divisible by k + r for every rank r.
Scale == FoldLeft(LAMBDA x, y : x * y, 1, [r \in 1..Longest |-> RrfK + r])

\* Mutant of Weight: chunks are ranked from 0.
WeightFromZero(rank, source) ==
    Scale \div (RrfK + IF source = "vector" THEN rank - 1 ELSE rank)

\* 1 / (k + rank)
Weight(rank, source) == Scale \div (RrfK + rank)

\* rrf.setdefault and the two additions: an entry keeps the first hit's data.
Accumulate(entries, key, hit, weight, source) ==
    LET at == SelectInSeq(entries, LAMBDA e : e.key = key)
    IN  IF at = 0 THEN Append(entries, [key |-> key, data |-> hit, rrf |-> weight, sources |-> {source}])
        ELSE [entries EXCEPT ![at].rrf = @ + weight, ![at].sources = @ \cup {source}]

\* The entries of both retrievers: symbols by FQN, chunks by id.
Entries(lex, vec) ==
    LET symbol(entries, k) == Accumulate(entries, <<"sym", lex[k].fqn>>, lex[k], Weight(k, "lexical"), "lexical")
        chunk(entries, k) == Accumulate(entries, <<"chk", vec[k]>>, vec[k], Weight(k, "vector"), "vector")
        ranks(hits) == [k \in DOMAIN hits |-> k]
    IN  FoldLeft(chunk, FoldLeft(symbol, << >>, ranks(lex)), ranks(vec))

\* Mutant of Ahead: the lowest score comes first.
AheadAscending(a, b, j, k) == a.rrf < b.rrf \/ (a.rrf = b.rrf /\ j < k)

\* sorted(reverse=True) keeps the order of equal scores.
Ahead(a, b, j, k) == a.rrf > b.rrf \/ (a.rrf = b.rrf /\ j < k)

\* The fusion of hybrid_search.
Fuse(lex, vec, limit) ==
    LET entries == Entries(lex, vec)
        order == SortSeq([k \in DOMAIN entries |-> k],
                         LAMBDA j, k : Ahead(entries[j], entries[k], j, k))
    IN  Firsts([k \in DOMAIN entries |-> entries[order[k]]], limit)

\* hybrid_search, as semantic_code_search calls it.
Search(index, workspace, lexical_k, vector_k, limit) ==
    Fuse(LexicalSearch(index.symbols, workspace, lexical_k),
         VectorQuery(index.chunks, workspace, vector_k), limit)

-----------------------------------------------------------------------------
\* When no two symbols share an FQN the two lists have no key in common, and
\* fusing them is dealing them out in turn, symbols first.
Interleaved(lex, vec, limit) ==
    LET deal == FlattenSeq([r \in 1..Longest |->
                    SubSeq(lex, r, IF r <= Len(lex) THEN r ELSE 0)
                    \o SubSeq(vec, r, IF r <= Len(vec) THEN r ELSE 0)])
    IN  Firsts(deal, limit)

\* What a document scores: one retriever returns symbols, the other chunks, so
\* that each has one rank in one list.
Score(doc, lex, vec) ==
    LET list == IF doc \in ToSet(lex) THEN lex ELSE vec
    IN  Scale \div (RrfK + SelectInSeq(list, LAMBDA d : d = doc))

\* The documents that share their key with no other.
Distinct(lex, vec) ==
    {h \in ToSet(lex) : \A g \in ToSet(lex) : g.fqn = h.fqn => g = h} \cup ToSet(vec)
=============================================================================
