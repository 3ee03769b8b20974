---------------------------- MODULE EmbedPromise ----------------------------
(***************************************************************************)
(* What embedding a workspace promises: repository after repository, each   *)
(* chunk ends up with the vector of its own text, with the zero vector (its *)
(* input was refused on its own), or without a vector; a sub-batch fails as *)
(* a whole, whatever happens to the other sub-batches and repositories.     *)
(***************************************************************************)
EXTENDS Naturals, Sequences, FiniteSets

CONSTANTS
    Sizes,      \* number of chunks of each repository of the bundle
    SliceSize,  \* chunks per sub-batch
    NoVector,   \* the empty embedding
    ZeroVector  \* the sentinel of a refused input

VARIABLES
    emb,    \* per repository, the embedding of each of its chunks
    next,   \* the repository processed next
    stats   \* chunks embedded, repositories failed entirely

pvars == <<emb, next, stats>>

Vector(r, j) == <<r, j>>

SameSlice(i, j) == (i - 1) \div SliceSize = (j - 1) \div SliceSize

Init ==
    /\ emb = [r \in 1..Len(Sizes) |-> [j \in 1..Sizes[r] |-> NoVector]]
    /\ next = 1
    /\ stats = [embedded |-> 0, failed |-> 0]

\* What may become of the chunks of the repository processed next.
Outcome(e) ==
    /\ DOMAIN e = 1..Sizes[next]
    /\ \A j \in DOMAIN e : e[j] \in {NoVector, ZeroVector, Vector(next, j)}
    /\ \A i, j \in DOMAIN e : SameSlice(i, j) /\ e[i] = NoVector => e[j] = NoVector

EmbedRepo ==
    /\ next <= Len(Sizes)
    /\ next' = next + 1
    /\ Outcome(emb'[next])
    /\ emb' = [emb EXCEPT ![next] = emb'[next]]
    /\ LET have == {j \in 1..Sizes[next] : emb'[next][j] # NoVector}
       IN  stats' = [embedded |-> stats.embedded + Cardinality(have),
                     failed |-> stats.failed
                                    + IF Sizes[next] > 0 /\ have = {} THEN 1 ELSE 0]

\* Every repository is processed in the end.
Spec == Init /\ [][EmbedRepo]_pvars /\ <>(next > Len(Sizes))
=============================================================================
