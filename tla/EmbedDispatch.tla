---------------------------- MODULE EmbedDispatch ----------------------------
(***************************************************************************)
(* Embedding a workspace: indexer._embed_workspace with its thread pool and  *)
(* LiteLLMEmbeddingProvider.embed_batch, which the pool's threads run.       *)
(*                                                                         *)
(* The texts of a repository are its chunks 1..n in order; a range <<s, e>>  *)
(* stands for the texts s..e.  The main thread cuts them into slices, the   *)
(* threads embed slices one provider call at a time, and the main thread    *)
(* lands each slice's vectors as it completes, in whatever order that is.   *)
(* A call whose payload is too large is halved and tried again: the         *)
(* recursion is the list of ranges still to do, left to right.              *)
(***************************************************************************)
EXTENDS Integers, SequencesExt

CONSTANTS
    Sizes,         \* number of chunks of each repository of the bundle
    EmbedWorkers,  \* the workers setting
    SliceArg,      \* the batch_size argument of _embed_workspace
    BatchArg,      \* the batch_size setting of the provider
    NoVector,      \* the empty embedding of a chunk
    ZeroVector     \* the sentinel of a refused input

AtLeast1(n) == IF n < 1 THEN 1 ELSE n

SliceSize == AtLeast1(SliceArg)
BatchSize == AtLeast1(BatchArg)
Threads == 1..AtLeast1(EmbedWorkers)

ASSUME EmbedAssumption ==
    /\ Sizes \in Seq(Nat)
    /\ EmbedWorkers \in Int /\ SliceArg \in Int /\ BatchArg \in Int
    /\ NoVector # ZeroVector /\ NoVector \notin (1..Len(Sizes)) \X Nat

VARIABLES
    emb,      \* the embeddings of the bundle's chunks, per repository
    next,     \* index of the repository being embedded
    stats,    \* total_embedded and total_failed_repos
    pc,       \* "start": between repositories; "dispatch": the pool is at work
    queue,    \* slices submitted and not started, in order
    task,     \* per thread, its slice, the ranges to do, the vectors so far
    arrived,  \* completed futures: <<slice, vectors>>, << >> for an exception
    vectors,  \* what has landed, per chunk
    failures  \* slices that failed

vars == <<emb, next, stats, pc, queue, task, arrived, vectors, failures>>

Vector(r, j) == <<r, j>>

Size(rg) == rg[2] - rg[1] + 1

NoTask == [slice |-> <<1, 0>>, todo |-> << >>, out |-> << >>]

\* A range cut into pieces of at most size, the last one shorter.
Pieces(rg, size) ==
    [k \in 1..((Size(rg) + size - 1) \div size) |->
        LET s == rg[1] + (k - 1) * size
        IN  <<s, IF s + size - 1 < rg[2] THEN s + size - 1 ELSE rg[2]>>]

Slices(r) == Pieces(<<1, Sizes[r]>>, SliceSize)

Init ==
    /\ emb = [r \in 1..Len(Sizes) |-> [j \in 1..Sizes[r] |-> NoVector]]
    /\ next = 1
    /\ stats = [embedded |-> 0, failed |-> 0]
    /\ pc = "start"
    /\ queue = << >>
    /\ task = [w \in Threads |-> NoTask]
    /\ arrived = {}
    /\ vectors = << >>
    /\ failures = 0

(***************************************************************************)
(* The main thread between repositories.                                    *)
(***************************************************************************)
\* A repository without chunks counts as embedded.
SkipEmptyRepo ==
    /\ pc = "start" /\ next <= Len(Sizes) /\ Sizes[next] = 0
    /\ next' = next + 1
    /\ UNCHANGED <<emb, stats, pc, queue, task, arrived, vectors, failures>>

\* Submit every slice.
StartRepo ==
    /\ pc = "start" /\ next <= Len(Sizes) /\ Sizes[next] > 0
    /\ pc' = "dispatch"
    /\ queue' = Slices(next)
    /\ vectors' = [j \in 1..Sizes[next] |-> NoVector]
    /\ failures' = 0
    /\ UNCHANGED <<emb, next, stats, task, arrived>>

\* One worker or one slice: no pool, each result lands before the next call.
Inline == Threads = {1} \/ Len(Slices(next)) = 1

(***************************************************************************)
(* The pool's threads.                                                      *)
(***************************************************************************)
Busy(w) == task[w] # NoTask

\* A free thread takes the oldest slice; embed_batch cuts it into batches.
TakeSlice(w) ==
    /\ queue # << >> /\ ~Busy(w)
    /\ Inline => arrived = {} /\ \A v \in Threads : ~Busy(v)
    /\ task' = [task EXCEPT ![w] = [slice |-> Head(queue),
                                    todo |-> Pieces(Head(queue), BatchSize),
                                    out |-> << >>]]
    /\ queue' = Tail(queue)
    /\ UNCHANGED <<emb, next, stats, pc, arrived, vectors, failures>>

\* The thread's task with todo and out, or its completed future.
Proceed(w, todo, out) ==
    IF todo = << >>
    THEN /\ arrived' = arrived \cup {<<task[w].slice, out>>}
         /\ task' = [task EXCEPT ![w] = NoTask]
    ELSE /\ task' = [task EXCEPT ![w] = [@ EXCEPT !.todo = todo, !.out = out]]
         /\ UNCHANGED arrived

\* The provider answers with one vector per text.
CallSucceeds(w) ==
    LET rg == Head(task[w].todo) IN
    /\ Busy(w)
    /\ Proceed(w, Tail(task[w].todo),
               task[w].out \o [i \in 1..Size(rg) |-> Vector(next, rg[1] + i - 1)])
    /\ UNCHANGED <<emb, next, stats, pc, queue, vectors, failures>>

\* Mutant of Halves: the single input is halved as well.
HalvesAlways(rg) ==
    LET mid == rg[1] + Size(rg) \div 2
    IN  <<<<rg[1], mid - 1>>, <<mid, rg[2]>>>>

\* Mutant of Halves: the right half is tried first.
HalvesRightFirst(rg) ==
    LET mid == rg[1] + Size(rg) \div 2
    IN  IF Size(rg) > 1 THEN <<<<mid, rg[2]>>, <<rg[1], mid - 1>>>> ELSE << >>

\* What is tried instead of a refused range: its halves, nothing for one input.
Halves(rg) ==
    LET mid == rg[1] + Size(rg) \div 2
    IN  IF Size(rg) > 1 THEN <<<<rg[1], mid - 1>>, <<mid, rg[2]>>>> ELSE << >>

\* The provider refuses the payload for its size.
CallTooLarge(w) ==
    LET rg == Head(task[w].todo) IN
    /\ Busy(w)
    /\ Proceed(w, Halves(rg) \o Tail(task[w].todo),
               IF Halves(rg) = << >> THEN Append(task[w].out, ZeroVector) ELSE task[w].out)
    /\ UNCHANGED <<emb, next, stats, pc, queue, vectors, failures>>

\* Any other error, a wrong number of vectors or a wrong dimension: embed_batch
\* raises and what it had embedded of the slice is lost.
CallRaises(w) ==
    /\ Busy(w)
    /\ Proceed(w, << >>, << >>)
    /\ UNCHANGED <<emb, next, stats, pc, queue, vectors, failures>>

(***************************************************************************)
(* The main thread lands results and applies them.                          *)
(***************************************************************************)
Fits(slice, vecs) == Len(vecs) = Size(slice)

\* Mutant of Landed: results are taken to arrive in order.
LandedInOrder(slice, vecs) ==
    LET have == Cardinality({j \in DOMAIN vectors : vectors[j] # NoVector})
    IN  [j \in DOMAIN vectors |->
            IF j \in (have + 1)..(have + Size(slice)) THEN vecs[j - have] ELSE vectors[j]]

Landed(slice, vecs) ==
    [j \in DOMAIN vectors |->
        IF j \in slice[1]..slice[2] THEN vecs[j - slice[1] + 1] ELSE vectors[j]]

Land(slice, vecs) ==
    /\ <<slice, vecs>> \in arrived
    /\ arrived' = arrived \ {<<slice, vecs>>}
    /\ IF Fits(slice, vecs)
       THEN vectors' = Landed(slice, vecs) /\ UNCHANGED failures
       ELSE failures' = failures + 1 /\ UNCHANGED vectors
    /\ UNCHANGED <<emb, next, stats, pc, queue, task>>

AllLanded == queue = << >> /\ arrived = {} /\ \A w \in Threads : ~Busy(w)

\* The repository failed if every slice did, else its vectors are applied.
FinishRepo ==
    LET have == {j \in DOMAIN vectors : vectors[j] # NoVector} IN
    /\ pc = "dispatch" /\ AllLanded
    /\ IF failures = Len(Slices(next))
       THEN /\ stats' = [stats EXCEPT !.failed = @ + 1]
            /\ UNCHANGED emb
       ELSE /\ stats' = [stats EXCEPT !.embedded = @ + Cardinality(have)]
            /\ emb' = [emb EXCEPT ![next] = [j \in DOMAIN @ |->
                                IF j \in have THEN vectors[j] ELSE @[j]]]
    /\ next' = next + 1
    /\ pc' = "start"
    /\ vectors' = << >> /\ failures' = 0
    /\ UNCHANGED <<queue, task, arrived>>

Next ==
    \/ SkipEmptyRepo
    \/ StartRepo
    \/ \E w \in Threads :
          \/ TakeSlice(w)
          \/ CallSucceeds(w)
          \/ CallTooLarge(w)
          \/ CallRaises(w)
    \/ \E f \in arrived : Land(f[1], f[2])
    \/ FinishRepo

\* Threads run, provider calls time out (timeout_s), the main thread waits in
\* as_completed and is woken: something of an unfinished workspace happens.
Spec == Init /\ [][Next]_vars /\ WF_vars(Next)

-----------------------------------------------------------------------------
(***************************************************************************)
(* Properties.                                                              *)
(***************************************************************************)
RangesOf(todo) == {todo[k] : k \in DOMAIN todo}

\* Every variable has its type; a thread never has an empty range to embed.
TypeOK ==
    /\ next \in 1..(Len(Sizes) + 1)
    /\ DOMAIN emb = 1..Len(Sizes)
    /\ stats \in [embedded : Nat, failed : Nat]
    /\ pc \in {"start", "dispatch"}
    /\ \A k \in DOMAIN queue : Size(queue[k]) \in 1..SliceSize
    /\ \A w \in Threads : Busy(w) =>
          /\ task[w].todo # << >>
          /\ \A rg \in RangesOf(task[w].todo) :
                task[w].slice[1] <= rg[1] /\ rg[1] <= rg[2] /\ rg[2] <= task[w].slice[2]
    /\ failures \in Nat

\* The texts of a set of ranges.
Texts(ranges) == UNION {rg[1]..rg[2] : rg \in ranges}

\* However slices are taken, halved and completed: at any time each thread's
\* vectors followed by its ranges are its slice in order, so that a result of
\* the right length is a result for the right texts.
SliceInOrder ==
    \A w \in Threads : Busy(w) =>
        LET t == task[w]
            done == Len(t.out)
        IN  /\ \A i \in 1..done : t.out[i] \in {ZeroVector, Vector(next, t.slice[1] + i - 1)}
            /\ Texts(RangesOf(t.todo)) = (t.slice[1] + done)..t.slice[2]
            /\ \A k \in 1..(Len(t.todo) - 1) : t.todo[k][2] + 1 = t.todo[k + 1][1]

\* The pool implements the promise, liveness included: every repository is
\* processed although any call of any thread may be refused or fail.
Promise == INSTANCE EmbedPromise

KeepsPromise == Promise!Spec
=============================================================================
