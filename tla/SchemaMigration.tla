--------------------------- MODULE SchemaMigration ---------------------------
(***************************************************************************)
(* Several runs of apply_schema (graph/schema.py) on one database, in steps *)
(* that interleave; a run that is interrupted takes no further step.        *)
(*                                                                         *)
(* A run reads the vector index's dimension, drops the index if it has      *)
(* another, creates what is not there of constraints and indexes, and at    *)
(* last the vector index: each a transaction of its own.  The 19 statements *)
(* before the last touch nothing in common and are taken as one.            *)
(***************************************************************************)
EXTENDS Integers, SequencesExt

NoIndex == 0

\* Before any run's first step.
Fresh(dim, runs) ==
    [vector |-> dim, rest |-> FALSE, pc |-> [r \in DOMAIN runs |-> "show"], old |-> [r \in DOMAIN runs |-> NoIndex]]

\* _existing_vector_dim: an older server does not tell.
Show(db, r, run) ==
    [db EXCEPT !.pc[r] = "drop", !.old[r] = IF run.tells THEN db.vector ELSE NoIndex]

\* Mutant of Drop: an index of another dimension is kept.
DropNever(db, r, run) == [db EXCEPT !.pc[r] = "rest"]

\* DROP INDEX chunk_embedding IF EXISTS
Drop(db, r, run) ==
    [db EXCEPT !.pc[r] = "rest",
               !.vector = IF db.old[r] \notin {NoIndex, run.dim} THEN NoIndex ELSE @]

CreateRest(db, r) == [db EXCEPT !.pc[r] = "vector", !.rest = TRUE]

\* _vector_index: CREATE VECTOR INDEX chunk_embedding IF NOT EXISTS
CreateVector(db, r, run) ==
    [db EXCEPT !.pc[r] = "done", !.vector = IF db.vector = NoIndex THEN run.dim ELSE @]

StepOf(db, r, run) ==
    CASE db.pc[r] = "show" -> Show(db, r, run)
      [] db.pc[r] = "drop" -> Drop(db, r, run)
      [] db.pc[r] = "rest" -> CreateRest(db, r)
      [] db.pc[r] = "vector" -> CreateVector(db, r, run)
      [] db.pc[r] = "done" -> db

\* apply_schema by all the runs, in the order of a schedule.
ApplySchema(dim, runs, schedule) ==
    LET step(db, r) == StepOf(db, r, runs[r]) IN FoldLeft(step, Fresh(dim, runs), schedule)

-----------------------------------------------------------------------------
Steps(schedule, r) == {k \in DOMAIN schedule : schedule[k] = r}

\* No other run takes a step between the first and the last one of run r, or
\* after them.
Alone(schedule, r) ==
    \A j \in Steps(schedule, r), k \in DOMAIN schedule : k >= j => schedule[k] = r
=============================================================================
