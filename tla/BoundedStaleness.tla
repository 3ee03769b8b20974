-------------------------- MODULE BoundedStaleness --------------------------
(***************************************************************************)
(* What a cached count promises to its readers: every answer is a snapshot  *)
(* that was the database's state at some moment of the last Bound time      *)
(* units.  Nothing is said of caches, keys or invalidation.                 *)
(***************************************************************************)
EXTENDS Naturals

CONSTANTS
    Workspaces,  \* workspaces sharing the database
    Threads,     \* readers
    Bound        \* largest age of an answer

VARIABLES
    now,     \* the clock
    db,      \* per workspace, the number of writes committed to it
    past,    \* every <<time, db>> that was once the present
    answer   \* per reader, the last snapshot it was given

bvars == <<now, db, past, answer>>

Start == [w \in Workspaces |-> 0]

Init ==
    /\ now = 0
    /\ db = Start
    /\ past = {<<0, Start>>}
    /\ answer = [c \in Threads |-> Start]

Tick ==
    /\ now' = now + 1
    /\ past' = past \cup {<<now + 1, db>>}
    /\ UNCHANGED <<db, answer>>

Write(w) ==
    /\ db' = [db EXCEPT ![w] = @ + 1]
    /\ past' = past \cup {<<now, db'>>}
    /\ UNCHANGED <<now, answer>>

Answer(c) ==
    /\ \E s \in past : s[1] + Bound >= now /\ answer' = [answer EXCEPT ![c] = s[2]]
    /\ UNCHANGED <<now, db, past>>

Next ==
    \/ Tick
    \/ \E w \in Workspaces : Write(w)
    \/ \E c \in Threads : Answer(c)

Spec == Init /\ [][Next]_bvars
=============================================================================
