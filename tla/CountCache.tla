----------------------------- MODULE CountCache -----------------------------
(***************************************************************************)
(* The TTL cache of label and relationship counts (graph/count_cache.py)    *)
(* between the tools that read it (get_graph_schema, workspace_manage) and  *)
(* the writers that invalidate it (graph/writer.py).                        *)
(*                                                                         *)
(* The database is the number of writes committed per workspace, a count is *)
(* the snapshot of it the fetch saw.  A call of get_or_compute holds the    *)
(* lock for the lookup and for the insertion only: the clock is read before *)
(* the first, the fetch runs between the two.                               *)
(***************************************************************************)
EXTENDS Integers

CONSTANTS
    Workspaces,  \* workspaces sharing the database
    Global,      \* the workspace_id None of an unscoped query
    Threads,     \* concurrent callers of get_or_compute
    Writers,     \* concurrent GraphWriter calls of this process
    Asked,       \* the keys the callers ask for
    Ttls,        \* arguments of set_ttl; the constructor's is among them
    MaxTtl,      \* the largest TTL ever set
    MaxHold,     \* largest delay between reading the clock or the database
                 \* and the use of what was read
    MaxTime,     \* bound: the clock
    MaxWrites    \* bound: writes per workspace

\* _make_key without kind and name, which never interact: a scoped count is
\* of one workspace, the others (a label without workspace_id, or no workspace
\* asked for) range over all of them.
Keys == (Workspaces \X BOOLEAN) \cup {<<Global, FALSE>>}

ScopeOf(k) == IF k[2] THEN {k[1]} ELSE Workspaces

\* max(0.0, ttl_s)
Clamp(t) == IF t < 0 THEN 0 ELSE t

ASSUME CountCacheAssumption ==
    /\ Global \notin Workspaces
    /\ Asked \subseteq Keys
    /\ Ttls \subseteq Int /\ Ttls # {}
    /\ MaxTtl \in Nat /\ \A t \in Ttls : t <= MaxTtl
    /\ MaxHold \in Nat /\ MaxTime \in Nat /\ MaxWrites \in Nat

VARIABLES
    now,     \* time.monotonic()
    db,      \* per workspace, the writes committed to it
    past,    \* history: every <<time, db>> that was once the present
    answer,  \* per caller, the snapshot it was last given
    ttl,     \* self._ttl
    store,   \* self._store
    call,    \* per caller, the local state of its get_or_compute
    writer,  \* per writer, the workspace it is writing, or Global
    inval    \* history: per workspace, db at its last invalidation

vars == <<now, db, past, answer, ttl, store, call, writer, inval>>

Views == [Workspaces -> Nat]
Start == [w \in Workspaces |-> 0]

\* at: when the fetch read the database.  raced: whether the key has been
\* invalidated between that and the insertion.
NoEntry == [live |-> FALSE, view |-> Start, at |-> 0, exp |-> 0, raced |-> FALSE]

Idle(k) == [pc |-> "idle", key |-> k, t0 |-> 0, view |-> Start, at |-> 0, raced |-> FALSE]

Init ==
    /\ now = 0
    /\ db = Start
    /\ past = {<<0, Start>>}
    /\ answer = [c \in Threads |-> Start]
    /\ \E t \in Ttls : ttl = Clamp(t)
    /\ store = [k \in Keys |-> NoEntry]
    /\ call = [c \in Threads |-> Idle(<<Global, FALSE>>)]
    /\ writer = [x \in Writers |-> Global]
    /\ inval = Start

(***************************************************************************)
(* get_or_compute.                                                          *)
(***************************************************************************)
\* Read the clock; force_refresh or a TTL of 0 skips the lookup.
Begin(c, k, force) ==
    /\ call[c].pc = "idle"
    /\ call' = [call EXCEPT ![c] = [Idle(k) EXCEPT
                    !.pc = IF ~force /\ ttl > 0 THEN "lookup" ELSE "fetch",
                    !.t0 = now]]
    /\ UNCHANGED <<now, db, past, answer, ttl, store, writer, inval>>

Return(c, view) ==
    /\ answer' = [answer EXCEPT ![c] = view]
    /\ call' = [call EXCEPT ![c] = Idle(<<Global, FALSE>>)]

\* Mutant of Fresh: the expiry time is not looked at.
FreshForever(rec, t0) == rec.live

Fresh(rec, t0) == rec.live /\ rec.exp > t0

Hit(c) ==
    /\ call[c].pc = "lookup"
    /\ Fresh(store[call[c].key], call[c].t0)
    /\ Return(c, store[call[c].key].view)
    /\ UNCHANGED <<now, db, past, ttl, store, writer, inval>>

Miss(c) ==
    /\ call[c].pc = "lookup"
    /\ ~Fresh(store[call[c].key], call[c].t0)
    /\ call' = [call EXCEPT ![c].pc = "fetch"]
    /\ UNCHANGED <<now, db, past, answer, ttl, store, writer, inval>>

\* The count query reads the database.
Fetch(c) ==
    /\ call[c].pc = "fetch"
    /\ call' = [call EXCEPT ![c].pc = "insert", ![c].view = db, ![c].at = now]
    /\ UNCHANGED <<now, db, past, answer, ttl, store, writer, inval>>

\* The count query raises: nothing is cached, nothing is answered.
FetchFails(c) ==
    /\ call[c].pc = "fetch"
    /\ call' = [call EXCEPT ![c] = Idle(<<Global, FALSE>>)]
    /\ UNCHANGED <<now, db, past, answer, ttl, store, writer, inval>>

\* The insertion overwrites whatever is there, a younger entry as well.
Insert(c) ==
    LET x == call[c] IN
    /\ x.pc = "insert"
    /\ store' = IF ttl > 0
                THEN [store EXCEPT ![x.key] = [live |-> TRUE, view |-> x.view, at |-> x.at,
                                               exp |-> now + ttl, raced |-> x.raced]]
                ELSE store
    /\ Return(c, x.view)
    /\ UNCHANGED <<now, db, past, ttl, writer, inval>>

\* Mutant of SetTtl: the argument is not clamped.
SetTtlRaw(t) ==
    /\ ttl' = t
    /\ UNCHANGED <<now, db, past, answer, store, call, writer, inval>>

\* Entries keep the expiry they were stored with.
SetTtl(t) ==
    /\ ttl' = Clamp(t)
    /\ UNCHANGED <<now, db, past, answer, store, call, writer, inval>>

Clear ==
    /\ store' = [k \in Keys |-> NoEntry]
    /\ UNCHANGED <<now, db, past, answer, ttl, call, writer, inval>>

(***************************************************************************)
(* Writers.  write_workspace_bundle commits statement after statement and   *)
(* invalidates at the end, the delta also in the middle (delete_files).     *)
(***************************************************************************)
Commits(w) ==
    /\ db[w] < MaxWrites
    /\ db' = [db EXCEPT ![w] = @ + 1]
    /\ past' = past \cup {<<now, db'>>}

Commit(x, w) ==
    /\ writer[x] \in {Global, w}
    /\ Commits(w)
    /\ writer' = [writer EXCEPT ![x] = w]
    /\ UNCHANGED <<now, answer, ttl, store, call, inval>>

\* Mutant of Drops: the entries keyed by None are kept.
DropsOwnOnly(w, k) == k[1] = w

\* invalidate(w) pops key k.
Drops(w, k) == k[1] \in {w, Global}

Invalidate(x, done) ==
    LET w == writer[x] IN
    /\ w # Global
    /\ store' = [k \in Keys |-> IF Drops(w, k) THEN NoEntry ELSE store[k]]
    /\ inval' = [inval EXCEPT ![w] = db[w]]
    /\ call' = [c \in Threads |->
                   IF call[c].pc = "insert" /\ Drops(w, call[c].key)
                   THEN [call[c] EXCEPT !.raced = TRUE] ELSE call[c]]
    /\ writer' = IF done THEN [writer EXCEPT ![x] = Global] ELSE writer
    /\ UNCHANGED <<now, db, past, answer, ttl>>

\* The write raises or is killed after some of its commits: no invalidation.
WriteFails(x) ==
    /\ writer[x] # Global
    /\ writer' = [writer EXCEPT ![x] = Global]
    /\ UNCHANGED <<now, db, past, answer, ttl, store, call, inval>>

\* An indexer in another process writes.
ExternalCommit(w) ==
    /\ Commits(w)
    /\ UNCHANGED <<now, answer, ttl, store, call, writer, inval>>

\* Time passes; nobody holds what it has read for longer than MaxHold.
Tick ==
    /\ now < MaxTime
    /\ \A c \in Threads :
          /\ call[c].pc = "lookup" => now < call[c].t0 + MaxHold
          /\ call[c].pc = "insert" => now < call[c].at + MaxHold
    /\ now' = now + 1
    /\ past' = past \cup {<<now + 1, db>>}
    /\ UNCHANGED <<db, answer, ttl, store, call, writer, inval>>

Next ==
    \/ \E c \in Threads :
          \/ \E k \in Asked, force \in BOOLEAN : Begin(c, k, force)
          \/ Hit(c)
          \/ Miss(c)
          \/ Fetch(c)
          \/ FetchFails(c)
          \/ Insert(c)
    \/ \E t \in Ttls : SetTtl(t)
    \/ Clear
    \/ \E x \in Writers, w \in Workspaces : Commit(x, w)
    \/ \E x \in Writers, done \in BOOLEAN : Invalidate(x, done)
    \/ \E x \in Writers : WriteFails(x)
    \/ \E w \in Workspaces : ExternalCommit(w)
    \/ Tick

Spec == Init /\ [][Next]_vars

-----------------------------------------------------------------------------
(***************************************************************************)
(* Properties.                                                              *)
(***************************************************************************)
Entries == [live : BOOLEAN, view : Views, at : Nat, exp : Nat, raced : BOOLEAN]

Calls == [pc : {"idle", "lookup", "fetch", "insert"}, key : Keys, t0 : Nat,
          view : Views, at : Nat, raced : BOOLEAN]

\* Every variable has its type; the TTL is never negative.
TypeOK ==
    /\ now \in Nat
    /\ db \in Views
    /\ past \subseteq Nat \X Views
    /\ answer \in [Threads -> Views]
    /\ ttl \in 0..MaxTtl
    /\ store \in [Keys -> Entries]
    /\ call \in [Threads -> Calls]
    /\ writer \in [Writers -> Workspaces \cup {Global}]
    /\ inval \in Views

\* After a writer's invalidation no entry keyed by its workspace or by None is
\* older than the write, whatever reads and writes were interleaved with it,
\* except one that a call fetched before the invalidation and inserted after.
Reflected ==
    \A k \in Keys, w \in Workspaces :
        store[k].live /\ ~store[k].raced /\ k[1] \in {w, Global}
            => store[k].view[w] >= inval[w]

\* No caller is given a count older than the largest TTL plus the two delays
\* of a call, also when writes fail, happen in another process, or race with
\* the insertion, and whatever the TTL is changed to.
Abstract == INSTANCE BoundedStaleness WITH Bound <- MaxTtl + 2 * MaxHold

BoundedStale == Abstract!Spec

\* count_cache.py:178 "Also drops entries whose scope is global [...] because a
\* write may have added or removed nodes that affect the global counts": no
\* entry with a global count is older than a write that has been invalidated.
GlobalReflected ==
    \A k \in Keys, w \in Workspaces :
        store[k].live /\ ~store[k].raced /\ w \in ScopeOf(k) => store[k].view[w] >= inval[w]
=============================================================================
