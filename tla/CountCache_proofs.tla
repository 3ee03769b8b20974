-------------------------- MODULE CountCache_proofs --------------------------
(***************************************************************************)
(* Proofs about CountCache, for any workspaces, callers, writers, keys      *)
(* asked for, TTLs, delays and bounds.                                      *)
(***************************************************************************)
EXTENDS CountCache, TLAPS

(***************************************************************************)
(* Types.                                                                   *)
(***************************************************************************)
\* max(0.0, ttl_s) of a TTL that is ever set is a TTL within the bound.
LEMMA ClampType == \A t \in Ttls : Clamp(t) \in 0..MaxTtl
BY CountCacheAssumption DEF Clamp

\* The local state of a call that begins or has returned is a call.
LEMMA IdleType == \A k \in Keys : Idle(k) \in Calls
BY DEF Idle, Calls, Views, Start

\* The key of the counts of the whole workspace.
LEMMA GlobalKey == <<Global, FALSE>> \in Keys
BY DEF Keys

\* Every variable keeps its type in every step; the TTL never goes negative
\* whatever set_ttl is given.
THEOREM TypeCorrect == Spec => []TypeOK
<1>1. Init => TypeOK
  BY ClampType, IdleType, GlobalKey
  DEF Init, TypeOK, NoEntry, Entries, Views, Start
<1>2. TypeOK /\ [Next]_vars => TypeOK'
  <2> SUFFICES ASSUME TypeOK, [Next]_vars PROVE TypeOK'
    OBVIOUS
  <2>1. ASSUME NEW c \in Threads, NEW k \in Asked, NEW force \in BOOLEAN, Begin(c, k, force)
        PROVE TypeOK'
    <3>1. k \in Keys
      BY CountCacheAssumption
    <3>2. [Idle(k) EXCEPT !.pc = IF ~force /\ ttl > 0 THEN "lookup" ELSE "fetch",
                          !.t0 = now] \in Calls
      BY <3>1 DEF TypeOK, Calls, Idle, Views, Start
    <3> QED
      BY <2>1, <3>2 DEF Begin, TypeOK
  <2>2. ASSUME NEW c \in Threads, Hit(c) PROVE TypeOK'
    <3>1. store[call[c].key].view \in Views
      BY <2>2 DEF TypeOK, Calls, Entries
    <3>2. answer' \in [Threads -> Views]
      BY <2>2, <3>1 DEF Hit, Return, TypeOK
    <3>3. call' \in [Threads -> Calls]
      BY <2>2, IdleType, GlobalKey DEF Hit, Return, TypeOK
    <3> QED
      BY <2>2, <3>2, <3>3 DEF Hit, TypeOK
  <2>3. ASSUME NEW c \in Threads, Miss(c) PROVE TypeOK'
    BY <2>3 DEF Miss, TypeOK, Calls
  <2>4. ASSUME NEW c \in Threads, Fetch(c) PROVE TypeOK'
    <3>1. [call[c] EXCEPT !.pc = "insert", !.view = db, !.at = now] \in Calls
      BY DEF TypeOK, Calls
    <3>2. call' \in [Threads -> Calls]
      BY <2>4, <3>1 DEF Fetch, TypeOK
    <3> QED
      BY <2>4, <3>2 DEF Fetch, TypeOK
  <2>5. ASSUME NEW c \in Threads, FetchFails(c) PROVE TypeOK'
    BY <2>5, IdleType, GlobalKey DEF FetchFails, TypeOK
  <2>6. ASSUME NEW c \in Threads, Insert(c) PROVE TypeOK'
    <3>1. call[c].view \in Views /\ call[c].key \in Keys
      BY DEF TypeOK, Calls
    <3>2. [live |-> TRUE, view |-> call[c].view, at |-> call[c].at,
           exp |-> now + ttl, raced |-> call[c].raced] \in Entries
      BY DEF TypeOK, Calls, Entries
    <3>3. store' \in [Keys -> Entries]
      BY <2>6, <3>1, <3>2 DEF Insert, TypeOK
    <3> QED
      BY <2>6, <3>1, <3>3, IdleType, GlobalKey DEF Insert, Return, TypeOK
  <2>7. ASSUME NEW t \in Ttls, SetTtl(t) PROVE TypeOK'
    BY <2>7, ClampType DEF SetTtl, TypeOK
  <2>8. CASE Clear
    BY <2>8 DEF Clear, TypeOK, NoEntry, Entries, Views, Start
  <2>9. ASSUME NEW w \in Workspaces, Commits(w) PROVE db' \in Views /\ past' \subseteq Nat \X Views
    BY <2>9 DEF Commits, TypeOK, Views
  <2>10. ASSUME NEW x \in Writers, NEW w \in Workspaces, Commit(x, w) PROVE TypeOK'
    BY <2>9, <2>10 DEF Commit, TypeOK
  <2>11. ASSUME NEW x \in Writers, NEW done \in BOOLEAN, Invalidate(x, done) PROVE TypeOK'
    <3>1. writer[x] \in Workspaces
      BY <2>11 DEF Invalidate, TypeOK
    <3>2. store' \in [Keys -> Entries]
      BY <2>11 DEF Invalidate, TypeOK, NoEntry, Entries, Views, Start
    <3>3. call' \in [Threads -> Calls]
      <4>1. ASSUME NEW c \in Threads PROVE [call[c] EXCEPT !.raced = TRUE] \in Calls
        BY DEF TypeOK, Calls
      <4>2. \A c \in Threads : call[c] \in Calls
        BY DEF TypeOK
      <4> QED
        BY <2>11, <4>1, <4>2 DEF Invalidate
    <3>4. inval' \in Views
      BY <2>11, <3>1 DEF Invalidate, TypeOK, Views
    <3> QED
      BY <2>11, <3>2, <3>3, <3>4 DEF Invalidate, TypeOK
  <2>12. ASSUME NEW x \in Writers, WriteFails(x) PROVE TypeOK'
    BY <2>12 DEF WriteFails, TypeOK
  <2>13. ASSUME NEW w \in Workspaces, ExternalCommit(w) PROVE TypeOK'
    BY <2>9, <2>13 DEF ExternalCommit, TypeOK
  <2>14. CASE Tick
    BY <2>14 DEF Tick, TypeOK
  <2>15. CASE UNCHANGED vars
    BY <2>15 DEF vars, TypeOK
  <2> QED
    BY <2>1, <2>2, <2>3, <2>4, <2>5, <2>6, <2>7, <2>8, <2>10, <2>11, <2>12, <2>13, <2>14,
       <2>15 DEF Next
<1> QED
  BY <1>1, <1>2, PTL DEF Spec

(***************************************************************************)
(* Invalidation.                                                            *)
(***************************************************************************)
\* The strengthening that makes Reflected inductive: an invalidation is never
\* ahead of the database, and a fetched count that no invalidation has raced
\* with is as young as the last invalidation of its key.
ReflectedInv ==
    /\ \A w \in Workspaces : inval[w] <= db[w]
    /\ \A c \in Threads : call[c].pc = "insert" /\ ~call[c].raced
          => \A w \in Workspaces : Drops(w, call[c].key) => call[c].view[w] >= inval[w]
    /\ Reflected

\* Every step preserves the strengthening, given the types.
LEMMA ReflectedStep == TypeOK /\ TypeOK' /\ ReflectedInv /\ [Next]_vars => ReflectedInv'
<1> SUFFICES ASSUME TypeOK, TypeOK', ReflectedInv, [Next]_vars PROVE ReflectedInv'
  OBVIOUS
<1>1. ASSUME NEW c \in Threads, NEW k \in Asked, NEW force \in BOOLEAN, Begin(c, k, force)
      PROVE ReflectedInv'
  <2>1. \A d \in Threads : call'[d] = call[d] \/ call'[d].pc # "insert"
    BY <1>1 DEF Begin, TypeOK, Idle
  <2> QED
    BY <1>1, <2>1 DEF Begin, ReflectedInv, Reflected
<1>2. ASSUME NEW c \in Threads, Hit(c) PROVE ReflectedInv'
  <2>1. \A d \in Threads : call'[d] = call[d] \/ call'[d].pc # "insert"
    BY <1>2 DEF Hit, Return, TypeOK, Idle
  <2> QED
    BY <1>2, <2>1 DEF Hit, ReflectedInv, Reflected
<1>3. ASSUME NEW c \in Threads, Miss(c) PROVE ReflectedInv'
  <2>1. \A d \in Threads : call'[d] = call[d] \/ call'[d].pc # "insert"
    BY <1>3 DEF Miss, TypeOK, Calls
  <2> QED
    BY <1>3, <2>1 DEF Miss, ReflectedInv, Reflected
<1>4. ASSUME NEW c \in Threads, Fetch(c) PROVE ReflectedInv'
  <2>1. call'[c].view = db
    BY <1>4 DEF Fetch, TypeOK, Calls
  <2>2. \A d \in Threads \ {c} : call'[d] = call[d]
    BY <1>4 DEF Fetch, TypeOK
  <2>3. \A w \in Workspaces : db[w] >= inval[w]
    BY DEF ReflectedInv, TypeOK, Views
  <2> QED
    BY <1>4, <2>1, <2>2, <2>3 DEF Fetch, ReflectedInv, Reflected
<1>5. ASSUME NEW c \in Threads, FetchFails(c) PROVE ReflectedInv'
  <2>1. \A d \in Threads : call'[d] = call[d] \/ call'[d].pc # "insert"
    BY <1>5 DEF FetchFails, TypeOK, Idle
  <2> QED
    BY <1>5, <2>1 DEF FetchFails, ReflectedInv, Reflected
<1>6. ASSUME NEW c \in Threads, Insert(c) PROVE ReflectedInv'
  <2>1. \A d \in Threads : call'[d] = call[d] \/ call'[d].pc # "insert"
    BY <1>6 DEF Insert, Return, TypeOK, Idle
  <2>2. call[c].key \in Keys
    BY DEF TypeOK, Calls
  <2>3. \A k \in Keys :
           \/ store'[k] = store[k]
           \/ k = call[c].key /\ store'[k].view = call[c].view /\ store'[k].raced = call[c].raced
    BY <1>6, <2>2 DEF Insert, TypeOK
  <2>4. Reflected'
    BY <1>6, <2>3 DEF Insert, ReflectedInv, Reflected, Drops
  <2> QED
    BY <1>6, <2>1, <2>4 DEF Insert, ReflectedInv
<1>7. ASSUME NEW t \in Ttls, SetTtl(t) PROVE ReflectedInv'
  BY <1>7 DEF SetTtl, ReflectedInv, Reflected
<1>8. CASE Clear
  BY <1>8 DEF Clear, ReflectedInv, Reflected, NoEntry
<1>9. ASSUME NEW w \in Workspaces, Commits(w), UNCHANGED <<store, call, inval>>
       PROVE ReflectedInv'
  <2>1. \A v \in Workspaces : db[v] <= db'[v]
    BY <1>9 DEF Commits, TypeOK, Views
  <2>2. \A v \in Workspaces : inval[v] <= db'[v]
    BY <2>1 DEF ReflectedInv, TypeOK, Views
  <2> QED
    BY <1>9, <2>2 DEF ReflectedInv, Reflected
<1>10. ASSUME NEW x \in Writers, NEW done \in BOOLEAN, Invalidate(x, done)
       PROVE ReflectedInv'
  <2> DEFINE w == writer[x]
  <2>1. w \in Workspaces /\ inval' = [inval EXCEPT ![w] = db[w]]
    BY <1>10 DEF Invalidate, TypeOK
  <2>2. \A v \in Workspaces : inval'[v] <= db'[v]
    BY <1>10, <2>1 DEF Invalidate, ReflectedInv, TypeOK, Views
  <2>3. ASSUME NEW c \in Threads, call'[c].pc = "insert", ~call'[c].raced
        PROVE ~Drops(w, call[c].key) /\ call'[c] = call[c]
    BY <1>10, <2>3 DEF Invalidate, TypeOK, Calls
  <2>4. ASSUME NEW k \in Keys, store'[k].live
        PROVE ~Drops(w, k) /\ store'[k] = store[k]
    BY <1>10, <2>4 DEF Invalidate, NoEntry
  <2>5. \A v \in Workspaces : v # w => inval'[v] = inval[v]
    BY <2>1 DEF TypeOK, Views
  <2>6. \A c \in Threads : call'[c].pc = "insert" /\ ~call'[c].raced
           => \A v \in Workspaces : Drops(v, call'[c].key) => call'[c].view[v] >= inval'[v]
    BY <2>3, <2>5 DEF ReflectedInv
  <2>7. Reflected'
    BY <2>4, <2>5 DEF ReflectedInv, Reflected, Drops
  <2> QED
    BY <2>2, <2>6, <2>7 DEF ReflectedInv
<1>11. ASSUME NEW x \in Writers, NEW w \in Workspaces, Commit(x, w) PROVE ReflectedInv'
  BY <1>9, <1>11 DEF Commit
<1>12. ASSUME NEW x \in Writers, WriteFails(x) PROVE ReflectedInv'
  BY <1>12 DEF WriteFails, ReflectedInv, Reflected
<1>13. ASSUME NEW w \in Workspaces, ExternalCommit(w) PROVE ReflectedInv'
  BY <1>9, <1>13 DEF ExternalCommit
<1>14. CASE Tick
  BY <1>14 DEF Tick, ReflectedInv, Reflected
<1>15. CASE UNCHANGED vars
  BY <1>15 DEF vars, ReflectedInv, Reflected
<1> QED
  BY <1>1, <1>2, <1>3, <1>4, <1>5, <1>6, <1>7, <1>8, <1>10, <1>11, <1>12, <1>13, <1>14,
     <1>15 DEF Next

\* No entry outlives the invalidation of its key unless its fetch raced with it.
THEOREM InvalidationReflected == Spec => []Reflected
<1>1. Init => ReflectedInv
  BY GlobalKey DEF Init, ReflectedInv, Reflected, NoEntry, Idle, Start
<1>2. ReflectedInv => Reflected
  BY DEF ReflectedInv
<1> QED
  BY <1>1, <1>2, ReflectedStep, TypeCorrect, PTL DEF Spec

(***************************************************************************)
(* Staleness.                                                               *)
(***************************************************************************)
\* A snapshot that was the present at time t.
WasPresent(t, view) == <<t, view>> \in past

\* What bounds the age of an answer: nobody holds what it has read for longer
\* than MaxHold, and an entry expires at most MaxTtl after its insertion.
AgeInv ==
    /\ WasPresent(now, db)
    /\ \A c \in Threads :
          /\ call[c].pc = "lookup" => now <= call[c].t0 + MaxHold
          /\ call[c].pc = "insert" => /\ now <= call[c].at + MaxHold
                                      /\ WasPresent(call[c].at, call[c].view)
    /\ \A k \in Keys : store[k].live
          => /\ store[k].exp <= store[k].at + MaxHold + MaxTtl
             /\ WasPresent(store[k].at, store[k].view)

\* Every step preserves the ages, given the types.
LEMMA AgeStep == TypeOK /\ TypeOK' /\ AgeInv /\ [Next]_vars => AgeInv'
<1> SUFFICES ASSUME TypeOK, TypeOK', AgeInv, [Next]_vars PROVE AgeInv'
  OBVIOUS
<1>1. ASSUME NEW c \in Threads, NEW k \in Asked, NEW force \in BOOLEAN, Begin(c, k, force)
      PROVE AgeInv'
  <2>1. call'[c].t0 = now /\ call'[c].pc # "insert"
    BY <1>1 DEF Begin, TypeOK, Idle
  <2>2. \A d \in Threads \ {c} : call'[d] = call[d]
    BY <1>1 DEF Begin, TypeOK
  <2>3. now <= now + MaxHold
    BY CountCacheAssumption DEF TypeOK
  <2> QED
    BY <1>1, <2>1, <2>2, <2>3 DEF Begin, AgeInv, WasPresent
<1>2. ASSUME NEW c \in Threads, Hit(c) \/ FetchFails(c) PROVE AgeInv'
  <2>1. call' = [call EXCEPT ![c] = Idle(<<Global, FALSE>>)]
    BY <1>2 DEF Hit, FetchFails, Return
  <2>2. call'[c].pc = "idle" /\ \A d \in Threads \ {c} : call'[d] = call[d]
    BY <2>1 DEF TypeOK, Idle
  <2>3. UNCHANGED <<now, db, past, store>>
    BY <1>2 DEF Hit, FetchFails
  <2> QED
    BY <2>2, <2>3 DEF AgeInv, WasPresent
<1>3. ASSUME NEW c \in Threads, Miss(c) PROVE AgeInv'
  <2>1. call'[c].pc = "fetch"
    BY <1>3 DEF Miss, TypeOK, Calls
  <2>2. \A d \in Threads \ {c} : call'[d] = call[d]
    BY <1>3 DEF Miss, TypeOK
  <2> QED
    BY <1>3, <2>1, <2>2 DEF Miss, AgeInv, WasPresent
<1>4. ASSUME NEW c \in Threads, Fetch(c) PROVE AgeInv'
  <2>1. call'[c].pc = "insert" /\ call'[c].at = now /\ call'[c].view = db
    BY <1>4 DEF Fetch, TypeOK, Calls
  <2>2. \A d \in Threads \ {c} : call'[d] = call[d]
    BY <1>4 DEF Fetch, TypeOK
  <2>3. now <= call'[c].at + MaxHold
    BY <2>1, CountCacheAssumption DEF TypeOK
  <2>4. <<call'[c].at, call'[c].view>> \in past
    BY <2>1 DEF AgeInv, WasPresent
  <2>5. UNCHANGED <<now, db, past, store>>
    BY <1>4 DEF Fetch
  <2> QED
    BY <2>1, <2>2, <2>3, <2>4, <2>5 DEF AgeInv, WasPresent
<1>5. ASSUME NEW c \in Threads, Insert(c) PROVE AgeInv'
  <2>1. call'[c].pc = "idle"
    BY <1>5 DEF Insert, Return, TypeOK, Idle
  <2>2. \A d \in Threads \ {c} : call'[d] = call[d]
    BY <1>5 DEF Insert, Return, TypeOK
  <2>3. call[c].key \in Keys
    BY DEF TypeOK, Calls
  <2>4. \A k \in Keys :
           \/ store'[k] = store[k]
           \/ /\ store'[k].view = call[c].view /\ store'[k].at = call[c].at
              /\ store'[k].exp = now + ttl
    BY <1>5, <2>3 DEF Insert, TypeOK
  <2>5. WasPresent(call[c].at, call[c].view)
    BY <1>5 DEF Insert, AgeInv
  <2>6. now + ttl <= call[c].at + MaxHold + MaxTtl
    <3>1. now <= call[c].at + MaxHold
      BY <1>5 DEF Insert, AgeInv
    <3>2. now \in Nat /\ ttl \in 0..MaxTtl /\ call[c].at \in Nat
      BY DEF TypeOK, Calls
    <3> QED
      BY <3>1, <3>2, CountCacheAssumption
  <2>7. \A k \in Keys : store'[k].live
           => /\ store'[k].exp <= store'[k].at + MaxHold + MaxTtl
              /\ WasPresent(store'[k].at, store'[k].view)
    BY <2>4, <2>5, <2>6 DEF AgeInv
  <2> QED
    BY <1>5, <2>1, <2>2, <2>7 DEF Insert, AgeInv, WasPresent
<1>6. ASSUME NEW t \in Ttls, SetTtl(t) PROVE AgeInv'
  BY <1>6 DEF SetTtl, AgeInv, WasPresent
<1>7. CASE Clear
  BY <1>7 DEF Clear, AgeInv, WasPresent, NoEntry
<1>8. ASSUME NEW w \in Workspaces, Commits(w), UNCHANGED <<now, store, call>> PROVE AgeInv'
  BY <1>8 DEF Commits, AgeInv, WasPresent
<1>9. ASSUME NEW x \in Writers, NEW w \in Workspaces, Commit(x, w) PROVE AgeInv'
  BY <1>8, <1>9 DEF Commit
<1>10. ASSUME NEW x \in Writers, NEW done \in BOOLEAN, Invalidate(x, done) PROVE AgeInv'
  <2>1. \A k \in Keys : store'[k].live => store'[k] = store[k]
    BY <1>10 DEF Invalidate, NoEntry
  <2>2. \A c \in Threads : /\ call'[c].pc = call[c].pc /\ call'[c].t0 = call[c].t0
                           /\ call'[c].at = call[c].at /\ call'[c].view = call[c].view
    BY <1>10 DEF Invalidate, TypeOK, Calls
  <2>3. UNCHANGED <<now, db, past>>
    BY <1>10 DEF Invalidate
  <2> QED
    BY <2>1, <2>2, <2>3 DEF AgeInv, WasPresent
<1>11. ASSUME NEW x \in Writers, WriteFails(x) PROVE AgeInv'
  BY <1>11 DEF WriteFails, AgeInv, WasPresent
<1>12. ASSUME NEW w \in Workspaces, ExternalCommit(w) PROVE AgeInv'
  BY <1>8, <1>12 DEF ExternalCommit
<1>13. CASE Tick
  <2>1. \A c \in Threads :
           /\ call[c].pc = "lookup" => now + 1 <= call[c].t0 + MaxHold
           /\ call[c].pc = "insert" => now + 1 <= call[c].at + MaxHold
    BY <1>13, CountCacheAssumption DEF Tick, TypeOK, Calls
  <2> QED
    BY <1>13, <2>1 DEF Tick, AgeInv, WasPresent
<1>14. CASE UNCHANGED vars
  BY <1>14 DEF vars, AgeInv, WasPresent
<1> QED
  BY <1>1, <1>2, <1>3, <1>4, <1>5, <1>6, <1>7, <1>9, <1>10, <1>11, <1>12, <1>13, <1>14
  DEF Next

\* The ages hold in every reachable state.
LEMMA AgeCorrect == Spec => []AgeInv
<1>1. Init => AgeInv
  BY DEF Init, AgeInv, WasPresent, NoEntry, Idle, Start
<1> QED
  BY <1>1, AgeStep, TypeCorrect, PTL DEF Spec

\* Every step of the cache is a step of the abstract specification: a call that
\* returns answers with a snapshot that is young enough, commits and the clock
\* are the abstract ones, everything else is invisible.
LEMMA RefinementStep == TypeOK /\ AgeInv /\ [Next]_vars => [Abstract!Next]_(Abstract!bvars)
<1> SUFFICES ASSUME TypeOK, AgeInv, [Next]_vars PROVE [Abstract!Next]_(Abstract!bvars)
  OBVIOUS
<1> USE DEF Abstract!bvars
<1>1. ASSUME NEW c \in Threads, NEW k \in Asked, NEW force \in BOOLEAN, Begin(c, k, force)
      PROVE UNCHANGED Abstract!bvars
  BY <1>1 DEF Begin
<1>2. ASSUME NEW c \in Threads, Hit(c) PROVE Abstract!Answer(c)
  <2> DEFINE rec == store[call[c].key]
  <2>1. rec \in Entries /\ call[c].t0 \in Nat /\ call[c].key \in Keys /\ now \in Nat
    BY DEF TypeOK, Calls
  <2>2. rec.at \in Nat /\ rec.exp \in Nat
    BY <2>1 DEF Entries
  <2>3. rec.live /\ rec.exp > call[c].t0 /\ now <= call[c].t0 + MaxHold
    BY <1>2 DEF Hit, Fresh, AgeInv
  <2>4. rec.exp <= rec.at + MaxHold + MaxTtl /\ <<rec.at, rec.view>> \in past
    BY <2>1, <2>3 DEF AgeInv, WasPresent
  <2>5. rec.at + (MaxTtl + 2 * MaxHold) >= now
    BY <2>1, <2>2, <2>3, <2>4, CountCacheAssumption
  <2>6. answer' = [answer EXCEPT ![c] = rec.view] /\ UNCHANGED <<now, db, past>>
    BY <1>2 DEF Hit, Return
  <2> QED
    BY <2>4, <2>5, <2>6 DEF Abstract!Answer
<1>3. ASSUME NEW c \in Threads, Miss(c) \/ Fetch(c) \/ FetchFails(c)
      PROVE UNCHANGED Abstract!bvars
  BY <1>3 DEF Miss, Fetch, FetchFails
<1>4. ASSUME NEW c \in Threads, Insert(c) PROVE Abstract!Answer(c)
  <2>1. call[c].at \in Nat /\ now \in Nat
    BY DEF TypeOK, Calls
  <2>2. now <= call[c].at + MaxHold /\ <<call[c].at, call[c].view>> \in past
    BY <1>4 DEF Insert, AgeInv, WasPresent
  <2>3. call[c].at + (MaxTtl + 2 * MaxHold) >= now
    BY <2>1, <2>2, CountCacheAssumption
  <2>4. answer' = [answer EXCEPT ![c] = call[c].view] /\ UNCHANGED <<now, db, past>>
    BY <1>4 DEF Insert, Return
  <2> QED
    BY <2>2, <2>3, <2>4 DEF Abstract!Answer
<1>5. ASSUME NEW t \in Ttls, SetTtl(t) PROVE UNCHANGED Abstract!bvars
  BY <1>5 DEF SetTtl
<1>6. CASE Clear
  BY <1>6 DEF Clear
<1>7. ASSUME NEW x \in Writers, NEW w \in Workspaces, Commit(x, w) PROVE Abstract!Write(w)
  BY <1>7 DEF Commit, Commits, Abstract!Write
<1>8. ASSUME NEW x \in Writers, NEW done \in BOOLEAN, Invalidate(x, done)
      PROVE UNCHANGED Abstract!bvars
  BY <1>8 DEF Invalidate
<1>9. ASSUME NEW x \in Writers, WriteFails(x) PROVE UNCHANGED Abstract!bvars
  BY <1>9 DEF WriteFails
<1>10. ASSUME NEW w \in Workspaces, ExternalCommit(w) PROVE Abstract!Write(w)
  BY <1>10 DEF ExternalCommit, Commits, Abstract!Write
<1>11. CASE Tick
  <2>1. Abstract!Tick
    BY <1>11 DEF Tick, Abstract!Tick
  <2> QED
    BY <2>1 DEF Abstract!Next
<1>12. CASE UNCHANGED vars
  BY <1>12 DEF vars
<1> QED
  BY <1>1, <1>2, <1>3, <1>4, <1>5, <1>6, <1>7, <1>8, <1>9, <1>10, <1>11, <1>12
  DEF Next, Abstract!Next

\* No answer is older than the largest TTL plus the two delays of a call.
THEOREM AnswersBounded == Spec => BoundedStale
<1>1. Init => Abstract!Init
  BY DEF Init, Abstract!Init, Start, Abstract!Start
<1> QED
  BY <1>1, RefinementStep, TypeCorrect, AgeCorrect, PTL DEF Spec, BoundedStale, Abstract!Spec
=============================================================================
