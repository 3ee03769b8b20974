---------------------------- MODULE ToolPool_proofs ----------------------------
(***************************************************************************)
(* For any number of calls and workers: type correctness of ToolPool, that  *)
(* no call is lost or run twice, and that what a caller sees is what         *)
(* ToolPromise allows.                                                      *)
(***************************************************************************)
EXTENDS ToolPool, FiniteSetTheorems, TLAPS

\* A worker runs a call exactly if the call's future is running, and it alone.
Working ==
    /\ \A w \in Workers : worker[w] # Nobody => future[worker[w]] = "running"
    /\ \A c \in Calls : future[c] = "running" => \E w \in Workers : worker[w] = c
    /\ \A v, w \in Workers : worker[v] = worker[w] /\ worker[v] # Nobody => v = w

\* The queue holds what is pending, some of what was cancelled, nothing twice.
Queued ==
    /\ \A k \in DOMAIN queue : future[queue[k]] \in {"pending", "cancelled"}
    /\ \A c \in Calls : future[c] = "pending" => \E k \in DOMAIN queue : queue[k] = c
    /\ \A j, k \in DOMAIN queue : queue[j] = queue[k] => j = k

\* How far a timed call's caller, future and body are goes together.
TimedStage ==
    \A c \in Timed :
        /\ caller[c] \notin {"entered", "inline"}
        /\ caller[c] = "idle" <=> future[c] = "none"
        /\ future[c] = "pending" => caller[c] \in {"waiting", "expired"}
        /\ future[c] = "finished" <=> end[c] # "no"

\* A call without a timeout has no future, and its body runs on its caller's
\* thread.
InlineStage ==
    \A c \in Calls \ Timed :
        /\ future[c] = "none"
        /\ caller[c] \in {"idle", "entered"} => end[c] = "no"
        /\ caller[c] \notin {"waiting", "expired"}

PoolInv == TypeOK /\ Working /\ Queued /\ TimedStage /\ InlineStage

-----------------------------------------------------------------------------
\* Taking the oldest item shifts the others.
LEMMA TailIs ==
    ASSUME NEW S, NEW q \in Seq(S), q # << >>
    PROVE  /\ Head(q) = q[1] /\ q[1] \in S /\ 1 \in DOMAIN q /\ DOMAIN q = 1..Len(q) /\ Len(q) \in Nat
           /\ Tail(q) \in Seq(S)
           /\ Len(Tail(q)) = Len(q) - 1
           /\ DOMAIN Tail(q) = 1..(Len(q) - 1)
           /\ \A k \in 1..(Len(q) - 1) : Tail(q)[k] = q[k + 1]
OBVIOUS

\* A new item is the last one.
LEMMA AppendIs ==
    ASSUME NEW S, NEW q \in Seq(S), NEW x \in S
    PROVE  /\ Append(q, x) \in Seq(S)
           /\ DOMAIN q = 1..Len(q) /\ Len(q) \in Nat
           /\ DOMAIN Append(q, x) = 1..(Len(q) + 1)
           /\ Append(q, x)[Len(q) + 1] = x
           /\ \A k \in 1..Len(q) : Append(q, x)[k] = q[k]
OBVIOUS

\* The first state.
LEMMA InitInv == Init => PoolInv
<1> SUFFICES ASSUME Init PROVE PoolInv
    OBVIOUS
<1> USE ToolPoolAssumption DEF Init
<1>1. TypeOK
    BY DEF TypeOK
<1>2. Working /\ Queued
    BY DEF Working, Queued
<1>3. TimedStage /\ InlineStage
    BY DEF TimedStage, InlineStage
<1> QED
    BY <1>1, <1>2, <1>3 DEF PoolInv

\* Steps of callers and of bodies run inline leave the pool alone: future,
\* queue and worker.
LEMMA OutsidePool ==
    ASSUME TypeOK, Working, Queued, UNCHANGED <<future, queue, worker>>
    PROVE  Working' /\ Queued'
BY DEF Working, Queued

\* A call is submitted.
LEMMA SubmitInv == ASSUME PoolInv, NEW c \in Calls, Submit(c) PROVE PoolInv'
<1> USE ToolPoolAssumption DEF PoolInv
<1>1. /\ c \in Timed /\ caller[c] = "idle" /\ future[c] = "none"
      /\ caller' = [caller EXCEPT ![c] = "waiting"]
      /\ future' = [future EXCEPT ![c] = "pending"]
      /\ queue' = Append(queue, c)
      /\ UNCHANGED <<end, worker>>
    BY DEF Submit, TimedStage
<1>2. TypeOK'
    BY <1>1, AppendIs DEF TypeOK, Answers
<1>3. Working'
    BY <1>1 DEF Working, TypeOK
<1>4. Queued'
  <2>1. /\ queue \in Seq(Calls) /\ DOMAIN queue = 1..Len(queue) /\ Len(queue) \in Nat
        /\ DOMAIN queue' = 1..(Len(queue) + 1)
        /\ queue'[Len(queue) + 1] = c
        /\ \A k \in 1..Len(queue) : queue'[k] = queue[k] /\ queue[k] \in Calls /\ queue[k] # c
      BY <1>1, AppendIs DEF TypeOK, Queued
  <2>2. \A k \in DOMAIN queue' : future'[queue'[k]] \in {"pending", "cancelled"}
      BY <1>1, <2>1 DEF Queued, TypeOK
  <2>3. \A d \in Calls : future'[d] = "pending" => \E k \in DOMAIN queue' : queue'[k] = d
    <3> TAKE d \in Calls
    <3>1. CASE d = c
        BY <2>1, <3>1
    <3>2. CASE d # c
        BY <1>1, <2>1, <3>2 DEF Queued, TypeOK
    <3> QED
        BY <3>1, <3>2
  <2>4. \A j, k \in DOMAIN queue' : queue'[j] = queue'[k] => j = k
      BY <2>1 DEF Queued
  <2> QED
      BY <2>2, <2>3, <2>4 DEF Queued
<1>5. TimedStage' /\ InlineStage'
    BY <1>1 DEF TimedStage, InlineStage, TypeOK
<1> QED
    BY <1>2, <1>3, <1>4, <1>5

\* What only moves one call's caller, or ends an inline body.
LEMMA CallerInv ==
    ASSUME PoolInv, NEW c \in Calls, NEW how \in Answers,
           CallInline(c) \/ InlineEnds(c, how) \/ Deliver(c) \/ Expire(c)
    PROVE  PoolInv'
<1> USE ToolPoolAssumption DEF PoolInv
<1>1. UNCHANGED <<future, queue, worker>>
    BY DEF CallInline, InlineEnds, Deliver, Expire
<1>2. Working' /\ Queued'
    BY <1>1, OutsidePool
<1>3. CASE CallInline(c)
    BY <1>2, <1>3 DEF CallInline, TypeOK, Answers, TimedStage, InlineStage
<1>4. CASE InlineEnds(c, how)
    BY <1>2, <1>4 DEF InlineEnds, TypeOK, Answers, TimedStage, InlineStage
<1>5. CASE Deliver(c)
    BY <1>2, <1>5 DEF Deliver, Ready, TypeOK, Answers, TimedStage, InlineStage
<1>6. CASE Expire(c)
    BY <1>2, <1>6 DEF Expire, TypeOK, Answers, TimedStage, InlineStage
<1> QED
    BY <1>3, <1>4, <1>5, <1>6

\* A caller gives up.
LEMMA GiveUpInv == ASSUME PoolInv, NEW c \in Calls, GiveUp(c) PROVE PoolInv'
<1> USE ToolPoolAssumption DEF PoolInv
<1>1. /\ caller[c] = "expired" /\ c \in Timed
      /\ future' = [future EXCEPT ![c] = Cancelled(future[c])]
      /\ caller' = [caller EXCEPT ![c] = "timeout"]
      /\ UNCHANGED <<end, queue, worker>>
    BY DEF GiveUp, InlineStage
<1>2. TypeOK'
    BY <1>1 DEF TypeOK, Answers, Cancelled
<1>3. Working'
    BY <1>1 DEF Working, TypeOK, Cancelled
<1>4. Queued'
    BY <1>1 DEF Queued, TypeOK, Cancelled
<1>5. TimedStage' /\ InlineStage'
    BY <1>1 DEF TimedStage, InlineStage, TypeOK, Cancelled
<1> QED
    BY <1>2, <1>3, <1>4, <1>5

\* A worker takes a call.
LEMMA TakeInv == ASSUME PoolInv, NEW w \in Workers, Take(w) PROVE PoolInv'
<1> USE ToolPoolAssumption DEF PoolInv
<1> DEFINE c == queue[1]
<1>1. /\ worker[w] = Nobody /\ queue # << >> /\ queue \in Seq(Calls)
      /\ queue' = Tail(queue) /\ UNCHANGED <<caller, end>>
    BY DEF Take, TypeOK
<1>2. /\ Head(queue) = c /\ c \in Calls /\ 1 \in DOMAIN queue /\ Len(queue) \in Nat
      /\ DOMAIN queue = 1..Len(queue) /\ DOMAIN queue' = 1..(Len(queue) - 1)
      /\ queue' \in Seq(Calls)
      /\ \A k \in 1..(Len(queue) - 1) : queue'[k] = queue[k + 1]
    BY <1>1, TailIs
<1>3. /\ c # Nobody /\ future[c] \in {"pending", "cancelled"}
      /\ \A k \in DOMAIN queue' : queue'[k] # c /\ queue'[k] \in Calls
  <2>1. c # Nobody
      BY <1>2
  <2>2. future[c] \in {"pending", "cancelled"}
      BY <1>2 DEF Queued
  <2>3. \A k \in DOMAIN queue' : queue'[k] \in Calls
      BY <1>2
  <2>4. \A k \in DOMAIN queue' : queue'[k] # c
    <3> TAKE k \in DOMAIN queue'
    <3>1. k \in 1..(Len(queue) - 1) /\ queue'[k] = queue[k + 1]
        BY <1>2
    <3>2. k + 1 \in DOMAIN queue /\ k + 1 # 1
        BY <1>2, <3>1
    <3> QED
        BY <1>2, <3>1, <3>2 DEF Queued
  <2> QED
      BY <2>1, <2>2, <2>3, <2>4
<1>4. \A j, k \in DOMAIN queue' : queue'[j] = queue'[k] => j = k
    BY <1>2, SMTT(30) DEF Queued
<1>5. \A k \in DOMAIN queue' : future[queue'[k]] \in {"pending", "cancelled"}
    BY <1>2 DEF Queued
<1>6. \A d \in Calls \ {c} : future[d] = "pending" => \E k \in DOMAIN queue' : queue'[k] = d
  <2> TAKE d \in Calls \ {c}
  <2> HAVE future[d] = "pending"
  <2>1. PICK k \in DOMAIN queue : queue[k] = d
      BY DEF Queued
  <2>2. k # 1 /\ k \in Nat /\ k - 1 \in DOMAIN queue' /\ queue'[k - 1] = d
      BY <1>2, <2>1
  <2> QED
      BY <2>2
<1>7. CASE future[c] = "pending"
  <2>1. /\ future' = [future EXCEPT ![c] = "running"]
        /\ worker' = [worker EXCEPT ![w] = c]
      BY <1>2, <1>7 DEF Take
  <2>2. TypeOK'
      BY <1>1, <1>2, <2>1 DEF TypeOK
  <2>3. Working'
      BY <1>1, <1>2, <1>3, <1>7, <2>1 DEF Working, TypeOK
  <2>4. Queued'
      BY <1>2, <1>3, <1>4, <1>5, <1>6, <2>1 DEF Queued, TypeOK
  <2>5. TimedStage' /\ InlineStage'
      BY <1>1, <1>2, <1>7, <2>1 DEF TimedStage, InlineStage, TypeOK
  <2> QED
      BY <2>2, <2>3, <2>4, <2>5
<1>8. CASE future[c] # "pending"
  <2>1. UNCHANGED <<future, worker>>
      BY <1>2, <1>8 DEF Take
  <2>2. TypeOK' /\ Working'
      BY <1>1, <1>2, <2>1 DEF TypeOK, Working
  <2>3. Queued'
      BY <1>2, <1>4, <1>5, <1>6, <1>8, <2>1 DEF Queued
  <2>4. TimedStage' /\ InlineStage'
      BY <1>1, <2>1 DEF TimedStage, InlineStage
  <2> QED
      BY <2>2, <2>3, <2>4
<1> QED
    BY <1>7, <1>8

\* The body of a call ends.
LEMMA BodyEndsInv ==
    ASSUME PoolInv, NEW w \in Workers, NEW how \in Answers, BodyEnds(w, how) PROVE PoolInv'
<1> USE ToolPoolAssumption DEF PoolInv
<1> DEFINE c == worker[w]
<1>1. /\ c \in Calls /\ c # Nobody /\ future[c] = "running" /\ c \in Timed
      /\ end' = [end EXCEPT ![c] = how]
      /\ future' = [future EXCEPT ![c] = "finished"]
      /\ worker' = [worker EXCEPT ![w] = Nobody]
      /\ UNCHANGED <<caller, queue>>
    BY DEF BodyEnds, TypeOK, Working, InlineStage
<1>2. TypeOK'
    BY <1>1 DEF TypeOK
<1>3. Working'
    BY <1>1 DEF Working, TypeOK
<1>4. Queued'
    BY <1>1 DEF Queued, TypeOK
<1>5. how # "no"
    BY DEF Answers
<1>6. TimedStage' /\ InlineStage'
    BY <1>1, <1>5 DEF TimedStage, InlineStage, TypeOK
<1> QED
    BY <1>2, <1>3, <1>4, <1>6

\* So every step keeps the invariant.
LEMMA InvStep == PoolInv /\ [Next]_vars => PoolInv'
<1> SUFFICES ASSUME PoolInv, [Next]_vars PROVE PoolInv'
    OBVIOUS
<1>1. CASE UNCHANGED vars
    BY <1>1 DEF vars, PoolInv, TypeOK, Working, Queued, TimedStage, InlineStage
<1> QED
    BY <1>1, SubmitInv, CallerInv, GiveUpInv, TakeInv, BodyEndsInv DEF Next, Answers

\* The invariant holds throughout.
LEMMA InvCorrect == Spec => []PoolInv
BY InitInv, InvStep, PTL DEF Spec

-----------------------------------------------------------------------------
\* Type correctness: the stages, futures and results are those of
\* concurrent.futures and of the decorator.
THEOREM TypeCorrect == Spec => []TypeOK
<1>1. PoolInv => TypeOK
    BY DEF PoolInv
<1> QED
    BY <1>1, InvCorrect, PTL

\* A set with all its elements equal to one of them has one.
LEMMA OneElement == ASSUME NEW S, NEW x \in S, \A y \in S : y = x PROVE Cardinality(S) = 1
<1>1. S = {x}
    OBVIOUS
<1> QED
    BY <1>1, FS_Singleton

\* The empty set has no elements.
LEMMA NoElement == ASSUME NEW S, S = {} PROVE Cardinality(S) = 0
BY FS_EmptySet

\* No call is lost, is in the queue twice, or has two workers (the executor
\* all tools share, and Future.cancel).
THEOREM NothingLost == Spec => []WorkConserved
<1>1. ASSUME PoolInv PROVE WorkConserved
  <2> USE <1>1, ToolPoolAssumption DEF PoolInv
  <2> SUFFICES ASSUME NEW c \in Calls
               PROVE  /\ Cardinality({w \in Workers : worker[w] = c}) = IF future[c] = "running" THEN 1 ELSE 0
                      /\ Cardinality({k \in DOMAIN queue : queue[k] = c})
                            \in CASE future[c] = "pending" -> {1} [] future[c] = "cancelled" -> {0, 1} [] OTHER -> {0}
                      /\ c \in Timed => (future[c] = "finished" <=> end[c] # "no")
      BY DEF WorkConserved
  <2> DEFINE W == {w \in Workers : worker[w] = c}
             K == {k \in DOMAIN queue : queue[k] = c}
  <2>1. Cardinality(W) = IF future[c] = "running" THEN 1 ELSE 0
    <3>1. CASE future[c] = "running"
      <4>1. PICK w \in Workers : worker[w] = c
          BY <3>1 DEF Working
      <4>2. w \in W /\ \A v \in W : v = w
          BY <4>1 DEF Working
      <4> QED
          BY <3>1, <4>2, OneElement
    <3>2. CASE future[c] # "running"
      <4>1. W = {}
          BY <3>2 DEF Working
      <4> QED
          BY <3>2, <4>1, NoElement
    <3> QED
        BY <3>1, <3>2
  <2>2. ASSUME NEW k \in K PROVE Cardinality(K) = 1
    <3>1. \A j \in K : j = k
        BY DEF Queued
    <3> QED
        BY <3>1, OneElement
  <2>3. K = {} => Cardinality(K) = 0
      BY NoElement
  <2>4. future[c] = "pending" => K # {}
      BY DEF Queued
  <2>5. K # {} => future[c] \in {"pending", "cancelled"}
      BY DEF Queued
  <2>6. Cardinality(K) \in CASE future[c] = "pending" -> {1} [] future[c] = "cancelled" -> {0, 1} [] OTHER -> {0}
      BY <2>2, <2>3, <2>4, <2>5
  <2>7. c \in Timed => (future[c] = "finished" <=> end[c] # "no")
      BY DEF TimedStage
  <2> QED
      BY <2>1, <2>6, <2>7
<1> QED
    BY <1>1, InvCorrect, PTL

-----------------------------------------------------------------------------
\* The state of ToolPromise, as ToolPool maps it.
Asked == {c \in Calls : caller[c] \in {"waiting", "expired", "entered", "inline"}}
Body(c) ==
    IF end[c] # "no" THEN end[c]
    ELSE IF future[c] = "running" \/ caller[c] = "inline" THEN "running" ELSE "no"
Given(c) == IF caller[c] \in Answers THEN caller[c] ELSE "no"

\* A call is asked for.
LEMMA AskMaps ==
    ASSUME PoolInv, NEW c \in Calls, Given(c) = "no", Given(c)' = "no",
           c \notin Asked, c \in Asked', Body(c)' = Body(c),
           \A d \in Calls \ {c} :
              /\ d \in Asked' <=> d \in Asked
              /\ Body(d)' = Body(d) /\ Given(d)' = Given(d)
    PROVE  Promise!Ask(c)
<1>1. Asked' = Asked \cup {c}
    BY DEF Asked
<1>2. \A d \in Calls : Body(d)' = Body(d) /\ Given(d)' = Given(d)
    OBVIOUS
<1>3. [d \in Calls |-> Body(d)]' = [d \in Calls |-> Body(d)]
    BY <1>2
<1>4. [d \in Calls |-> Given(d)]' = [d \in Calls |-> Given(d)]
    BY <1>2
<1>5. [d \in Calls |-> Given(d)][c] = "no"
    OBVIOUS
<1> QED
    BY <1>1, <1>3, <1>4, <1>5 DEF Promise!Ask, Asked, Body, Given

\* A call's body starts or ends.
LEMMA BodyMaps ==
    ASSUME PoolInv, NEW c \in Calls, Asked' = Asked,
           \A d \in Calls : Given(d)' = Given(d),
           \A d \in Calls \ {c} : Body(d)' = Body(d)
    PROVE  /\ c \in Asked /\ Body(c) = "no" /\ Body(c)' = "running" => Promise!Start(c)
           /\ \A how : Body(c) = "running" /\ Body(c)' = how => Promise!End(c, how)
<1>1. [d \in Calls |-> Given(d)]' = [d \in Calls |-> Given(d)]
    OBVIOUS
<1>2. [d \in Calls |-> Body(d)]' = [[d \in Calls |-> Body(d)] EXCEPT ![c] = Body(c)']
    OBVIOUS
<1>3. [d \in Calls |-> Body(d)][c] = Body(c)
    OBVIOUS
<1> QED
    BY <1>1, <1>2, <1>3 DEF Promise!Start, Promise!End, Asked, Body, Given

\* A caller is answered.
LEMMA AnswerMaps ==
    ASSUME PoolInv, NEW c \in Calls, NEW how,
           how = Body(c) \/ (how = "timeout" /\ c \in Timed),
           c \in Asked, c \notin Asked', Given(c)' = how,
           \A d \in Calls : Body(d)' = Body(d),
           \A d \in Calls \ {c} : (d \in Asked' <=> d \in Asked) /\ Given(d)' = Given(d)
    PROVE  Promise!Answer(c, how)
<1>1. Asked' = Asked \ {c}
    BY DEF Asked
<1>2. [d \in Calls |-> Body(d)]' = [d \in Calls |-> Body(d)]
    OBVIOUS
<1>3. [d \in Calls |-> Given(d)]' = [[d \in Calls |-> Given(d)] EXCEPT ![c] = how]
    OBVIOUS
<1>4. [d \in Calls |-> Body(d)][c] = Body(c)
    OBVIOUS
<1> QED
    BY <1>1, <1>2, <1>3, <1>4 DEF Promise!Answer, Asked, Body, Given

\* Nothing a caller could see happens.
LEMMA NothingMaps ==
    ASSUME PoolInv, Asked' = Asked,
           \A c \in Calls : Body(c)' = Body(c) /\ Given(c)' = Given(c)
    PROVE  UNCHANGED Promise!tvars
<1>1. /\ [d \in Calls |-> Body(d)]' = [d \in Calls |-> Body(d)]
      /\ [d \in Calls |-> Given(d)]' = [d \in Calls |-> Given(d)]
    OBVIOUS
<1> QED
    BY <1>1 DEF Promise!tvars, Asked, Body, Given

\* What a caller does is asking, starting a body, an answer, or invisible.
LEMMA CallerMaps ==
    ASSUME PoolInv, NEW c \in Calls,
           Submit(c) \/ CallInline(c) \/ Deliver(c) \/ Expire(c) \/ GiveUp(c)
    PROVE  [Promise!Next]_(Promise!tvars)
<1> USE ToolPoolAssumption DEF PoolInv
<1>1. CASE Submit(c)
  <2>1. Promise!Ask(c)
      BY <1>1, AskMaps DEF Submit, Asked, Body, Given, Answers, TypeOK, TimedStage
  <2> QED
      BY <2>1 DEF Promise!Next
<1>2. CASE CallInline(c) /\ caller[c] = "idle"
  <2>1. Promise!Ask(c)
      BY <1>2, AskMaps DEF CallInline, Asked, Body, Given, Answers, TypeOK, InlineStage
  <2> QED
      BY <2>1 DEF Promise!Next
<1>3. CASE CallInline(c) /\ caller[c] = "entered"
  <2>1. c \in Asked /\ Asked' = Asked /\ \A d \in Calls : Given(d)' = Given(d)
      BY <1>3 DEF CallInline, Asked, Given, Answers, TypeOK
  <2>2. Body(c) = "no" /\ Body(c)' = "running" /\ \A d \in Calls \ {c} : Body(d)' = Body(d)
      BY <1>3 DEF CallInline, Body, TypeOK, InlineStage
  <2>3. Promise!Start(c)
      BY <2>1, <2>2, BodyMaps
  <2> QED
      BY <2>3 DEF Promise!Next
<1>4. CASE CallInline(c) /\ caller[c] = "inline"
  <2>0. PICK how \in Answers : how = end[c]
      BY <1>4 DEF CallInline, Answers, TypeOK
  <2>1. caller' = [caller EXCEPT ![c] = how] /\ UNCHANGED <<end, future>>
      BY <1>4, <2>0 DEF CallInline
  <2>2. c \in Asked /\ c \notin Asked' /\ Given(c)' = how
      BY <1>4, <2>1 DEF Asked, Given, Answers, TypeOK
  <2>3. how = Body(c) /\ \A d \in Calls : Body(d)' = Body(d)
      BY <1>4, <2>0, <2>1 DEF Body, Answers, TypeOK
  <2>4. \A d \in Calls \ {c} : (d \in Asked' <=> d \in Asked) /\ Given(d)' = Given(d)
      BY <2>1 DEF Asked, Given, TypeOK
  <2>5. Promise!Answer(c, how)
      BY <2>2, <2>3, <2>4, AnswerMaps
  <2> QED
      BY <2>5 DEF Promise!Next, Promise!Hows, Answers
<1>5. CASE Deliver(c) /\ end[c] = "timeout"
  <2>1. UNCHANGED Promise!tvars
      BY <1>5, NothingMaps DEF Deliver, Asked, Body, Given, Answers, TypeOK
  <2> QED
      BY <2>1
<1>6. CASE Deliver(c) /\ end[c] # "timeout"
  <2>1. PICK how \in Answers : how = end[c]
      BY <1>6 DEF Deliver, Ready, Answers, TypeOK, TimedStage, InlineStage
  <2>2. caller[c] = "waiting" /\ caller' = [caller EXCEPT ![c] = how] /\ UNCHANGED <<end, future>>
      BY <1>6, <2>1 DEF Deliver
  <2>3. c \in Asked /\ c \notin Asked' /\ Given(c)' = how
      BY <2>1, <2>2 DEF Asked, Given, Answers, TypeOK
  <2>4. how = Body(c) /\ \A d \in Calls : Body(d)' = Body(d)
      BY <2>1, <2>2 DEF Body, Answers, TypeOK
  <2>5. \A d \in Calls \ {c} : (d \in Asked' <=> d \in Asked) /\ Given(d)' = Given(d)
      BY <2>2 DEF Asked, Given, TypeOK
  <2>6. Promise!Answer(c, how)
      BY <2>3, <2>4, <2>5, AnswerMaps
  <2> QED
      BY <2>6 DEF Promise!Next, Promise!Hows, Answers
<1>7. CASE Expire(c)
  <2>1. UNCHANGED Promise!tvars
      BY <1>7, NothingMaps DEF Expire, Asked, Body, Given, Answers, TypeOK
  <2> QED
      BY <2>1
<1>8. CASE GiveUp(c)
  <2>1. c \in Timed /\ c \in Asked /\ c \notin Asked' /\ Given(c)' = "timeout"
      BY <1>8 DEF GiveUp, Asked, Given, Answers, TypeOK, InlineStage
  <2>2. \A d \in Calls : Body(d)' = Body(d)
      BY <1>8 DEF GiveUp, Cancelled, Body, TypeOK
  <2>3. \A d \in Calls \ {c} : (d \in Asked' <=> d \in Asked) /\ Given(d)' = Given(d)
      BY <1>8 DEF GiveUp, Asked, Given, TypeOK
  <2>4. Promise!Answer(c, "timeout")
      BY <2>1, <2>2, <2>3, AnswerMaps
  <2> QED
      BY <2>4 DEF Promise!Next, Promise!Hows
<1> QED
    BY <1>1, <1>2, <1>3, <1>4, <1>5, <1>6, <1>7, <1>8 DEF CallInline

\* A worker starts a body, drops a cancelled call, or ends a body; so may the
\* caller's own thread.
LEMMA TakeMaps == ASSUME PoolInv, NEW w \in Workers, Take(w) PROVE [Promise!Next]_(Promise!tvars)
<1> USE ToolPoolAssumption DEF PoolInv
<1>1. PICK c \in Calls : c = Head(queue)
    BY TailIs DEF Take, TypeOK
<1>2. CASE future[c] = "pending"
  <2>1. /\ future' = [future EXCEPT ![c] = "running"] /\ UNCHANGED <<caller, end>>
        /\ c \in Timed /\ caller[c] \in {"waiting", "expired"} /\ end[c] = "no"
      BY <1>1, <1>2 DEF Take, TimedStage, InlineStage
  <2>2. c \in Asked /\ Asked' = Asked /\ \A d \in Calls : Given(d)' = Given(d)
      BY <1>1, <2>1 DEF Asked, Given
  <2>3. Body(c) = "no" /\ Body(c)' = "running" /\ \A d \in Calls \ {c} : Body(d)' = Body(d)
      BY <1>1, <1>2, <2>1 DEF Body, TypeOK
  <2>4. Promise!Start(c)
      BY <1>1, <2>2, <2>3, BodyMaps
  <2> QED
      BY <1>1, <2>4 DEF Promise!Next
<1>3. CASE future[c] # "pending"
  <2>1. UNCHANGED <<caller, end, future>>
      BY <1>1, <1>3 DEF Take
  <2>2. UNCHANGED Promise!tvars
      BY <2>1, NothingMaps DEF Asked, Body, Given
  <2> QED
      BY <2>2
<1> QED
    BY <1>2, <1>3

\* The end of a body is a step of the promise, or invisible.
LEMMA EndMaps ==
    ASSUME PoolInv, NEW c \in Calls, NEW how \in Answers,
           InlineEnds(c, how) \/ (\E w \in Workers : worker[w] = c /\ BodyEnds(w, how))
    PROVE  [Promise!Next]_(Promise!tvars)
<1> USE ToolPoolAssumption DEF PoolInv
<1>1. Asked' = Asked /\ \A d \in Calls : Given(d)' = Given(d)
    BY DEF InlineEnds, BodyEnds, Asked, Given
<1>2. how # "no" /\ \A d \in Calls \ {c} : Body(d)' = Body(d)
    BY DEF InlineEnds, BodyEnds, Body, Answers, TypeOK
<1>3. Body(c) = "running" /\ Body(c)' = how
  <2>1. CASE InlineEnds(c, how)
      BY <1>2, <2>1 DEF InlineEnds, Body, TypeOK
  <2>2. CASE \E w \in Workers : worker[w] = c /\ BodyEnds(w, how)
    <3>1. PICK w \in Workers : worker[w] = c /\ BodyEnds(w, how)
        BY <2>2
    <3>2. future[c] = "running" /\ end[c] = "no" /\ end' = [end EXCEPT ![c] = how]
        BY <3>1 DEF BodyEnds, Working, TimedStage, InlineStage
    <3> QED
        BY <1>2, <3>2 DEF Body, TypeOK
  <2> QED
      BY <2>1, <2>2
<1>4. Promise!End(c, how)
    BY <1>1, <1>2, <1>3, BodyMaps
<1> QED
    BY <1>4 DEF Promise!Next, Promise!Hows, Answers

\* Every step of the pool is a step of the promise, or invisible to callers.
LEMMA RefinementStep == PoolInv /\ [Next]_vars => [Promise!Next]_(Promise!tvars)
<1> SUFFICES ASSUME PoolInv, [Next]_vars PROVE [Promise!Next]_(Promise!tvars)
    OBVIOUS
<1>1. ASSUME NEW c \in Calls, NEW how \in Answers, InlineEnds(c, how)
      PROVE [Promise!Next]_(Promise!tvars)
    BY <1>1, EndMaps
<1>2. ASSUME NEW w \in Workers, NEW how \in Answers, BodyEnds(w, how)
      PROVE [Promise!Next]_(Promise!tvars)
  <2>1. worker[w] \in Calls
      BY <1>2 DEF BodyEnds, PoolInv, TypeOK
  <2> QED
      BY <1>2, <2>1, EndMaps
<1>3. CASE UNCHANGED vars
    BY <1>3, NothingMaps DEF vars, Asked, Body, Given
<1> QED
    BY <1>1, <1>2, <1>3, CallerMaps, TakeMaps DEF Next

\* The safety half of KeepsPromise: what callers see of the decorator and its
\* executor is what ToolPromise allows: one answer per call, a result only of a
\* body that ended, and no body starting after its caller was answered.
THEOREM PromiseSafe == Spec => Promise!Init /\ [][Promise!Next]_(Promise!tvars)
<1>1. Init => Promise!Init
    BY DEF Init, Promise!Init, Answers
<1> QED
    BY <1>1, RefinementStep, InvCorrect, PTL DEF Spec
=============================================================================
