------------------------------ MODULE ToolPool ------------------------------
(***************************************************************************)
(* Tool calls of the MCP server: mcp/auth.py's audited decorator and the    *)
(* executor all tools share.                                                *)
(*                                                                         *)
(* The caller's thread submits the tool's body and waits for its future at  *)
(* most the timeout; when that expires it cancels the future and raises     *)
(* TimeoutError.  A body that has started is not stopped by that: it keeps   *)
(* its worker until it ends, if it ever does.                               *)
(***************************************************************************)
EXTENDS Naturals, Sequences, FiniteSets

CONSTANTS
    Calls,    \* tool calls, index_repository's among them
    Timed,    \* those whose timeout setting is positive
    Workers,  \* threads of _TOOL_EXECUTOR (8 in the code)
    Nobody    \* a worker without a call

ASSUME ToolPoolAssumption ==
    /\ Timed \subseteq Calls
    /\ Nobody \notin Calls

VARIABLES
    caller,  \* per call: "idle", "waiting", "expired", "entered", "inline" or
             \* the answer
    future,  \* per call: the state of its future
    end,     \* per call: how its body ended
    queue,   \* the executor's work queue
    worker   \* per worker, the call whose body it runs

vars == <<caller, future, end, queue, worker>>

Answers == {"value", "error", "timeout"}

Init ==
    /\ caller = [c \in Calls |-> "idle"]
    /\ future = [c \in Calls |-> "none"]
    /\ end = [c \in Calls |-> "no"]
    /\ queue = << >>
    /\ worker = [w \in Workers |-> Nobody]

(***************************************************************************)
(* The caller.                                                              *)
(***************************************************************************)
Submit(c) ==
    /\ c \in Timed /\ caller[c] = "idle"
    /\ caller' = [caller EXCEPT ![c] = "waiting"]
    /\ future' = [future EXCEPT ![c] = "pending"]
    /\ queue' = Append(queue, c)
    /\ UNCHANGED <<end, worker>>

\* A timeout of 0 or less: the body runs on the caller's thread, which answers
\* with whatever it returns or raises.
CallInline(c) ==
    /\ c \notin Timed
    /\ \/ caller[c] = "idle" /\ caller' = [caller EXCEPT ![c] = "entered"]
       \/ caller[c] = "entered" /\ caller' = [caller EXCEPT ![c] = "inline"]
       \/ caller[c] = "inline" /\ end[c] # "no" /\ caller' = [caller EXCEPT ![c] = end[c]]
    /\ UNCHANGED <<future, end, queue, worker>>

InlineEnds(c, how) ==
    /\ caller[c] = "inline" /\ end[c] = "no"
    /\ end' = [end EXCEPT ![c] = how]
    /\ UNCHANGED <<caller, future, queue, worker>>

\* Mutant of Ready: the result is taken without waiting for it.
ReadyAlways(f) == TRUE

Ready(f) == f = "finished"

\* future.result() returns or raises what the body did.  TimeoutError is the
\* class FuturesTimeoutError stands for, so a body's own is taken for expiry.
Deliver(c) ==
    /\ caller[c] = "waiting" /\ Ready(future[c])
    /\ caller' = [caller EXCEPT ![c] = IF end[c] = "timeout" THEN "expired" ELSE end[c]]
    /\ UNCHANGED <<future, end, queue, worker>>

\* future.result() gives up.
Expire(c) ==
    /\ caller[c] = "waiting" /\ future[c] \in {"pending", "running"}
    /\ caller' = [caller EXCEPT ![c] = "expired"]
    /\ UNCHANGED <<future, end, queue, worker>>

\* Mutant of Cancelled: the future is left alone.
CancelledNever(f) == f

\* Mutant of Cancelled: a running body is given up as well.
CancelledAlways(f) == IF f = "finished" THEN f ELSE "cancelled"

\* Future.cancel: only what has not started can be cancelled.
Cancelled(f) == IF f = "pending" THEN "cancelled" ELSE f

\* future.cancel(); raise TimeoutError
GiveUp(c) ==
    /\ caller[c] = "expired"
    /\ future' = [future EXCEPT ![c] = Cancelled(@)]
    /\ caller' = [caller EXCEPT ![c] = "timeout"]
    /\ UNCHANGED <<end, queue, worker>>

(***************************************************************************)
(* The executor.                                                            *)
(***************************************************************************)
\* A free worker takes the oldest item; a cancelled one is dropped.
Take(w) ==
    LET c == Head(queue) IN
    /\ worker[w] = Nobody /\ queue # << >>
    /\ queue' = Tail(queue)
    /\ IF future[c] = "pending"
       THEN /\ future' = [future EXCEPT ![c] = "running"]
            /\ worker' = [worker EXCEPT ![w] = c]
       ELSE UNCHANGED <<future, worker>>
    /\ UNCHANGED <<caller, end>>

BodyEnds(w, how) ==
    LET c == worker[w] IN
    /\ c # Nobody
    /\ end' = [end EXCEPT ![c] = how]
    /\ future' = [future EXCEPT ![c] = "finished"]
    /\ worker' = [worker EXCEPT ![w] = Nobody]
    /\ UNCHANGED <<caller, queue>>

Next ==
    \/ \E c \in Calls :
          \/ Submit(c) \/ CallInline(c) \/ Deliver(c) \/ Expire(c) \/ GiveUp(c)
          \/ \E how \in Answers : InlineEnds(c, how)
    \/ \E w \in Workers :
          \/ Take(w)
          \/ \E how \in Answers : BodyEnds(w, how)

\* A caller's thread runs and its wait ends; nothing is assumed of workers or
\* bodies, which may block for ever.
Spec ==
    /\ Init /\ [][Next]_vars
    /\ \A c \in Calls : WF_vars(Deliver(c) \/ Expire(c)) /\ WF_vars(GiveUp(c))

-----------------------------------------------------------------------------
(***************************************************************************)
(* Properties.                                                              *)
(***************************************************************************)
\* Every variable has its type.
TypeOK ==
    /\ caller \in [Calls -> {"idle", "waiting", "expired", "entered", "inline"} \cup Answers]
    /\ future \in [Calls -> {"none", "pending", "running", "finished", "cancelled"}]
    /\ end \in [Calls -> {"no"} \cup Answers]
    /\ queue \in Seq(Calls)
    /\ worker \in [Workers -> Calls \cup {Nobody}]

\* A future is running exactly while one worker has its call, is waited for in
\* the queue while it is pending, and is finished exactly when its body is: no
\* call is lost, run twice, or run by two workers.
WorkConserved ==
    /\ \A c \in Calls :
          /\ Cardinality({w \in Workers : worker[w] = c}) = IF future[c] = "running" THEN 1 ELSE 0
          /\ Cardinality({k \in DOMAIN queue : queue[k] = c})
                \in CASE future[c] = "pending" -> {1} [] future[c] = "cancelled" -> {0, 1} [] OTHER -> {0}
          /\ c \in Timed => (future[c] = "finished" <=> end[c] # "no")

\* The decorator keeps the promise, liveness included: every timed call is
\* answered although all workers may be blocked, and a body that had not
\* started when its caller gave up never starts.
Promise == INSTANCE ToolPromise WITH
    asked <- {c \in Calls : caller[c] \in {"waiting", "expired", "entered", "inline"}},
    body <- [c \in Calls |->
                IF end[c] # "no" THEN end[c]
                ELSE IF future[c] = "running" \/ caller[c] = "inline" THEN "running" ELSE "no"],
    answer <- [c \in Calls |-> IF caller[c] \in Answers THEN caller[c] ELSE "no"]

KeepsPromise == Promise!Spec
=============================================================================
