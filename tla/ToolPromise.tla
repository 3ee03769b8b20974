----------------------------- MODULE ToolPromise -----------------------------
(***************************************************************************)
(* What a caller of an MCP tool is promised: an answer, once, whatever its  *)
(* body and all other bodies do; a result only of a body that has ended; and *)
(* no body that starts after its caller has been answered.                  *)
(***************************************************************************)
CONSTANTS
    Calls,  \* tool calls
    Timed   \* those with a positive timeout

VARIABLES
    asked,   \* calls made and not answered
    body,    \* per call: "no", "running", "value", "error" or "timeout", the
             \* last three being how it ended
    answer   \* per call: "no", "value", "error" or "timeout"

tvars == <<asked, body, answer>>

Init ==
    /\ asked = {}
    /\ body = [c \in Calls |-> "no"]
    /\ answer = [c \in Calls |-> "no"]

Ask(c) ==
    /\ c \notin asked /\ answer[c] = "no"
    /\ asked' = asked \cup {c}
    /\ UNCHANGED <<body, answer>>

Start(c) ==
    /\ c \in asked /\ body[c] = "no"
    /\ body' = [body EXCEPT ![c] = "running"]
    /\ UNCHANGED <<asked, answer>>

End(c, how) ==
    /\ body[c] = "running"
    /\ body' = [body EXCEPT ![c] = how]
    /\ UNCHANGED <<asked, answer>>

Answer(c, how) ==
    /\ c \in asked
    /\ how = body[c] \/ (how = "timeout" /\ c \in Timed)
    /\ asked' = asked \ {c}
    /\ answer' = [answer EXCEPT ![c] = how]
    /\ UNCHANGED body

Hows == {"value", "error", "timeout"}

Next ==
    \E c \in Calls :
        \/ Ask(c) \/ Start(c)
        \/ \E how \in Hows : End(c, how) \/ Answer(c, how)

Spec ==
    /\ Init /\ [][Next]_tvars
    /\ \A c \in Timed : c \in asked ~> c \notin asked
=============================================================================
