----------------------------- MODULE MCToolPool -----------------------------
(***************************************************************************)
(* Two workers and three calls with a timeout, one without: two blocked     *)
(* bodies exhaust the pool while the third call waits in the queue.         *)
(***************************************************************************)
EXTENDS ToolPool, TLC

CONSTANTS c1, c2, c3, c4

MCCalls == {c1, c2, c3, c4}
MCTimed == {c1, c2, c3}
=============================================================================
