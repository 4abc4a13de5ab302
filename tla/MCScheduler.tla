---------------------------- MODULE MCScheduler ----------------------------
(* Scheduler with its history, for TLC.                                    *)
EXTENDS SchedulerHistory

CONSTANT MaxPending  \* messages its clients leave unread, at most

(* A client is free to read at any time, so leaving little unread hides no *)
(* step of the server: its guards do not look at what it has sent.         *)
Bounded ==
    /\ Len(s2m) <= MaxPending
    /\ FoldFunctionOnSet(+, 0, [w \in Worker |-> Len(s2w[w])], Worker)
           <= MaxPending
=============================================================================
