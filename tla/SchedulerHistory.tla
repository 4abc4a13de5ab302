-------------------------- MODULE SchedulerHistory ---------------------------
(***************************************************************************)
(* Scheduler and what it has given out so far.  `given' is a history       *)
(* variable: no guard reads it and every step of Scheduler is possible     *)
(* with it.  `out' forgets an instance when it is returned; `given' never  *)
(* does, so that it tells an instance that is given out once more.         *)
(***************************************************************************)
EXTENDS Scheduler

VARIABLE given

history_vars == <<vars, given>>

HistoryInit == Init /\ given = out

Remember == given' = given \cup out'

HistoryNext == Next /\ Remember

HistorySpec == HistoryInit /\ [][HistoryNext]_history_vars

-----------------------------------------------------------------------------
(* try_once (server.hpp:351): GET_INSTANCES gives out a start assignment   *)
(* only if it was never given out before, to no worker, whatever was       *)
(* returned in between and however often the task's counters changed.      *)
GivenOutOnce == [][(out' \ out) \cap given = {}]_history_vars
=============================================================================
