------------------------------- MODULE Server -------------------------------
(***************************************************************************)
(* The server process (server.cpp, communication/server.hpp).  It owns the *)
(* list of files to solve, hands instances of them out to the workers that *)
(* ask, collects the results and decides when everybody may stop.          *)
(*                                                                         *)
(* The server is one thread: each round of its main loop tests for one     *)
(* worker command ("testany") and then probes for one manager command      *)
(* ("iprobe").  A handler is one action, its parameters the fields of the  *)
(* command; two handlers block or loop and are cut at those points only:   *)
(* ADD_WORKERS at its barriers and the accept, GET_INSTANCES at each round *)
(* of its while loop.  Which command arrives is for the composing module   *)
(* to say: Scheduler lets any arrive, Cluster takes them from channels.    *)
(***************************************************************************)
EXTENDS Messages, SequencesExt

VARIABLES
    available_tasks,             \* sequence of TaskInfo, one per added file
    task_order,                  \* deque of task numbers with work to give
    num_instances_in_processing, \* "how many instances are at workers"
    solution_found, terminated_workers, statistic_send, running,
    work_units,                  \* connected workers, in order of accept
    srv_pc,                      \* where the server's thread is
    reply                        \* the GET_INSTANCES being answered

server_vars == <<available_tasks, task_order, num_instances_in_processing,
                 solution_found, terminated_workers, statistic_send, running,
                 work_units, srv_pc, reply>>

(* A task without start assignments of its own (n = 0) is tried once.      *)
try_once == TRUE

TaskInfo == [n : Nat, started : Nat, cp : Nat, is_scheduled : BOOLEAN,
             times_solved : Nat]

NewTask(n) == [n |-> n, started |-> 0, cp |-> 0, is_scheduled |-> TRUE,
               times_solved |-> 0]

NoReply == [to |-> "nobody", left |-> 0, jobs |-> <<>>]

ServerInit ==
    /\ available_tasks = <<>>
    /\ task_order = <<>>
    /\ num_instances_in_processing = 0
    /\ solution_found = FALSE
    /\ terminated_workers = FALSE
    /\ statistic_send = FALSE
    /\ running = TRUE
    /\ work_units = <<>>
    /\ srv_pc = "testany"
    /\ reply = NoReply
    /\ s2w = [w \in Worker |-> <<>>]
    /\ s2m = <<>>

Connected == ToSet(work_units)

(* The main loop after it has processed a manager command, or found none.  *)
NextRound == IF running THEN "testany" ELSE "bye"

-----------------------------------------------------------------------------
(* What two handlers have in common.                                       *)

MutantTerminationNotNoted ==
    /\ terminated_workers' = terminated_workers
    /\ s2w' = Broadcast(Connected, TerminateWorker)

(* send_termination_to_workers: once, to everybody connected then.         *)
SendTermination ==
    /\ terminated_workers' = TRUE
    /\ s2w' = IF terminated_workers THEN s2w
              ELSE Broadcast(Connected, TerminateWorker)

(* The messages of send_statistic_to_manager: one per task that has been   *)
(* worked on, in order, with the counts of that moment.                    *)
Worked(tasks) == {t \in DOMAIN tasks : tasks[t].started > 0}

Statistics(tasks) ==
    [i \in 1 .. Cardinality(Worked(tasks)) |->
        LET t == Nth(Worked(tasks), i)
        IN  Statistic(t, tasks[t].started, tasks[t].times_solved)]

-----------------------------------------------------------------------------
(* Manager commands.                                                       *)

AtProbe == srv_pc \in {"testany", "iprobe"}

(* The new task goes to the FRONT of the deque; the first file wakes the   *)
(* workers that connected before there was anything to do.                 *)
ProcessAddFile(n) ==
    /\ AtProbe
    /\ available_tasks' = Append(available_tasks, NewTask(n))
    /\ task_order' = Cons(Len(available_tasks) + 1, task_order)
    /\ s2w' = IF available_tasks = <<>>
              THEN Broadcast(Connected, ActivateWorker) ELSE s2w
    /\ srv_pc' = NextRound
    /\ UNCHANGED <<num_instances_in_processing, solution_found,
                   terminated_workers, statistic_send, running, work_units,
                   reply, s2m>>

(* ADD_WORKERS: a barrier with the manager, accept one connection (the     *)
(* manager adds workers one at a time), a second barrier.                  *)
ProcessAddWorkers ==
    /\ AtProbe
    /\ srv_pc' = "enter"
    /\ UNCHANGED <<available_tasks, task_order, num_instances_in_processing,
                   solution_found, terminated_workers, statistic_send, running,
                   work_units, reply, s2w, s2m>>

AcceptWorker(w) ==
    /\ srv_pc = "accept"
    /\ w \notin Connected
    /\ work_units' = Append(work_units, w)
    /\ s2w' = IF available_tasks # <<>> THEN Broadcast({w}, ActivateWorker)
              ELSE s2w
    /\ srv_pc' = "leave"
    /\ UNCHANGED <<available_tasks, task_order, num_instances_in_processing,
                   solution_found, terminated_workers, statistic_send, running,
                   reply, s2m>>

(* MPI_Barrier on the manager's communicator lets the server go on: the    *)
(* two of ADD_WORKERS and the one before the server leaves for good.       *)
PassManagerBarrier ==
    /\ \/ srv_pc = "enter" /\ srv_pc' = "accept"
       \/ srv_pc = "leave" /\ srv_pc' = NextRound
       \/ srv_pc = "disconnecting" /\ srv_pc' = "gone"
    /\ UNCHANGED <<available_tasks, task_order, num_instances_in_processing,
                   solution_found, terminated_workers, statistic_send, running,
                   work_units, reply, s2w, s2m>>

(* TERMINATE only passes the order on; the server itself keeps running.    *)
(* Without a worker the assertion in send_termination_to_workers aborts.   *)
ProcessTerminate ==
    /\ AtProbe
    /\ IF ~terminated_workers /\ work_units = <<>>
       THEN /\ srv_pc' = "aborted"
            /\ terminated_workers' = TRUE
            /\ UNCHANGED s2w
       ELSE /\ SendTermination
            /\ srv_pc' = NextRound
    /\ UNCHANGED <<available_tasks, task_order, num_instances_in_processing,
                   solution_found, statistic_send, running, work_units, reply,
                   s2m>>

NoManagerCommand ==
    /\ srv_pc = "iprobe"
    /\ srv_pc' = NextRound
    /\ UNCHANGED <<available_tasks, task_order, num_instances_in_processing,
                   solution_found, terminated_workers, statistic_send, running,
                   work_units, reply, s2w, s2m>>

-----------------------------------------------------------------------------
(* Worker commands.                                                        *)

(* Once a solution is known no request gets anything.                      *)
MutantAlwaysServed(num) == num

Served(num) == IF solution_found THEN 0 ELSE num

(* GET_INSTANCES, up to its while loop.                                    *)
ProcessGetInstances(w, num) ==
    /\ srv_pc = "testany"
    /\ reply' = [to |-> w, left |-> Served(num), jobs |-> <<>>]
    /\ srv_pc' = "handout"
    /\ UNCHANGED <<available_tasks, task_order, num_instances_in_processing,
                   solution_found, terminated_workers, statistic_send, running,
                   work_units, s2w, s2m>>

(* What a task can still give to a request.  The code subtracts in         *)
(* uint32_t; here the difference is in Int, and the invariant Startable    *)
(* says that it is never below 1, so that nothing wraps.                   *)
InstancesAvailable(task, requested) ==
    IF task.n = 0 THEN requested
    ELSE task.n - task.cp - (IF try_once THEN task.started ELSE 0)

MutantIgnoresRequest(a, b) == b

SmallerOf(a, b) == IF a < b THEN a ELSE b

(* The job the next round of the loop gives out.                           *)
NextJob ==
    LET t    == Head(task_order)
        task == available_tasks[t]
    IN  Job(t, task.cp + task.started + 1,
            SmallerOf(reply.left, InstancesAvailable(task, reply.left)))

MoreToHandOut == srv_pc = "handout" /\ reply.left > 0 /\ task_order # <<>>

MutantExhaustedTooLate(available, start) == available < start

Exhausted(available, start) == available <= start

GivenOut(task, start, exhausted) ==
    [task EXCEPT !.cp = task.cp + start,
                 !.is_scheduled = task.is_scheduled /\ ~exhausted]

(* One round: the first task of the deque gives what it can, and leaves    *)
(* the deque when it has nothing left.                                     *)
HandOut ==
    /\ MoreToHandOut
    /\ LET t         == Head(task_order)
           start     == NextJob.num
           exhausted == Exhausted(
               InstancesAvailable(available_tasks[t], reply.left), start)
       IN  /\ available_tasks' =
                  [available_tasks EXCEPT
                      ![t] = GivenOut(available_tasks[t], start, exhausted)]
           /\ task_order' = IF exhausted THEN Tail(task_order) ELSE task_order
           /\ num_instances_in_processing' =
                  num_instances_in_processing + start
           /\ reply' = [to |-> reply.to, left |-> reply.left - start,
                        jobs |-> Append(reply.jobs, NextJob)]
    /\ UNCHANGED <<solution_found, terminated_workers, statistic_send, running,
                   work_units, srv_pc, s2w, s2m>>

(* The answer is sent even when it holds no job.                           *)
SendReply ==
    /\ srv_pc = "handout"
    /\ ~MoreToHandOut
    /\ s2w' = Broadcast({reply.to}, SendInstances(reply.jobs))
    /\ reply' = NoReply
    /\ srv_pc' = "iprobe"
    /\ UNCHANGED <<available_tasks, task_order, num_instances_in_processing,
                   solution_found, terminated_workers, statistic_send, running,
                   work_units, s2m>>

ProcessFoundSolution(task) ==
    /\ srv_pc = "testany"
    /\ solution_found' = TRUE
    /\ SendTermination
    /\ s2m' = Append(s2m, SolutionNotice(task))
    /\ srv_pc' = "iprobe"
    /\ UNCHANGED <<available_tasks, task_order, num_instances_in_processing,
                   statistic_send, running, work_units, reply>>

MutantRescheduleFinishedOnly(task) ==
    ~task.is_scheduled /\ task.n > task.started

(* A task whose instances are not all started goes back to the deque.      *)
Reschedule(task) ==
    /\ ~task.is_scheduled
    /\ \/ ~try_once /\ task.n = 0
       \/ task.n > task.started + task.cp

Count(solved) == IF solved THEN 1 ELSE 0

MutantCountedTwice(task, solved) ==
    [task EXCEPT !.started = task.started + 1,
                 !.times_solved = task.times_solved + Count(solved)]

MutantOnlySolvedCounted(task, solved) ==
    [task EXCEPT !.started = task.started + Count(solved),
                 !.cp = task.cp - 1,
                 !.times_solved = task.times_solved + Count(solved)]

(* One more result in the statistics, one instance less at the workers.    *)
Counted(task, solved) ==
    [task EXCEPT !.started = task.started + 1,
                 !.cp = task.cp - 1,
                 !.times_solved = task.times_solved + Count(solved)]

MutantFinishedWithInstancesOut(order, in_processing) ==
    order = <<>> \/ solution_found

MutantFinishedWithFilesLeft(order, in_processing) == in_processing = 0

(* Nothing left to give out (or no need to), and nothing to wait for.      *)
Finished(order, in_processing) ==
    /\ order = <<>> \/ solution_found
    /\ in_processing = 0

(* DONE_PROCESSING returns one instance of task t: a worker's task is one  *)
(* instance.  The last result there is to wait for makes the server report *)
(* its statistics and send the workers home.                               *)
ProcessDoneProcessing(t, solved) ==
    /\ srv_pc = "testany"
    /\ LET counted == Counted(available_tasks[t], solved)
           again   == Reschedule(counted)
           sched   == counted.is_scheduled \/ again
       IN  /\ available_tasks' =
                  [available_tasks EXCEPT
                      ![t] = [counted EXCEPT !.is_scheduled = sched]]
           /\ task_order' =
                  IF again THEN Append(task_order, t) ELSE task_order
    /\ num_instances_in_processing' = num_instances_in_processing - 1
    /\ IF Finished(task_order', num_instances_in_processing')
       THEN /\ statistic_send' = TRUE
            /\ s2m' = IF statistic_send THEN s2m
                      ELSE s2m \o Statistics(available_tasks')
            /\ SendTermination
       ELSE UNCHANGED <<statistic_send, s2m, terminated_workers, s2w>>
    /\ srv_pc' = "iprobe"
    /\ UNCHANGED <<solution_found, running, work_units, reply>>

MutantStopsWithWorkersLeft(units) ==
    (task_order = <<>> \/ solution_found) /\ statistic_send

(* The server stops when the last worker goes, provided that no work is    *)
(* left (or a solution was found) and the statistics are out.              *)
MayStop(units) ==
    (task_order = <<>> \/ solution_found) /\ units = <<>> /\ statistic_send

(* DISCONNECT: after a barrier with the worker it is erased from every     *)
(* table.                                                                  *)
ProcessDisconnect(index) ==
    /\ srv_pc = "testany"
    /\ work_units' = RemoveAt(work_units, index)
    /\ running' = (running /\ ~MayStop(work_units'))
    /\ srv_pc' = "iprobe"
    /\ UNCHANGED <<available_tasks, task_order, num_instances_in_processing,
                   solution_found, terminated_workers, statistic_send, reply,
                   s2w, s2m>>

-----------------------------------------------------------------------------
(* After the main loop: tell the manager, then wait for it at a barrier.   *)
Leave ==
    /\ srv_pc = "bye"
    /\ s2m' = Append(s2m, DisconnectServer)
    /\ srv_pc' = "disconnecting"
    /\ UNCHANGED <<available_tasks, task_order, num_instances_in_processing,
                   solution_found, terminated_workers, statistic_send, running,
                   work_units, reply, s2w>>
=============================================================================
