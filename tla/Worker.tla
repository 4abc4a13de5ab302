------------------------------- MODULE Worker -------------------------------
(***************************************************************************)
(* The worker processes (worker.cpp, communication/worker.hpp,             *)
(* worker_task.hpp).  Each has a main thread, which talks to the server,   *)
(* and NumThreads solver threads; they share two queues, each with a mutex *)
(* of its own, and the counter instances_to_get, which is decremented      *)
(* under one of the mutexes and incremented under the other.  An update of *)
(* it is therefore a load and a store with other threads' steps in         *)
(* between, and updates can be lost.                                       *)
(*                                                                         *)
(* An action is what a thread does up to the next point at which another   *)
(* thread or process can notice.  A solver run is abstracted to its        *)
(* outcome: the flips touch nothing that is shared.                        *)
(***************************************************************************)
EXTENDS Messages

CONSTANTS
    NumThreads,      \* NUM_PROBSAT_THREADS_PER_WORKER
    Outcomes         \* what task::execute may end with

ASSUME WorkerAssumption ==
    /\ NumThreads \in Nat \ {0}
    /\ Outcomes \subseteq {"solved", "unsolved", "failed"}

VARIABLES
    w2s,             \* w2s[w]: commands from worker w to the server
    w_pc,            \* where the main thread is
    w_running,       \* the global `running' of the process
    tasks,           \* instances to solve            (task_mutex)
    tasks_done,      \* [inst, outcome] to return     (tasks_done_mutex)
    instances_to_get,
    w_jobs,          \* jobs of the SEND_INSTANCES that create_tasks works on
    w_loaded,        \* instances_to_get as loaded by the main thread
    thread           \* thread[w][i]: [pc, inst, loaded] of a solver thread

worker_vars == <<w2s, w_pc, w_running, tasks, tasks_done, instances_to_get,
                 w_jobs, w_loaded, thread>>

Thread == 1 .. NumThreads

NoInstance == <<0, 0>>

IdleThread(pc) == [pc |-> pc, inst |-> NoInstance, loaded |-> 0]

WorkerInit ==
    /\ w2s = [w \in Worker |-> <<>>]
    /\ w_pc = [w \in Worker |-> "absent"]
    /\ w_running = [w \in Worker |-> TRUE]
    /\ tasks = [w \in Worker |-> <<>>]
    /\ tasks_done = [w \in Worker |-> <<>>]
    /\ instances_to_get = [w \in Worker |-> 0]
    /\ w_jobs = [w \in Worker |-> <<>>]
    /\ w_loaded = [w \in Worker |-> 0]
    /\ thread = [w \in Worker |-> [i \in Thread |-> IdleThread("exit")]]

At(w, pc) == w_pc[w] = pc

Goto(w, pc) == w_pc' = [w_pc EXCEPT ![w] = pc]

Send(w, msgs) == w2s' = [w2s EXCEPT ![w] = @ \o msgs]

(* MPI_Recv of the next command of the server.                             *)
ReceiveFromServer(w) ==
    /\ s2w[w] # <<>>
    /\ s2w' = [s2w EXCEPT ![w] = Tail(@)]

(* TERMINATE only clears `running'.                                        *)
MutantIgnoresTerminate(w, msg) == w_running[w]

RunsAfter(w, msg) == w_running[w] /\ msg.tag # "TERMINATE"

Runs(w, r) == w_running' = [w_running EXCEPT ![w] = r]

(* The head of the main loop, and what follows when it is left.            *)
LoopOrJoin(r) == IF r THEN "loop" ELSE "join"

(* The head of worker_func and of get_task.                                *)
PollOrExit(r) == IF r THEN "poll" ELSE "exit"

-----------------------------------------------------------------------------
(* The main thread.                                                        *)

(* recieve_server_cmd(ACTIVATE_WORKER), then the solver threads start.  A  *)
(* TERMINATE that comes first does not end the wait.                       *)
Activate(w) ==
    /\ At(w, "activate")
    /\ ReceiveFromServer(w)
    /\ LET msg == Head(s2w[w]) IN
       /\ Runs(w, RunsAfter(w, msg))
       /\ IF msg.tag = "ACTIVATE_WORKER"
          THEN /\ Goto(w, LoopOrJoin(w_running[w]))
               /\ instances_to_get' =
                      [instances_to_get EXCEPT ![w] = NumThreads]
               /\ thread' = [thread EXCEPT ![w] =
                     [i \in Thread |-> IdleThread(PollOrExit(w_running[w]))]]
          ELSE UNCHANGED <<w_pc, instances_to_get, thread>>
    /\ UNCHANGED <<w2s, tasks, tasks_done, w_jobs, w_loaded, s2m>>

TasksDoneMutexFree(w) == \A i \in Thread : thread[w][i].pc # "store"

MutantTaskMutexReleased(w) == TRUE

TaskMutexFree(w) == ~At(w, "store")

(* return_task: FOUND_SOLUTION goes out before DONE_PROCESSING.            *)
MutantDoneFirst(done) ==
    <<DoneProcessing(done.inst, done.outcome = "solved")>> \o
    (IF done.outcome = "solved" THEN <<FoundSolution(done.inst[1])>> ELSE <<>>)

MutantDoneTwice(done) ==
    (IF done.outcome = "solved"
     THEN <<FoundSolution(done.inst[1]), DoneProcessing(done.inst, TRUE)>>
     ELSE <<>>)
    \o <<DoneProcessing(done.inst, done.outcome = "solved")>>

ReturnMessages(done) ==
    (IF done.outcome = "solved" THEN <<FoundSolution(done.inst[1])>> ELSE <<>>)
    \o <<DoneProcessing(done.inst, done.outcome = "solved")>>

(* A task that could not be executed makes return_task throw.  In the loop *)
(* the solver threads are not joined then, which ends the process; after   *)
(* the join the exception only skips the rest of the results.              *)
ReturnTask(w) ==
    /\ At(w, "loop") \/ At(w, "flush")
    /\ TasksDoneMutexFree(w)
    /\ tasks_done[w] # <<>>
    /\ tasks_done' = [tasks_done EXCEPT ![w] = Tail(@)]
    /\ IF Head(tasks_done[w]).outcome # "failed"
       THEN Send(w, ReturnMessages(Head(tasks_done[w]))) /\ UNCHANGED w_pc
       ELSE IF At(w, "loop") THEN Goto(w, "aborted") /\ UNCHANGED w2s
            ELSE Goto(w, "barrier") /\ Send(w, <<DisconnectWorker>>)
    /\ UNCHANGED <<w_running, tasks, instances_to_get, w_jobs, w_loaded, thread,
                   s2w, s2m>>

NothingToReturn(w) ==
    /\ At(w, "loop")
    /\ TasksDoneMutexFree(w)
    /\ tasks_done[w] = <<>>
    /\ Goto(w, "probe")
    /\ UNCHANGED <<w2s, w_running, tasks, tasks_done, instances_to_get, w_jobs,
                   w_loaded, thread, s2w, s2m>>

(* MPI_Iprobe and, when instances are wanted, a request for all of them.   *)
(* The probed command is looked at but stays in the channel: TERMINATE is  *)
(* the only one that can be there.                                         *)
Probe(w) ==
    /\ At(w, "probe")
    /\ LET runs == s2w[w] # <<>> => RunsAfter(w, Head(s2w[w]))
           num  == instances_to_get[w]
           ask  == runs /\ num > 0
       IN  /\ Runs(w, runs)
           /\ Send(w, IF ask THEN <<GetInstances(num)>> ELSE <<>>)
           /\ Goto(w, IF ask THEN "await" ELSE LoopOrJoin(runs))
    /\ UNCHANGED <<tasks, tasks_done, instances_to_get, w_jobs, w_loaded,
                   thread, s2w, s2m>>

(* recieve_server_cmd(SEND_INSTANCES): a TERMINATE on the way makes the    *)
(* worker throw away the jobs that follow.                                 *)
Await(w) ==
    /\ At(w, "await")
    /\ ReceiveFromServer(w)
    /\ LET msg  == Head(s2w[w])
           jobs == IF w_running[w] /\ msg.tag = "SEND_INSTANCES" THEN msg.jobs
                   ELSE <<>>
       IN  /\ Runs(w, RunsAfter(w, msg))
           /\ w_jobs' = [w_jobs EXCEPT ![w] = jobs]
           /\ Goto(w, CASE msg.tag # "SEND_INSTANCES" -> "await"
                        [] jobs # <<>> -> "create"
                        [] OTHER       -> LoopOrJoin(w_running[w]))
    /\ UNCHANGED <<w2s, tasks, tasks_done, instances_to_get, w_loaded, thread,
                   s2m>>

MutantOneTaskShort(job) ==
    [k \in 1 .. job.num - 1 |-> <<job.task, job.first + k - 1>>]

TasksOfJob(job) == [k \in 1 .. job.num |-> <<job.task, job.first + k - 1>>]

NextJobOrLoop(w) == IF Len(w_jobs[w]) > 1 THEN "create" ELSE "loop"

MutantTakenTwice(counter, num) == counter - 2 * num

Taken(counter, num) == counter - num

(* create_tasks, one job: push its tasks and load the counter they are     *)
(* taken off.                                                              *)
CreateTasks(w) ==
    /\ At(w, "create")
    /\ tasks' = [tasks EXCEPT ![w] = @ \o TasksOfJob(Head(w_jobs[w]))]
    /\ w_loaded' = [w_loaded EXCEPT ![w] = instances_to_get[w]]
    /\ Goto(w, "store")
    /\ UNCHANGED <<w2s, w_running, tasks_done, instances_to_get, w_jobs, thread,
                   s2w, s2m>>

(* The formula of a job is read before its tasks are made.  The exception  *)
(* of an unreadable one leaves main while the solver threads still run,    *)
(* which ends the process.                                                 *)
UnreadableFormula(w) ==
    /\ At(w, "create")
    /\ "failed" \in Outcomes
    /\ Goto(w, "aborted")
    /\ UNCHANGED <<w2s, w_running, tasks, tasks_done, instances_to_get, w_jobs,
                   w_loaded, thread, s2w, s2m>>

(* The second half of `instances_to_get -= ...', still under task_mutex.   *)
StoreCounter(w) ==
    /\ At(w, "store")
    /\ instances_to_get' = [instances_to_get EXCEPT
           ![w] = Taken(w_loaded[w], Head(w_jobs[w]).num)]
    /\ w_loaded' = [w_loaded EXCEPT ![w] = 0]
    /\ w_jobs' = [w_jobs EXCEPT ![w] = Tail(@)]
    /\ Goto(w, NextJobOrLoop(w))
    /\ UNCHANGED <<w2s, w_running, tasks, tasks_done, thread, s2w, s2m>>

MutantJoinFirstOnly(w) == thread[w][1].pc = "exit"

AllExited(w) == \A i \in Thread : thread[w][i].pc = "exit"

Join(w) ==
    /\ At(w, "join")
    /\ AllExited(w)
    /\ Goto(w, "flush")
    /\ UNCHANGED <<w2s, w_running, tasks, tasks_done, instances_to_get, w_jobs,
                   w_loaded, thread, s2w, s2m>>

(* DISCONNECT, then a barrier with the server.                             *)
Disconnect(w) ==
    /\ At(w, "flush")
    /\ tasks_done[w] = <<>>
    /\ Send(w, <<DisconnectWorker>>)
    /\ Goto(w, "barrier")
    /\ UNCHANGED <<w_running, tasks, tasks_done, instances_to_get, w_jobs,
                   w_loaded, thread, s2w, s2m>>

MainThread(w) ==
    \/ Activate(w) \/ ReturnTask(w) \/ NothingToReturn(w) \/ Probe(w)
    \/ Await(w) \/ CreateTasks(w) \/ UnreadableFormula(w) \/ StoreCounter(w)
    \/ Join(w) \/ Disconnect(w)

-----------------------------------------------------------------------------
(* The solver threads.                                                     *)

SetThread(w, i, t) == thread' = [thread EXCEPT ![w][i] = t]

OnlyThread(w) ==
    /\ w_pc[w] # "aborted"
    /\ UNCHANGED <<w2s, w_pc, w_running, w_jobs, w_loaded, s2w, s2m>>

(* get_task.  It read `running' before it locked the mutex, so that a task *)
(* can still be popped after the worker was told to stop.                  *)
PopTask(w, i) ==
    /\ thread[w][i].pc = "poll"
    /\ TaskMutexFree(w)
    /\ tasks[w] # <<>>
    /\ SetThread(w, i, [pc |-> "got", inst |-> Head(tasks[w]), loaded |-> 0])
    /\ tasks' = [tasks EXCEPT ![w] = Tail(@)]
    /\ OnlyThread(w)
    /\ UNCHANGED <<tasks_done, instances_to_get>>

StopPolling(w, i) ==
    /\ thread[w][i].pc = "poll"
    /\ ~w_running[w]
    /\ SetThread(w, i, IdleThread("exit"))
    /\ OnlyThread(w)
    /\ UNCHANGED <<tasks, tasks_done, instances_to_get>>

(* `if (!running) return' drops the task that was just popped.             *)
StartTask(w, i) ==
    /\ thread[w][i].pc = "got"
    /\ SetThread(w, i, IF w_running[w] THEN [thread[w][i] EXCEPT !.pc = "exec"]
                       ELSE IdleThread("exit"))
    /\ OnlyThread(w)
    /\ UNCHANGED <<tasks, tasks_done, instances_to_get>>

FinishTask(w, i, outcome) ==
    /\ thread[w][i].pc = "exec"
    /\ TasksDoneMutexFree(w)
    /\ tasks_done' = [tasks_done EXCEPT ![w] =
           Append(@, [inst |-> thread[w][i].inst, outcome |-> outcome])]
    /\ SetThread(w, i, [pc |-> "store", inst |-> NoInstance,
                        loaded |-> instances_to_get[w]])
    /\ OnlyThread(w)
    /\ UNCHANGED <<tasks, instances_to_get>>

(* The second half of `instances_to_get++', still under tasks_done_mutex.  *)
StoreIncremented(w, i) ==
    /\ thread[w][i].pc = "store"
    /\ instances_to_get' =
           [instances_to_get EXCEPT ![w] = thread[w][i].loaded + 1]
    /\ SetThread(w, i, IdleThread(PollOrExit(w_running[w])))
    /\ OnlyThread(w)
    /\ UNCHANGED <<tasks, tasks_done>>

SolverThread(w, i) ==
    \/ PopTask(w, i)
    \/ StopPolling(w, i)
    \/ StartTask(w, i)
    \/ \E outcome \in Outcomes : FinishTask(w, i, outcome)
    \/ StoreIncremented(w, i)
=============================================================================
