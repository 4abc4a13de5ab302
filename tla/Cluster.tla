------------------------------ MODULE Cluster -------------------------------
(***************************************************************************)
(* The whole parallel program: the manager runs a script of commands, the  *)
(* server schedules, the workers solve.  The processes share nothing but   *)
(* channels and barriers.  A step of two processes is a barrier, or the    *)
(* connection of a worker.                                                 *)
(*                                                                         *)
(* `out' is the variable of Scheduler: the instances given out and not     *)
(* returned.  No guard reads it.  That the workers return only what they   *)
(* were given, and only once, is therefore something to check: Cluster     *)
(* implements Scheduler.                                                   *)
(***************************************************************************)
EXTENDS Server, Worker, Manager, FiniteSets

(* What no message names, and an input that comes to an end.               *)
ASSUME ClusterAssumption ==
    /\ "nobody" \notin Worker
    /\ IsFiniteSet(Scripts)

VARIABLE out

vars == <<server_vars, worker_vars, manager_vars, s2w, s2m, out>>

Init == ServerInit /\ WorkerInit /\ ManagerInit /\ out = {}

-----------------------------------------------------------------------------
(* The server's main loop.                                                 *)

IndexOf(w) == CHOOSE i \in DOMAIN work_units : work_units[i] = w

Ready(w) == w \in Connected /\ w2s[w] # <<>>

(* MPI_Testany finds a command of worker w.                                *)
ServeWorker(w) ==
    /\ Ready(w)
    /\ w2s' = [w2s EXCEPT ![w] = Tail(@)]
    /\ LET msg == Head(w2s[w]) IN
       \/ /\ msg.tag = "GET_INSTANCES"
          /\ ProcessGetInstances(w, msg.num)
          /\ UNCHANGED <<out, w_pc>>
       \/ /\ msg.tag = "FOUND_SOLUTION"
          /\ ProcessFoundSolution(msg.task)
          /\ UNCHANGED <<out, w_pc>>
       \/ /\ msg.tag = "DONE_PROCESSING"
          /\ ProcessDoneProcessing(msg.inst[1], msg.solved)
          /\ out' = out \ {msg.inst}
          /\ UNCHANGED w_pc
       \/ /\ msg.tag = "DISCONNECT"
          /\ ProcessDisconnect(IndexOf(w))
          /\ Goto(w, "bye")
          /\ UNCHANGED out
    /\ UNCHANGED <<w_running, tasks, tasks_done, instances_to_get, w_jobs,
                   w_loaded, thread, manager_vars>>

(* MPI_Iprobe finds a command of the manager.                              *)
ServeManager ==
    /\ srv_pc = "testany" => \A w \in Worker : ~Ready(w)
    /\ m2s # <<>>
    /\ m2s' = Tail(m2s)
    /\ LET msg == Head(m2s) IN
       \/ msg.tag = "ADD_FILE" /\ ProcessAddFile(msg.n)
       \/ msg.tag = "ADD_WORKERS" /\ ProcessAddWorkers
       \/ msg.tag = "TERMINATE" /\ ProcessTerminate
    /\ UNCHANGED <<m_pc, input_vars, default_cmds, m_toadd, m_running,
                   m_solution_found, statistic, workers, worker_vars, out>>

ServerAlone ==
    /\ \/ HandOut /\ out' = out \cup InstancesOf(NextJob)
       \/ /\ SendReply \/ Leave \/ (NoManagerCommand /\ m2s = <<>>)
          /\ UNCHANGED out
    /\ UNCHANGED <<worker_vars, manager_vars>>

(* MPI_Comm_connect meets MPI_Comm_accept.                                 *)
Connect(w) ==
    /\ At(w, "connect")
    /\ AcceptWorker(w)
    /\ Goto(w, "activate")
    /\ UNCHANGED <<w2s, w_running, tasks, tasks_done, instances_to_get, w_jobs,
                   w_loaded, thread, manager_vars, out>>

(* The server has unpublished its name: the lookup's assertion aborts.     *)
LookupFails(w) ==
    /\ At(w, "connect")
    /\ srv_pc \in {"disconnecting", "gone"}
    /\ Goto(w, "aborted")
    /\ UNCHANGED <<w2s, w_running, tasks, tasks_done, instances_to_get, w_jobs,
                   w_loaded, thread, server_vars, manager_vars, s2w, s2m, out>>

ServerBarrier ==
    /\ PassManagerBarrier
    /\ PassServerBarrier
    /\ UNCHANGED <<worker_vars, out>>

-----------------------------------------------------------------------------
(* The manager.                                                            *)

ManagerAlone ==
    /\ NextCommand \/ AddNextWorker \/ Rewind \/ Poll \/ WaitForServer
    /\ UNCHANGED <<server_vars, worker_vars, out>>

Spawn(w) ==
    /\ At(w, "absent")
    /\ SpawnWorker(w)
    /\ Goto(w, "connect")
    /\ UNCHANGED <<w2s, w_running, tasks, tasks_done, instances_to_get, w_jobs,
                   w_loaded, thread, server_vars, out>>

WorkerBarrier(w) ==
    /\ At(w, "bye")
    /\ workers # <<>> /\ Head(workers) = w
    /\ PassWorkerBarrier
    /\ Goto(w, "gone")
    /\ UNCHANGED <<w2s, w_running, tasks, tasks_done, instances_to_get, w_jobs,
                   w_loaded, thread, server_vars, out>>

-----------------------------------------------------------------------------
MainAlone(w) ==
    MainThread(w) /\ UNCHANGED <<server_vars, manager_vars, out>>

ThreadAlone(w, i) ==
    SolverThread(w, i) /\ UNCHANGED <<server_vars, manager_vars, out>>

Next ==
    \/ \E w \in Worker : \/ ServeWorker(w) \/ Connect(w) \/ LookupFails(w)
                         \/ Spawn(w) \/ WorkerBarrier(w) \/ MainAlone(w)
                         \/ \E i \in Thread : ThreadAlone(w, i)
    \/ ServeManager \/ ServerAlone \/ ServerBarrier
    \/ ManagerAlone

Spec == Init /\ [][Next]_vars

-----------------------------------------------------------------------------
(* Every thread that can go on goes on: the manager's and the server's,    *)
(* each worker's main thread and its solver threads.  A step of two of     *)
(* them counts for the one that can do nothing else then.  MPI_Testany     *)
(* need not be fair, but a worker sleeps in each round of its loop         *)
(* (worker.cpp:154), so that its channel is empty again and again and the  *)
(* others are found.                                                       *)
ManagerStep ==
    \/ ManagerAlone \/ ServerBarrier
    \/ \E w \in Worker : Spawn(w) \/ WorkerBarrier(w)

Fairness ==
    /\ WF_vars(ManagerStep)
    /\ WF_vars(ServeManager \/ ServerAlone)
    /\ \A w \in Worker :
          /\ SF_vars(ServeWorker(w))
          /\ WF_vars(Connect(w) \/ MainAlone(w))
          /\ \A i \in Thread : WF_vars(ThreadAlone(w, i))

FairSpec == Spec /\ Fairness

-----------------------------------------------------------------------------
(* Threads and processes are always at one of the points the model knows.  *)
TypeOK ==
    /\ w_pc \in [Worker -> {"absent", "connect", "activate", "loop", "probe",
                            "await", "create", "store", "join", "flush",
                            "barrier", "bye", "gone", "aborted"}]
    /\ w_running \in [Worker -> BOOLEAN]
    /\ instances_to_get \in [Worker -> Nat]
    /\ m_pc \in {"cmd", "add", "add1", "spawn", "add2", "poll", "wait", "bye",
                 "bye_workers", "gone"}
    /\ \A w \in Worker, i \in Thread :
           thread[w][i].pc \in {"poll", "got", "exec", "store", "exit"}
    /\ ToSet(workers) \subseteq Worker
    /\ {m_once, m_running, m_solution_found} \subseteq BOOLEAN

(* Where an instance can be between the server's two tables.               *)
Sent(w) ==
    UNION {InstancesOfJobs(s2w[w][i].jobs) :
              i \in {j \in DOMAIN s2w[w] : s2w[w][j].tag = "SEND_INSTANCES"}}

Returned(w) ==
    {w2s[w][i].inst :
        i \in {j \in DOMAIN w2s[w] : w2s[w][j].tag = "DONE_PROCESSING"}}

Unqueued(w) ==
    InstancesOfJobs(IF At(w, "store") THEN Tail(w_jobs[w]) ELSE w_jobs[w])

Solving(w) ==
    {thread[w][i].inst : i \in {j \in Thread : thread[w][j].inst # NoInstance}}

AtWorker(w) ==
    UNION {Sent(w), Unqueued(w), ToSet(tasks[w]), Solving(w),
           {tasks_done[w][i].inst : i \in DOMAIN tasks_done[w]}, Returned(w)}

Traceable == InstancesOfJobs(reply.jobs) \cup UNION {AtWorker(w) : w \in Worker}

(* No instance gets lost on its way through messages, queues and threads,  *)
(* unless its worker was told to stop; and none is anywhere that is not    *)
(* accounted for, so that no result can be counted twice.                  *)
NothingLost ==
    /\ Traceable \subseteq out
    /\ \/ out = Traceable
       \/ terminated_workers
       \/ \E w \in Worker : At(w, "aborted")

(* What the server believes is what Scheduler promises: every step of the  *)
(* program is a step of Scheduler with the same tables and the same `out'. *)
FileSizesOf(script) ==
    {cmd.n : cmd \in {c \in ToSet(script) : c.cmd = "add_file"}}

Sched ==
    INSTANCE Scheduler WITH
        FileSizes <- UNION {FileSizesOf(script) : script \in Scripts},
        Requests  <- 1 .. NumThreads + 3,
        MaxFiles  <- 2 * Max({Len(script) : script \in Scripts})

ImplementsScheduler == Sched!Spec

(* A worker asks for instances only while instances_to_get is above 0.     *)
(* The updates of worker_task.hpp:244 and 311 can overwrite each other,    *)
(* yet never so that a running worker with an empty queue, whose threads   *)
(* all poll for work, wants nothing: it would stand idle to the end.       *)
Starving(w) ==
    /\ w_running[w]
    /\ w_pc[w] \in {"loop", "probe", "await", "create", "store"}
    /\ tasks[w] = <<>>
    /\ \A i \in Thread : thread[w][i].pc \notin {"got", "exec", "store"}
    /\ instances_to_get[w] = 0

NeverStarved == \A w \in Worker : ~Starving(w)

(* The manager hears of a solution before it gets statistics that count    *)
(* one, and it never learns of solutions the server does not know.         *)
SolutionBeforeStatistics ==
    /\ statistic.solved > 0 => m_solution_found
    /\ m_solution_found => solution_found

(* The totals the manager has when the connection to the server ends are   *)
(* the server's: no result came in too late to be reported.                *)
StartedIn(S) == SumFunction([t \in S |-> available_tasks[t].started])

SolvedIn(S) == SumFunction([t \in S |-> available_tasks[t].times_solved])

TotalsComplete ==
    srv_pc = "gone" /\ s2m = <<>> =>
        statistic = [started |-> StartedIn(DOMAIN available_tasks),
                     solved  |-> SolvedIn(DOMAIN available_tasks)]

(* The server leaves only after every worker it accepted has disconnected, *)
(* with nothing unread in their channels.  The one exception is a worker   *)
(* that was accepted when the others had been told to stop (server.hpp:104 *)
(* after 127): nobody tells it.                                            *)
NeverTold(w) ==
    /\ w \in Connected /\ w_running[w]
    /\ TerminateWorker \notin ToSet(s2w[w])

LastToLeave ==
    srv_pc \in {"bye", "disconnecting", "gone"} =>
        \A w \in Worker :
            \/ /\ w_pc[w] \in {"absent", "connect", "bye", "gone", "aborted"}
               /\ w2s[w] = <<>>
            \/ NeverTold(w)

(* The assertion that aborts the server when it is to terminate without a  *)
(* worker (server.hpp:136) destroys no work and strands nobody: there has  *)
(* never been a worker.                                                    *)
AbortsUnused ==
    srv_pc = "aborted" =>
        /\ \A w \in Worker : At(w, "absent")
        /\ \A t \in DOMAIN available_tasks :
               available_tasks[t].started + available_tasks[t].cp = 0

(* A worker disconnects only when its solver threads have ended, so that   *)
(* no result can come after the last one it returned.                      *)
LeavesClean ==
    \A w \in Worker, i \in Thread :
        w_pc[w] \in {"barrier", "bye", "gone"} => thread[w][i].pc = "exit"

(* The search comes to an end.  Without a solution everybody leaves; a     *)
(* solution reaches the user and stops every worker, though the server     *)
(* itself may wait for lost instances then.                                *)
AllGone ==
    /\ m_pc = "gone" /\ srv_pc = "gone"
    /\ \A w \in Worker : w_pc[w] \in {"gone", "absent"}

Announced ==
    /\ m_solution_found
    /\ \A w \in Worker : w_pc[w] \in {"bye", "gone"}

SearchEnds == <>(IF solution_found THEN Announced ELSE AllGone)

-----------------------------------------------------------------------------
(* Statements of the repository that the program does not keep.            *)

(* "Der Manager fuegt dem Server Worker Prozesse hinzu": when the manager  *)
(* spawns a worker, the server waits to accept it.                         *)
SpawnedIsAccepted == m_pc = "spawn" => srv_pc = "accept"

(* "Der Manager weist den Server an zu terminieren"                        *)
TerminateEndsServer == ~m_running ~> srv_pc = "gone"
=============================================================================
