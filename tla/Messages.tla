------------------------------ MODULE Messages ------------------------------
(***************************************************************************)
(* The commands that manager, server and workers exchange, and the two     *)
(* channels the server writes.  MPI delivers the messages between two      *)
(* processes in the order they were sent (one communicator per pair), so a *)
(* channel is a sequence: the sender appends, the receiver takes the head. *)
(* Sends are eager: a command is a few bytes and MPI_Send buffers it.      *)
(*                                                                         *)
(* An instance is one start assignment of one file.  The program counts    *)
(* instances and never names them; here the k-th one the server hands out  *)
(* of task t is the pair <<t, k>>, so that a lost and a duplicated         *)
(* instance can be told apart.  Tasks are numbered from 1 (the code: 0).   *)
(***************************************************************************)
EXTENDS Integers, Sequences, FiniteSets

CONSTANT Worker      \* the worker processes that can ever be spawned

VARIABLES
    s2w,             \* s2w[w]: commands from the server to worker w
    s2m              \* commands from the server to the manager

Instance == Nat \X Nat

(* A job is num consecutive instances of one task, the first one named.    *)
Job(task, first, num) == [task |-> task, first |-> first, num |-> num]

InstancesOf(job) == {job.task} \X (job.first .. job.first + job.num - 1)

InstancesOfJobs(jobs) == UNION {InstancesOf(jobs[i]) : i \in DOMAIN jobs}

(* Server to worker.                                                       *)
ActivateWorker      == [tag |-> "ACTIVATE_WORKER"]
SendInstances(jobs) == [tag |-> "SEND_INSTANCES", jobs |-> jobs]
TerminateWorker     == [tag |-> "TERMINATE"]

(* Worker to server.                                                       *)
GetInstances(num)            == [tag |-> "GET_INSTANCES", num |-> num]
FoundSolution(task)          == [tag |-> "FOUND_SOLUTION", task |-> task]
DoneProcessing(inst, solved) ==
    [tag |-> "DONE_PROCESSING", inst |-> inst, solved |-> solved]
DisconnectWorker             == [tag |-> "DISCONNECT"]

(* Manager to server.                                                      *)
AddWorkers      == [tag |-> "ADD_WORKERS"]
AddFile(n)      == [tag |-> "ADD_FILE", n |-> n]
TerminateServer == [tag |-> "TERMINATE"]

(* Server to manager.  A statistic carries its task, the instances it      *)
(* counts and how many of them were solved; durations are left out.        *)
SolutionNotice(task) == [tag |-> "FOUND_SOLUTION", task |-> task]
Statistic(task, started, solved) ==
    [tag |-> "SEND_STATISTICS", task |-> task, started |-> started,
     solved |-> solved]
DisconnectServer     == [tag |-> "DISCONNECT"]

(* A loop over tasks visits them by number.                                *)
Nth(S, i) == CHOOSE t \in S : Cardinality({u \in S : u <= t}) = i

(* MPI_Send of one command to every worker of a set.                       *)
Broadcast(ws, msg) ==
    [w \in Worker |-> IF w \in ws THEN Append(s2w[w], msg) ELSE s2w[w]]
=============================================================================
