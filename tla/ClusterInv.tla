----------------------------- MODULE ClusterInv ------------------------------
(***************************************************************************)
(* The inductive invariant of Cluster, in named parts.  The heart of it is *)
(* Apart: an instance is in one place only, wherever it is on its way from *)
(* GET_INSTANCES through messages, queues and threads back to              *)
(* DONE_PROCESSING.  Hence what a worker returns was out, and every step   *)
(* of the program is one of Scheduler, whose own invariant is a part of    *)
(* this one: without it nobody would know that the next job is new.        *)
(***************************************************************************)
EXTENDS Cluster

(* The history of SchedulerHistory plays no part here: any value will do.  *)
SchedProofs ==
    INSTANCE Scheduler_proofs WITH
        given     <- out,
        FileSizes <- UNION {FileSizesOf(script) : script \in Scripts},
        Requests  <- Nat,
        MaxFiles  <- 2 * Max({Len(script) : script \in Scripts})

-----------------------------------------------------------------------------
(* Types: the commands a channel can hold, and the variables.              *)
JobType == [task : Nat, first : Nat, num : Nat \ {0}]

FromServer ==
    {ActivateWorker, TerminateWorker}
        \cup {SendInstances(jobs) : jobs \in Seq(JobType)}

FromWorker ==
    {DisconnectWorker}
        \cup {GetInstances(num) : num \in Int}
        \cup {FoundSolution(t) : t \in Nat}
        \cup {DoneProcessing(inst, solved) : inst \in Instance,
                                             solved \in BOOLEAN}

FromManager == {AddWorkers, TerminateServer} \cup {AddFile(n) : n \in Nat}

ToManager ==
    {DisconnectServer}
        \cup {SolutionNotice(t) : t \in Nat}
        \cup {Statistic(t, started, solved) : t \in Nat, started \in Nat,
                                              solved \in Nat}

ThreadType == [pc : {"poll", "got", "exec", "store", "exit"}, inst : Instance,
               loaded : Int]

DoneType == [inst : Instance, outcome : Outcomes]

WorkerPc == {"absent", "connect", "activate", "loop", "probe", "await",
             "create", "store", "join", "flush", "barrier", "bye", "gone",
             "aborted"}

WorkerTypes ==
    /\ w_pc \in [Worker -> WorkerPc]
    /\ w_running \in [Worker -> BOOLEAN]
    /\ tasks \in [Worker -> Seq(Instance)]
    /\ tasks_done \in [Worker -> Seq(DoneType)]
    /\ instances_to_get \in [Worker -> Int]
    /\ w_jobs \in [Worker -> Seq(JobType)]
    /\ w_loaded \in [Worker -> Int]
    /\ thread \in [Worker -> [Thread -> ThreadType]]

ChannelTypes ==
    /\ s2w \in [Worker -> Seq(FromServer)]
    /\ w2s \in [Worker -> Seq(FromWorker)]
    /\ s2m \in Seq(ToManager)
    /\ m2s \in Seq(FromManager)
    /\ reply \in [to : Worker \cup {"nobody"}, left : Int, jobs : Seq(JobType)]

ManagerTypes ==
    /\ m_pc \in {"cmd", "add", "add1", "spawn", "add2", "poll", "wait", "bye",
                 "bye_workers", "gone"}
    /\ m_script \in Scripts
    /\ m_input \in Seq(ToSet(m_script))
    /\ default_cmds \in Seq({CmdWaitForServer, CmdExit})
    /\ m_toadd \in Nat
    /\ m_pc \in {"add1", "spawn", "add2"} => m_toadd > 0
    /\ {m_once, m_running, m_solution_found} \subseteq BOOLEAN
    /\ statistic \in [started : Nat, solved : Nat]
    /\ workers \in Seq(Worker)

-----------------------------------------------------------------------------
(* Control of a worker: where its main thread is says what its queues and  *)
(* its solver threads may hold.                                            *)
Threads ==
    \A w \in Worker :
        /\ w_pc[w] \in {"absent", "connect", "activate", "flush", "barrier",
                        "bye", "gone"} =>
               \A i \in Thread : thread[w][i].pc = "exit"
        /\ \A i \in Thread :
               thread[w][i].pc \in {"poll", "store", "exit"} =>
                   thread[w][i].inst = NoInstance
        /\ w_jobs[w] # <<>> => w_pc[w] \in {"create", "store", "aborted"}
        /\ w_pc[w] \in {"create", "store"} => w_jobs[w] # <<>>

(* A worker stops only because it was told to.                             *)
Stopping ==
    \A w \in Worker :
        /\ w_pc[w] \in {"absent", "connect", "loop", "probe", "create",
                        "store"} => w_running[w]
        /\ w_pc[w] \in {"join", "flush", "barrier", "bye", "gone"} =>
               ~w_running[w]
        /\ ~w_running[w] => terminated_workers
        /\ \A i \in DOMAIN s2w[w] :
               s2w[w][i].tag = "TERMINATE" => terminated_workers

NoAnswer(w) == \A i \in DOMAIN s2w[w] : s2w[w][i].tag # "SEND_INSTANCES"

(* A request, the work on it and its answer exclude one another, and while *)
(* there is one of them the worker waits.                                  *)
Requesting ==
    \A w \in Worker :
        /\ \A i \in DOMAIN w2s[w] : w2s[w][i].tag = "GET_INSTANCES" =>
               /\ i = Len(w2s[w])
               /\ w_pc[w] = "await"
               /\ reply.to # w
               /\ NoAnswer(w)
        /\ reply.to = w => w_pc[w] = "await" /\ NoAnswer(w)
        /\ \A i, j \in DOMAIN s2w[w] :
               /\ s2w[w][i].tag = "SEND_INSTANCES" => w_pc[w] = "await"
               /\ /\ s2w[w][i].tag = "SEND_INSTANCES"
                  /\ s2w[w][j].tag = "SEND_INSTANCES"
                  => i = j

-----------------------------------------------------------------------------
(* Where the instances are.                                                *)
Kind == {"reply", "sent", "jobs", "queue", "thread", "done", "returned"}

Replied(w) == IF reply.to = w THEN InstancesOfJobs(reply.jobs) ELSE {}

Done(w) == {tasks_done[w][i].inst : i \in DOMAIN tasks_done[w]}

Held(w) ==
    [k \in Kind |-> CASE k = "reply"    -> Replied(w)
                      [] k = "sent"     -> Sent(w)
                      [] k = "jobs"     -> Unqueued(w)
                      [] k = "queue"    -> ToSet(tasks[w])
                      [] k = "thread"   -> Solving(w)
                      [] k = "done"     -> Done(w)
                      [] k = "returned" -> Returned(w)]

Places == [w \in Worker |-> Held(w)]

(* No two places have an instance in common ...                            *)
ApartIn(places) ==
    \A w1, w2 \in Worker, k1, k2 \in Kind :
        w1 # w2 \/ k1 # k2 => places[w1][k1] \cap places[w2][k2] = {}

Apart == ApartIn(Places)

(* ... and none holds one twice.                                           *)
JobsApart(jobs) ==
    \A i, j \in DOMAIN jobs :
        i # j => InstancesOf(jobs[i]) \cap InstancesOf(jobs[j]) = {}

Once ==
    /\ JobsApart(reply.jobs)
    /\ \A w \in Worker :
        /\ \A i \in DOMAIN s2w[w] :
               s2w[w][i].tag = "SEND_INSTANCES" => JobsApart(s2w[w][i].jobs)
        /\ JobsApart(w_jobs[w])
        /\ \A i, j \in DOMAIN tasks[w] : tasks[w][i] = tasks[w][j] => i = j
        /\ \A i, j \in Thread :
               /\ thread[w][i].inst = thread[w][j].inst
               /\ thread[w][i].inst # NoInstance
               => i = j
        /\ \A i, j \in DOMAIN tasks_done[w] :
               tasks_done[w][i].inst = tasks_done[w][j].inst => i = j
        /\ \A i, j \in DOMAIN w2s[w] :
               /\ w2s[w][i].tag = "DONE_PROCESSING"
               /\ w2s[w][j].tag = "DONE_PROCESSING"
               /\ w2s[w][i].inst = w2s[w][j].inst
               => i = j

(* A thread past get_task has an instance to work on.                      *)
Working ==
    \A w \in Worker, i \in Thread :
        thread[w][i].pc \in {"got", "exec"} => thread[w][i].inst # NoInstance

(* Whatever is somewhere is out, and what is out is somewhere, as long as  *)
(* no worker was told to stop or has died.                                 *)
Lost == terminated_workers \/ \E w \in Worker : w_pc[w] = "aborted"

Accounted ==
    /\ \A w \in Worker, k \in Kind : Places[w][k] \subseteq out
    /\ \A inst \in out : Lost \/ \E w \in Worker, k \in Kind :
                                     inst \in Places[w][k]

-----------------------------------------------------------------------------
(* What Scheduler asks of a solution notice and of the files: their number *)
(* is bounded, as the input is read at most twice.                         *)
SolvedTasks ==
    \A w \in Worker : \A i \in DOMAIN w2s[w] :
        w2s[w][i].tag = "FOUND_SOLUTION" =>
            w2s[w][i].task \in DOMAIN available_tasks

FilesTold == {i \in DOMAIN m2s : m2s[i].tag = "ADD_FILE"}

Files ==
    /\ \A i \in FilesTold : m2s[i].n \in FileSizesOf(m_script)
    /\ Len(available_tasks) + Cardinality(FilesTold) + Len(m_input)
           + (IF m_once THEN Len(m_script) ELSE 0) <= 2 * Len(m_script)

-----------------------------------------------------------------------------
(* Only a request is answered.                                             *)
Serving ==
    /\ srv_pc # "handout" => reply = NoReply
    /\ srv_pc = "handout" => reply.to \in Connected

(* A worker says farewell once, with its last message.                     *)
Farewell ==
    \A w \in Worker :
        /\ \A i \in DOMAIN w2s[w] : w2s[w][i].tag = "DISCONNECT" =>
               i = Len(w2s[w]) /\ w_pc[w] = "barrier"
        /\ w_pc[w] \in {"absent", "connect", "activate"} =>
               tasks_done[w] = <<>>

(* The two barriers of ADD_WORKERS keep manager and server together from   *)
(* one to the other: a new worker connects when the server accepts, or     *)
(* finds that the server has left.                                         *)
Handshake ==
    /\ srv_pc = "enter" => m_pc = "add1"
    /\ srv_pc = "accept" => m_pc \in {"spawn", "add2"}
    /\ srv_pc = "leave" => m_pc = "add2"
    /\ m_pc \in {"spawn", "add2"} => srv_pc \in {"accept", "leave", "gone"}
    /\ \A i \in DOMAIN m2s : m2s[i].tag = "ADD_WORKERS" =>
           \/ srv_pc = "gone"
           \/ i = Len(m2s) /\ m_pc = "add1" /\ srv_pc # "enter"
    /\ \A w \in Worker : w_pc[w] = "connect" =>
           /\ m_pc = "add2" /\ srv_pc \in {"accept", "gone"}
           /\ \A v \in Worker : w_pc[v] = "connect" => v = w

(* The server's list of workers: who is on it, and what is over when it    *)
(* becomes empty.                                                          *)
Connections ==
    /\ \A i, j \in DOMAIN work_units : work_units[i] = work_units[j] => i = j
    /\ \A w \in Worker \ Connected :
           /\ w_pc[w] \in {"absent", "connect", "bye", "gone", "aborted"}
           /\ w2s[w] = <<>>
           /\ w_pc[w] \in {"absent", "connect"} => s2w[w] = <<>>
           /\ w_pc[w] = "aborted" => srv_pc \in {"disconnecting", "gone"}
    /\ \A w \in Connected : w_pc[w] \notin {"absent", "connect", "bye", "gone"}

Leaving ==
    /\ statistic_send => terminated_workers
    /\ ~running => terminated_workers /\ \A w \in Connected : NeverTold(w)
    /\ srv_pc \in {"bye", "disconnecting", "gone"} => ~running

Unused ==
    /\ srv_pc = "aborted" => \A w \in Worker : w_pc[w] = "absent"
    /\ srv_pc = "aborted" \/ (work_units = <<>> /\ ~terminated_workers) =>
           \A t \in DOMAIN available_tasks :
               available_tasks[t].started = 0 /\ available_tasks[t].cp = 0

(* Whoever counts a solution has been told of it before.                   *)
FoundBefore(channel, i) ==
    \E j \in DOMAIN channel : j < i /\ channel[j].tag = "FOUND_SOLUTION"

Solutions ==
    /\ \A w \in Worker : \A i \in DOMAIN w2s[w] :
           w2s[w][i].tag = "DONE_PROCESSING" /\ w2s[w][i].solved =>
               solution_found \/ FoundBefore(w2s[w], i)
    /\ \A t \in DOMAIN available_tasks :
           available_tasks[t].times_solved > 0 => solution_found
    /\ \A i \in DOMAIN s2m :
           /\ s2m[i].tag = "FOUND_SOLUTION" => solution_found
           /\ s2m[i].tag = "SEND_STATISTICS" /\ s2m[i].solved > 0 =>
                  m_solution_found \/ FoundBefore(s2m, i)
    /\ solution_found =>
           m_solution_found \/ FoundBefore(s2m, Len(s2m) + 1)
    /\ m_solution_found => solution_found
    /\ statistic.solved > 0 => m_solution_found

-----------------------------------------------------------------------------
(* The counter of a worker covers what it asked for and is given, even     *)
(* where updates of it get lost: a lost increment leaves it too small only *)
(* by what nobody has asked for yet.                                       *)
Covers(counter, jobs, left) ==
    /\ IsFiniteSet(InstancesOfJobs(jobs))
    /\ Cardinality(InstancesOfJobs(jobs)) + left <= counter

Counter ==
    \A w \in Worker :
        /\ \A i, j \in Thread :
               thread[w][i].pc = "store" /\ thread[w][j].pc = "store" => i = j
        /\ \A i \in Thread : thread[w][i].pc = "store" =>
               thread[w][i].loaded >= instances_to_get[w]
        /\ w_pc[w] = "store" => w_loaded[w] <= instances_to_get[w]
        /\ Covers(IF w_pc[w] = "store" THEN w_loaded[w] ELSE instances_to_get[w],
                  w_jobs[w], 0)
        /\ reply.to = w => Covers(instances_to_get[w], reply.jobs, reply.left)
        /\ \A i \in DOMAIN s2w[w] : s2w[w][i].tag = "SEND_INSTANCES" =>
               Covers(instances_to_get[w], s2w[w][i].jobs, 0)
        /\ \A i \in DOMAIN w2s[w] : w2s[w][i].tag = "GET_INSTANCES" =>
               w2s[w][i].num \in 0 .. instances_to_get[w]

(* A worker whose threads all poll for work has some or will ask for it.   *)
(* A decrement of the counter can undo an increment, but then its tasks    *)
(* still stand in the queue that it locks; an increment leaves at least 1. *)
Provided ==
    \A w \in Worker : (w_pc[w] = "store" => tasks[w] # <<>>) /\ ~Starving(w)

-----------------------------------------------------------------------------
(* The statistics.  Those that the manager has not read yet are of         *)
(* different tasks, and right; its totals are those of all other tasks.    *)
Statistical == {i \in DOMAIN s2m : s2m[i].tag = "SEND_STATISTICS"}

Unreported == {s2m[i].task : i \in Statistical}

Totalled ==
    /\ \A i \in Statistical : LET t == s2m[i].task IN
           /\ t \in DOMAIN available_tasks
           /\ s2m[i].started = available_tasks[t].started
           /\ s2m[i].solved = available_tasks[t].times_solved
    /\ \A i, j \in Statistical : s2m[i].task = s2m[j].task => i = j
    /\ LET reported == DOMAIN available_tasks \ Unreported
       IN  statistic = [started |-> StartedIn(reported),
                        solved  |-> SolvedIn(reported)]

(* A worker that will return nothing: it has nothing, and what it is sent  *)
(* it throws away, as TERMINATE comes first.                               *)
Within == {"jobs", "queue", "thread", "done", "returned"}

Emptied(w) == \A k \in Within : Places[w][k] = {}

TerminateFirst(w) ==
    \A i \in DOMAIN s2w[w] : s2w[w][i].tag = "SEND_INSTANCES" =>
        \/ InstancesOfJobs(s2w[w][i].jobs) = {}
        \/ \E j \in DOMAIN s2w[w] : j < i /\ s2w[w][j].tag = "TERMINATE"

Silent(w) == Emptied(w) /\ (w_running[w] => TerminateFirst(w))

(* The statistics are sent when nothing is out.  What is given out later   *)
(* comes back only from a worker that nobody tells to stop, and as long as *)
(* there is one the server goes on.                                        *)
Reporting ==
    /\ srv_pc \in {"testany", "handout"} => running
    /\ ~running => statistic_send
    /\ \A t \in DOMAIN available_tasks :
           available_tasks[t].started = 0 => available_tasks[t].times_solved = 0
    /\ ~statistic_send => /\ Statistical = {}
                          /\ statistic = [started |-> 0, solved |-> 0]
    /\ statistic_send => \/ running /\ \E w \in Worker : NeverTold(w)
                         \/ Totalled
    /\ statistic_send => \A w \in Worker : NeverTold(w) \/ Silent(w)

-----------------------------------------------------------------------------
Control ==
    /\ WorkerTypes /\ ChannelTypes /\ ManagerTypes
    /\ Threads /\ Stopping /\ Requesting /\ Serving /\ Farewell
    /\ Handshake /\ Connections /\ Leaving /\ Unused /\ Solutions

Flow == Apart /\ Once /\ Working /\ Accounted /\ SolvedTasks

ClusterInvariant ==
    SchedProofs!IInv /\ Control /\ Flow /\ Files /\ Counter /\ Provided
=============================================================================
