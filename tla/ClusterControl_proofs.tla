------------------------ MODULE ClusterControl_proofs -------------------------
(***************************************************************************)
(* Types and control of the program: what the variables and channels can   *)
(* hold, where the threads of a worker can be, when a worker is told to    *)
(* stop, and that a request and its answer exclude one another.            *)
(***************************************************************************)
EXTENDS ClusterInv, Data_proofs, FunctionTheorems

-----------------------------------------------------------------------------
(* The commands and their fields.                                          *)
LEMMA ServerMessage ==
    ASSUME NEW m \in FromServer
    PROVE  /\ m.tag \in {"ACTIVATE_WORKER", "TERMINATE", "SEND_INSTANCES"}
           /\ m.tag = "SEND_INSTANCES" => m.jobs \in Seq(JobType)
BY DEF FromServer, ActivateWorker, TerminateWorker, SendInstances

(* What a command of a worker carries (the W2S commands): its tag tells    *)
(* which fields there are.                                                 *)
LEMMA WorkerMessage ==
    ASSUME NEW m \in FromWorker
    PROVE  /\ m.tag \in {"DISCONNECT", "GET_INSTANCES", "FOUND_SOLUTION",
                         "DONE_PROCESSING"}
           /\ m.tag = "GET_INSTANCES" => m.num \in Int
           /\ m.tag = "FOUND_SOLUTION" => m.task \in Nat
           /\ m.tag = "DONE_PROCESSING" => /\ m.inst \in Instance
                                           /\ m.solved \in BOOLEAN
BY DEF FromWorker, DisconnectWorker, GetInstances, FoundSolution,
   DoneProcessing

(* The commands a worker sends are such: return_task and the end of main.  *)
LEMMA WorkerMessages ==
    /\ \A t \in Nat : FoundSolution(t) \in FromWorker
    /\ \A inst \in Instance, solved \in BOOLEAN :
           DoneProcessing(inst, solved) \in FromWorker
    /\ DisconnectWorker \in FromWorker
<1>1. \A t \in Nat : FoundSolution(t) \in {FoundSolution(u) : u \in Nat}
  OBVIOUS
<1>2. \A inst \in Instance, solved \in BOOLEAN :
          DoneProcessing(inst, solved) \in
              {DoneProcessing(i, s) : i \in Instance, s \in BOOLEAN}
  OBVIOUS
<1>. QED  BY <1>1, <1>2 DEF FromWorker

(* The tags of what a worker sends.                                        *)
LEMMA WorkerTags ==
    /\ \A t : FoundSolution(t).tag = "FOUND_SOLUTION"
    /\ \A t : FoundSolution(t).task = t
    /\ \A inst, solved : /\ DoneProcessing(inst, solved).tag = "DONE_PROCESSING"
                         /\ DoneProcessing(inst, solved).inst = inst
                         /\ DoneProcessing(inst, solved).solved = solved
    /\ \A num : GetInstances(num).tag = "GET_INSTANCES"
    /\ \A num : GetInstances(num).num = num
    /\ DisconnectWorker.tag = "DISCONNECT"
BY DEF FoundSolution, DoneProcessing, GetInstances, DisconnectWorker

(* The commands of the manager (the M2S commands); only ADD_FILE has data. *)
LEMMA ManagerMessage ==
    ASSUME NEW m \in FromManager
    PROVE  /\ m.tag \in {"ADD_WORKERS", "TERMINATE", "ADD_FILE"}
           /\ m.tag = "ADD_FILE" => m.n \in Nat
BY DEF FromManager, AddWorkers, TerminateServer, AddFile

(* The commands to the manager (the S2M commands); a statistic carries two *)
(* counts.                                                                 *)
LEMMA MessageToManager ==
    ASSUME NEW m \in ToManager
    PROVE  /\ m.tag \in {"DISCONNECT", "FOUND_SOLUTION", "SEND_STATISTICS"}
           /\ m.tag = "SEND_STATISTICS" => m.started \in Nat /\ m.solved \in Nat
BY DEF ToManager, DisconnectServer, SolutionNotice, Statistic

(* create_tasks: a job becomes one task for each of its instances, in      *)
(* their order.                                                            *)
LEMMA TasksOfJobType ==
    ASSUME NEW job \in JobType
    PROVE  /\ TasksOfJob(job) \in Seq(Instance)
           /\ Len(TasksOfJob(job)) = job.num
           /\ \A k \in 1 .. job.num :
                  TasksOfJob(job)[k] = <<job.task, job.first + k - 1>>
<1>1. \A k \in 1 .. job.num : <<job.task, job.first + k - 1>> \in Instance
  BY DEF Instance, JobType
<1>2. job.num \in Nat
  BY DEF JobType
<1>3. TasksOfJob(job) \in Seq(Instance)
  BY <1>1, <1>2, IsASeq DEF TasksOfJob
<1>. QED  BY <1>2, <1>3, LenProperties DEF TasksOfJob

(* send_statistic_to_manager tells of tasks of the server with the counts  *)
(* the tasks have.                                                         *)
LEMMA StatisticsType ==
    ASSUME NEW T \in Seq(TaskInfo)
    PROVE  /\ Statistics(T) \in Seq(ToManager)
           /\ \A i \in DOMAIN Statistics(T) :
                  \E t \in DOMAIN T :
                      Statistics(T)[i] =
                          Statistic(t, T[t].started, T[t].times_solved)
           /\ \A i, j \in DOMAIN Statistics(T) :
                  Statistics(T)[i].task = Statistics(T)[j].task => i = j
           /\ {Statistics(T)[i].task : i \in DOMAIN Statistics(T)} = Worked(T)
<1>1. DOMAIN T = 1 .. Len(T) /\ Len(T) \in Nat
  BY LenProperties
<1>2. Worked(T) \in SUBSET (1 .. Len(T)) /\ IsFiniteSet(Worked(T))
  <2>1. Worked(T) \in SUBSET (1 .. Len(T))
    BY <1>1 DEF Worked
  <2>2. IsFiniteSet(1 .. Len(T))
    BY <1>1, FS_Interval
  <2>. QED  BY <2>1, <2>2, FS_Subset
<1>3. Cardinality(Worked(T)) \in Nat
  BY <1>2, FS_CardinalityType
<1>4. ASSUME NEW i \in 1 .. Cardinality(Worked(T))
      PROVE  Nth(Worked(T), i) \in DOMAIN T
  <2>1. Worked(T) \in SUBSET Nat
    BY <1>1, <1>2
  <2>2. Nth(Worked(T), i) \in Worked(T)
    BY <1>2, <2>1, NthElement DEF Nth, Ranked
  <2>. QED  BY <1>1, <1>2, <2>2
<1>5. \A t \in DOMAIN T : Statistic(t, T[t].started, T[t].times_solved) \in ToManager
  <2>1. \A t \in DOMAIN T : T[t].started \in Nat /\ T[t].times_solved \in Nat
    <3>1. \A t \in DOMAIN T : T[t] \in TaskInfo
      BY <1>1, ElementOfSeq
    <3>. QED  BY <3>1 DEF TaskInfo
  <2>. QED  BY <1>1, <2>1 DEF ToManager
<1>. DEFINE e(i) == Statistic(Nth(Worked(T), i), T[Nth(Worked(T), i)].started,
                              T[Nth(Worked(T), i)].times_solved)
<1>6. Statistics(T) = [i \in 1 .. Cardinality(Worked(T)) |-> e(i)]
  BY DEF Statistics
<1>7. \A i \in 1 .. Cardinality(Worked(T)) : e(i) \in ToManager
  BY <1>4, <1>5
<1>8. Statistics(T) \in Seq(ToManager)
  <2>. HIDE DEF e
  <2>. QED  BY <1>3, <1>6, <1>7, IsASeq
<1>. DEFINE I == 1 .. Cardinality(Worked(T))
<1>9. /\ \A i, j \in I : e(i).task = e(j).task => i = j
      /\ {e(i).task : i \in I} = Worked(T)
  <2>1. Worked(T) \in SUBSET Nat
    BY <1>1, <1>2
  <2>2. /\ \A i \in I : Nth(Worked(T), i) \in Worked(T)
        /\ \A i, j \in I : Nth(Worked(T), i) = Nth(Worked(T), j) => i = j
        /\ \A t \in Worked(T) : \E i \in I : Nth(Worked(T), i) = t
    BY <1>2, <2>1, NthElement DEF Nth, Ranked
  <2>3. \A i : e(i).task = Nth(Worked(T), i)
    BY DEF Statistic
  <2>. HIDE DEF e, I
  <2>. QED  BY <2>2, <2>3
<1>10. /\ DOMAIN Statistics(T) = I
       /\ \A i \in I : Statistics(T)[i] = e(i)
  BY <1>6
<1>11. \A i \in I : \E t \in DOMAIN T :
           e(i) = Statistic(t, T[t].started, T[t].times_solved)
  BY <1>4
<1>. HIDE DEF e, I
<1>. QED  BY <1>8, <1>9, <1>10, <1>11

(* The files on standard input are such as Scheduler assumes; no script is *)
(* longer than the one that bounds their number.                           *)
LEMMA SchedulerParameters ==
    ASSUME NEW script \in Scripts
    PROVE  /\ SchedProofs!SchedulerAssumption
           /\ Len(script) <= Max({Len(s) : s \in Scripts})
           /\ Max({Len(s) : s \in Scripts}) \in Nat
<1>. DEFINE L == {Len(s) : s \in Scripts}
<1>1. \A s \in Scripts : s \in Seq(Command)
  BY ManagerAssumption
<1>2. L \in SUBSET Nat /\ L # {}
  BY <1>1, LenProperties
<1>3. IsFiniteSet(L)
  <2>. DEFINE len == [s \in Scripts |-> Len(s)]
  <2>1. len \in Surjection(Scripts, L)
    BY DEF Surjection
  <2>. QED  BY <2>1, ClusterAssumption, FS_Surjection
<1>4. Max(L) \in L /\ \A n \in L : n <= Max(L)
  BY <1>2, <1>3, FiniteMax
<1>5. \A s \in Scripts : FileSizesOf(s) \subseteq Nat
  <2>1. ASSUME NEW s \in Scripts, NEW cmd \in ToSet(s), cmd.cmd = "add_file"
        PROVE  cmd.n \in Nat
    <3>1. cmd \in Command
      BY <1>1, <2>1, ElementOfSeq, LenProperties DEF ToSet
    <3>. QED  BY <2>1, <3>1 DEF Command, CmdWaitForServer, CmdExit
  <2>. QED  BY <2>1 DEF FileSizesOf
<1>6. SchedProofs!SchedulerAssumption
  <2>1. UNION {FileSizesOf(s) : s \in Scripts} \subseteq Nat
    BY <1>5
  <2>2. 2 * Max(L) \in Nat
    BY <1>2, <1>4
  <2>. QED  BY <2>1, <2>2, ClusterAssumption
               DEF SchedProofs!SchedulerAssumption
<1>. QED  BY <1>2, <1>4, <1>6

(* What the next round of GET_INSTANCES gives out is new.                  *)
LEMMA NextJobNew ==
    ASSUME SchedProofs!IInv, SchedProofs!SchedulerAssumption, MoreToHandOut
    PROVE  /\ Head(task_order) \in DOMAIN available_tasks
           /\ NextJob \in [task : Nat, first : Nat, num : Nat \ {0}]
           /\ NextJob.num <= reply.left
           /\ InstancesOf(NextJob) \cap out = {}
<1>1. SchedProofs!MoreToHandOut
  BY DEF MoreToHandOut, SchedProofs!MoreToHandOut
<1>2. SchedProofs!NextJob = NextJob
  BY DEF NextJob, SchedProofs!NextJob, Job, SchedProofs!Job, SmallerOf,
         SchedProofs!SmallerOf, InstancesAvailable,
         SchedProofs!InstancesAvailable, try_once, SchedProofs!try_once
<1>3. SchedProofs!InstancesOf(NextJob) = InstancesOf(NextJob)
  BY DEF InstancesOf, SchedProofs!InstancesOf
<1>. QED  BY <1>1, <1>2, <1>3, SchedProofs!NextJobIsNew

-----------------------------------------------------------------------------
(* Types.                                                                  *)
LEMMA MainTypes ==
    ASSUME WorkerTypes, ChannelTypes, Threads, NEW w \in Worker, MainThread(w)
    PROVE  WorkerTypes'
<1>. USE DEF At, Goto, Runs, ReceiveFromServer, WorkerTypes
<1>0. NoInstance \in Instance
  BY DEF NoInstance, Instance
<1>1. CASE Activate(w)
  <2>. DEFINE new == [i \in Thread |-> IdleThread(PollOrExit(w_running[w]))]
  <2>1. new \in [Thread -> ThreadType]
    BY <1>0 DEF IdleThread, ThreadType, PollOrExit
  <2>2. thread' \in [Worker -> [Thread -> ThreadType]]
    <3>1. thread' = [thread EXCEPT ![w] = new] \/ thread' = thread
      BY <1>1 DEF Activate
    <3>. HIDE DEF new
    <3>. QED  BY <2>1, <3>1
  <2>3. w_pc' \in [Worker -> WorkerPc]
    BY <1>1 DEF Activate, LoopOrJoin, WorkerPc
  <2>4. w_running' \in [Worker -> BOOLEAN]
    BY <1>1 DEF Activate, RunsAfter
  <2>5. instances_to_get' \in [Worker -> Int]
    BY <1>1, WorkerAssumption DEF Activate
  <2>6. UNCHANGED <<tasks, tasks_done, w_jobs, w_loaded>>
    BY <1>1 DEF Activate
  <2>. QED  BY <2>2, <2>3, <2>4, <2>5, <2>6
<1>2. CASE ReturnTask(w)
  <2>1. Tail(tasks_done[w]) \in Seq(DoneType)
    <3>1. tasks_done[w] \in Seq(DoneType) /\ tasks_done[w] # <<>>
      BY <1>2 DEF ReturnTask
    <3>. QED  BY <3>1, HeadTailProperties
  <2>2. tasks_done' \in [Worker -> Seq(DoneType)]
    BY <1>2, <2>1 DEF ReturnTask
  <2>3. w_pc' \in [Worker -> WorkerPc]
    BY <1>2 DEF ReturnTask, WorkerPc
  <2>4. UNCHANGED <<w_running, tasks, instances_to_get, w_jobs, w_loaded,
                    thread>>
    BY <1>2 DEF ReturnTask
  <2>. QED  BY <2>2, <2>3, <2>4
<1>3. CASE NothingToReturn(w)
  BY <1>3 DEF NothingToReturn, WorkerPc
<1>4. CASE Probe(w)
  BY <1>4 DEF Probe, LoopOrJoin, RunsAfter, WorkerPc
<1>5. CASE Await(w)
  <2>1. Head(s2w[w]) \in FromServer
    BY <1>5 DEF Await, ChannelTypes
  <2>2. w_jobs' \in [Worker -> Seq(JobType)]
    BY <1>5, <2>1, ServerMessage DEF Await
  <2>3. w_pc' \in [Worker -> WorkerPc]
    BY <1>5 DEF Await, LoopOrJoin, WorkerPc
  <2>4. w_running' \in [Worker -> BOOLEAN]
    BY <1>5 DEF Await, RunsAfter
  <2>5. UNCHANGED <<tasks, tasks_done, instances_to_get, w_loaded, thread>>
    BY <1>5 DEF Await
  <2>. QED  BY <2>2, <2>3, <2>4, <2>5
<1>6. CASE CreateTasks(w)
  <2>1. /\ w_jobs[w] \in Seq(JobType) /\ w_jobs[w] # <<>>
        /\ Head(w_jobs[w]) \in JobType
        /\ Tail(w_jobs[w]) \in Seq(JobType)
    BY <1>6 DEF CreateTasks, Threads
  <2>2. tasks[w] \o TasksOfJob(Head(w_jobs[w])) \in Seq(Instance)
    BY <2>1, TasksOfJobType, ConcatProperties
  <2>3. tasks' \in [Worker -> Seq(Instance)]
    BY <1>6, <2>2 DEF CreateTasks
  <2>4. Head(w_jobs[w]).num \in Int
    BY <2>1 DEF JobType
  <2>5. w_jobs' \in [Worker -> Seq(JobType)]
    BY <1>6, <2>1 DEF CreateTasks
  <2>6. /\ instances_to_get' \in [Worker -> Int]
        /\ w_loaded' \in [Worker -> Int]
    BY <1>6, <2>4 DEF CreateTasks, Taken
  <2>7. w_pc' \in [Worker -> WorkerPc]
    BY <1>6 DEF CreateTasks, NextJobOrLoop, WorkerPc
  <2>8. UNCHANGED <<w_running, tasks_done, thread>>
    BY <1>6 DEF CreateTasks
  <2>. QED  BY <2>3, <2>5, <2>6, <2>7, <2>8
<1>7. CASE UnreadableFormula(w)
  BY <1>7 DEF UnreadableFormula, WorkerPc
<1>8. CASE StoreCounter(w)
  <2>1. /\ w_jobs[w] \in Seq(JobType) /\ w_jobs[w] # <<>>
        /\ Head(w_jobs[w]) \in JobType
        /\ Tail(w_jobs[w]) \in Seq(JobType)
    BY <1>8 DEF StoreCounter, Threads
  <2>2. Head(w_jobs[w]).num \in Int
    BY <2>1 DEF JobType
  <2>3. w_jobs' \in [Worker -> Seq(JobType)]
    BY <1>8, <2>1 DEF StoreCounter
  <2>4. /\ instances_to_get' \in [Worker -> Int]
        /\ w_loaded' \in [Worker -> Int]
    BY <1>8, <2>2 DEF StoreCounter, Taken
  <2>5. w_pc' \in [Worker -> WorkerPc]
    BY <1>8 DEF StoreCounter, NextJobOrLoop, WorkerPc
  <2>6. UNCHANGED <<w_running, tasks, tasks_done, thread>>
    BY <1>8 DEF StoreCounter
  <2>. QED  BY <2>3, <2>4, <2>5, <2>6
<1>9. CASE Join(w)
  BY <1>9 DEF Join, WorkerPc
<1>10. CASE Disconnect(w)
  BY <1>10 DEF Disconnect, WorkerPc
<1>. QED  BY <1>1, <1>2, <1>3, <1>4, <1>5, <1>6, <1>7, <1>8, <1>9, <1>10
          DEF MainThread

(* A solver thread's step in worker_func keeps the types of its worker.    *)
LEMMA SolverTypes ==
    ASSUME WorkerTypes, NEW w \in Worker, NEW i \in Thread, SolverThread(w, i)
    PROVE  WorkerTypes'
<1>. USE DEF OnlyThread
<1>1. /\ NoInstance \in Instance
      /\ \A pc \in {"poll", "exit"} : IdleThread(pc) \in ThreadType
      /\ \A r : PollOrExit(r) \in {"poll", "exit"}
      /\ thread[w][i] \in ThreadType
  BY DEF NoInstance, Instance, IdleThread, ThreadType, PollOrExit, WorkerTypes
<1>2. ASSUME NEW t \in ThreadType, SetThread(w, i, t)
      PROVE  thread' \in [Worker -> [Thread -> ThreadType]]
  BY <1>2 DEF SetThread, WorkerTypes
<1>3. CASE PopTask(w, i)
  <2>1. tasks[w] \in Seq(Instance) /\ tasks[w] # <<>>
    BY <1>3 DEF PopTask, WorkerTypes
  <2>2. Head(tasks[w]) \in Instance /\ Tail(tasks[w]) \in Seq(Instance)
    BY <2>1, HeadTailProperties
  <2>3. tasks' \in [Worker -> Seq(Instance)]
    BY <1>3, <2>2 DEF PopTask, WorkerTypes
  <2>4. [pc |-> "got", inst |-> Head(tasks[w]), loaded |-> 0] \in ThreadType
    BY <2>2 DEF ThreadType
  <2>5. thread' \in [Worker -> [Thread -> ThreadType]]
    BY <1>2, <1>3, <2>4 DEF PopTask
  <2>. QED  BY <1>3, <2>3, <2>5 DEF PopTask, WorkerTypes
<1>4. CASE StopPolling(w, i)
  <2>1. thread' \in [Worker -> [Thread -> ThreadType]]
    BY <1>1, <1>2, <1>4 DEF StopPolling
  <2>. QED  BY <1>4, <2>1 DEF StopPolling, WorkerTypes
<1>5. CASE StartTask(w, i)
  <2>1. [thread[w][i] EXCEPT !.pc = "exec"] \in ThreadType
    BY <1>1 DEF ThreadType
  <2>2. thread' \in [Worker -> [Thread -> ThreadType]]
    BY <1>1, <1>2, <1>5, <2>1 DEF StartTask
  <2>. QED  BY <1>5, <2>2 DEF StartTask, WorkerTypes
<1>6. ASSUME NEW outcome \in Outcomes, FinishTask(w, i, outcome)
      PROVE  WorkerTypes'
  <2>. DEFINE done == [inst |-> thread[w][i].inst, outcome |-> outcome]
              load == [pc |-> "store", inst |-> NoInstance,
                       loaded |-> instances_to_get[w]]
  <2>1. done \in DoneType
    BY <1>1 DEF DoneType, ThreadType
  <2>2. instances_to_get[w] \in Int /\ tasks_done[w] \in Seq(DoneType)
    BY DEF WorkerTypes
  <2>3. load \in ThreadType
    BY <1>1, <2>2 DEF ThreadType
  <2>4. tasks_done' \in [Worker -> Seq(DoneType)]
    <3>1. tasks_done' = [tasks_done EXCEPT ![w] = Append(tasks_done[w], done)]
      BY <1>6 DEF FinishTask
    <3>2. Append(tasks_done[w], done) \in Seq(DoneType)
      BY <2>1, <2>2, AppendProperties
    <3>. HIDE DEF done
    <3>. QED  BY <3>1, <3>2 DEF WorkerTypes
  <2>5. thread' \in [Worker -> [Thread -> ThreadType]]
    <3>1. SetThread(w, i, load)
              \/ SetThread(w, i, IdleThread(PollOrExit(w_running[w])))
      BY <1>6 DEF FinishTask
    <3>. HIDE DEF load
    <3>. QED  BY <1>1, <1>2, <2>3, <3>1
  <2>6. instances_to_get' \in [Worker -> Int]
    BY <1>6, <2>2 DEF FinishTask, WorkerTypes
  <2>. QED  BY <1>6, <2>4, <2>5, <2>6 DEF FinishTask, WorkerTypes
<1>7. CASE StoreIncremented(w, i)
  <2>1. thread' \in [Worker -> [Thread -> ThreadType]]
    BY <1>1, <1>2, <1>7 DEF StoreIncremented
  <2>2. instances_to_get' \in [Worker -> Int]
    BY <1>1, <1>7 DEF StoreIncremented, ThreadType, WorkerTypes
  <2>. QED  BY <1>7, <2>1, <2>2 DEF StoreIncremented, WorkerTypes
<1>. QED  BY <1>3, <1>4, <1>5, <1>6, <1>7 DEF SolverThread

(* What the solver threads, the manager and the other workers leave alone. *)
LEMMA SolverLeaves ==
    ASSUME NEW w \in Worker, NEW i \in Thread, SolverThread(w, i)
    PROVE  UNCHANGED <<w2s, w_pc, w_running, w_jobs, w_loaded, s2w, s2m>>
BY DEF SolverThread, PopTask, StopPolling, StartTask, FinishTask,
       StoreIncremented, OnlyThread

(* What the server, the manager and the connection of a worker change of   *)
(* the workers: where one of them is, in five places.                      *)
LEMMA OtherSteps ==
    ASSUME Next
    PROVE  \/ \E w \in Worker : MainAlone(w)
           \/ \E w \in Worker, i \in Thread : ThreadAlone(w, i)
           \/ /\ UNCHANGED <<w_running, tasks, tasks_done, instances_to_get,
                             w_jobs, w_loaded, thread>>
              /\ \/ UNCHANGED w_pc
                 \/ \E w \in Worker :
                        \/ /\ Spawn(w) /\ w_pc[w] = "absent"
                           /\ Goto(w, "connect")
                        \/ /\ Connect(w) /\ w_pc[w] = "connect"
                           /\ Goto(w, "activate")
                        \/ /\ LookupFails(w) /\ w_pc[w] = "connect"
                           /\ Goto(w, "aborted")
                        \/ /\ WorkerBarrier(w) /\ w_pc[w] = "bye"
                           /\ Goto(w, "gone")
                        \/ /\ ServeWorker(w) /\ Ready(w)
                           /\ Head(w2s[w]).tag = "DISCONNECT"
                           /\ Goto(w, "bye")
<1>1. CASE ServeManager
  BY <1>1 DEF ServeManager, worker_vars
<1>2. CASE ServerAlone \/ ManagerAlone \/ ServerBarrier
  BY <1>2 DEF ServerAlone, ManagerAlone, ServerBarrier, worker_vars
<1>3. ASSUME NEW w \in Worker, ServeWorker(w)
      PROVE  /\ UNCHANGED <<w_running, tasks, tasks_done, instances_to_get,
                            w_jobs, w_loaded, thread>>
             /\ \/ UNCHANGED w_pc
                \/ /\ Ready(w) /\ Head(w2s[w]).tag = "DISCONNECT"
                   /\ Goto(w, "bye")
  BY <1>3 DEF ServeWorker
<1>4. ASSUME NEW w \in Worker,
             Connect(w) \/ LookupFails(w) \/ Spawn(w) \/ WorkerBarrier(w)
      PROVE  /\ UNCHANGED <<w_running, tasks, tasks_done, instances_to_get,
                            w_jobs, w_loaded, thread>>
             /\ \/ Spawn(w) /\ w_pc[w] = "absent" /\ Goto(w, "connect")
                \/ Connect(w) /\ w_pc[w] = "connect" /\ Goto(w, "activate")
                \/ LookupFails(w) /\ w_pc[w] = "connect" /\ Goto(w, "aborted")
                \/ WorkerBarrier(w) /\ w_pc[w] = "bye" /\ Goto(w, "gone")
  BY <1>4 DEF Connect, LookupFails, Spawn, WorkerBarrier, At
<1>. QED  BY <1>1, <1>2, <1>3, <1>4 DEF Next

(* No step of any process gives a worker's state another type.             *)
LEMMA WorkerTypesKept ==
    ASSUME WorkerTypes, ChannelTypes, Threads, Next
    PROVE  WorkerTypes'
<1>1. ASSUME NEW w \in Worker, NEW pc \in WorkerPc, Goto(w, pc)
      PROVE  w_pc' \in [Worker -> WorkerPc]
  BY <1>1 DEF Goto, WorkerTypes
<1>2. {"connect", "activate", "aborted", "gone", "bye"} \subseteq WorkerPc
  BY DEF WorkerPc
<1>3. ASSUME UNCHANGED <<w_running, tasks, tasks_done, instances_to_get,
                         w_jobs, w_loaded, thread>>
      PROVE  w_pc' \in [Worker -> WorkerPc] => WorkerTypes'
  BY <1>3 DEF WorkerTypes
<1>4. w_pc' = w_pc => w_pc' \in [Worker -> WorkerPc]
  BY DEF WorkerTypes
<1>. QED
  BY <1>1, <1>2, <1>3, <1>4, MainTypes, SolverTypes, OtherSteps
  DEF MainAlone, ThreadAlone

(* Where a worker's main thread is says what its queues and threads hold.  *)
LEMMA ThreadsKept ==
    ASSUME WorkerTypes, ChannelTypes, Threads, Farewell, Next
    PROVE  Threads'
<1>. USE DEF Threads
<1>1. ASSUME NEW w \in Worker, MainThread(w)
      PROVE  Threads'
  <2>. USE DEF At, Goto, ReceiveFromServer, LoopOrJoin, WorkerTypes
  <2>1. CASE Activate(w)
    <3>1. \A v \in Worker \ {w} : w_pc'[v] = w_pc[v] /\ thread'[v] = thread[v]
      BY <2>1 DEF Activate
    <3>2. w_jobs' = w_jobs /\ w_jobs[w] = <<>>
      BY <2>1 DEF Activate
    <3>3. w_pc'[w] \in {"activate", "loop", "join"}
      BY <2>1 DEF Activate
    <3>4. \A i \in Thread :
              /\ w_pc'[w] = "activate" => thread'[w][i] = thread[w][i]
              /\ thread'[w][i].inst = NoInstance
      <4>1. CASE Head(s2w[w]).tag = "ACTIVATE_WORKER"
        <5>1. \A i \in Thread : thread'[w][i] = IdleThread(PollOrExit(w_running[w]))
          BY <2>1, <4>1 DEF Activate
        <5>. QED  BY <2>1, <4>1, <5>1 DEF Activate, IdleThread
      <4>2. CASE Head(s2w[w]).tag # "ACTIVATE_WORKER"
        BY <2>1, <4>2 DEF Activate
      <4>. QED  BY <4>1, <4>2
    <3>5. w_pc[w] = "activate"
      BY <2>1 DEF Activate
    <3>. HIDE DEF WorkerTypes, At, Goto, ReceiveFromServer, LoopOrJoin
    <3>. QED  BY <3>1, <3>2, <3>3, <3>4, <3>5
  <2>2. CASE ReturnTask(w)
    BY <2>2 DEF ReturnTask
  <2>3. CASE NothingToReturn(w)
    BY <2>3 DEF NothingToReturn
  <2>4. CASE Probe(w)
    BY <2>4 DEF Probe
  <2>5. CASE Await(w)
    BY <2>5 DEF Await
  <2>6. CASE CreateTasks(w)
    BY <2>6 DEF CreateTasks, NextJobOrLoop
  <2>7. CASE UnreadableFormula(w)
    BY <2>7 DEF UnreadableFormula
  <2>8. CASE StoreCounter(w)
    <3>1. /\ w_jobs[w] \in Seq(JobType) /\ w_jobs[w] # <<>>
          /\ Tail(w_jobs[w]) # <<>> <=> Len(w_jobs[w]) > 1
      BY <2>8, FirstOfSeq DEF StoreCounter
    <3>2. /\ w_jobs'[w] = Tail(w_jobs[w])
          /\ w_pc'[w] = IF Len(w_jobs[w]) > 1 THEN "create" ELSE "loop"
          /\ UNCHANGED thread
          /\ \A v \in Worker \ {w} : w_jobs'[v] = w_jobs[v] /\ w_pc'[v] = w_pc[v]
      BY <2>8 DEF StoreCounter, NextJobOrLoop
    <3>3. /\ w_pc'[w] = "create" => w_jobs'[w] # <<>>
          /\ w_pc'[w] = "loop" => w_jobs'[w] = <<>>
      BY <3>1, <3>2
    <3>. QED  BY <2>8, <3>2, <3>3 DEF StoreCounter
  <2>9. CASE Join(w)
    BY <2>9 DEF Join, AllExited
  <2>10. CASE Disconnect(w)
    BY <2>10 DEF Disconnect
  <2>. QED  BY <1>1, <2>1, <2>2, <2>3, <2>4, <2>5, <2>6, <2>7, <2>8, <2>9,
               <2>10 DEF MainThread
<1>2. ASSUME NEW w \in Worker, NEW i \in Thread, SolverThread(w, i)
      PROVE  Threads'
  <2>. USE DEF OnlyThread, SetThread, IdleThread, PollOrExit, WorkerTypes
  <2>1. CASE PopTask(w, i)
    BY <2>1 DEF PopTask
  <2>2. CASE StopPolling(w, i)
    BY <2>2 DEF StopPolling
  <2>3. CASE StartTask(w, i)
    BY <2>3 DEF StartTask, ThreadType
  <2>4. ASSUME NEW outcome \in Outcomes, FinishTask(w, i, outcome)
        PROVE  Threads'
    <3>1. /\ thread[w][i].pc = "exec"
          /\ UNCHANGED <<w_pc, w_jobs>>
          /\ \A v \in Worker, j \in Thread :
                 v # w \/ j # i => thread'[v][j] = thread[v][j]
      BY <2>4 DEF FinishTask
    <3>2. thread'[w][i].inst = NoInstance
      BY <2>4 DEF FinishTask
    <3>. HIDE DEF WorkerTypes, OnlyThread, SetThread, IdleThread, PollOrExit
    <3>3. /\ \A j \in Thread :
                 thread'[w][j].pc \in {"poll", "store", "exit"} =>
                     thread'[w][j].inst = NoInstance
          /\ w_pc[w] \notin {"absent", "connect", "activate", "flush",
                             "barrier", "bye", "gone"}
      BY <3>1, <3>2
    <3>4. \A v \in Worker \ {w} : \A j \in Thread : thread'[v][j] = thread[v][j]
      BY <3>1
    <3>. QED  BY <3>1, <3>3, <3>4
  <2>5. CASE StoreIncremented(w, i)
    BY <2>5 DEF StoreIncremented
  <2>. QED  BY <1>2, <2>1, <2>2, <2>3, <2>4, <2>5 DEF SolverThread
<1>3. ASSUME UNCHANGED <<w_jobs, thread>>,
             \/ UNCHANGED w_pc
             \/ \E w \in Worker :
                    \/ w_pc[w] = "absent" /\ Goto(w, "connect")
                    \/ w_pc[w] = "connect" /\ Goto(w, "activate")
                    \/ w_pc[w] = "connect" /\ Goto(w, "aborted")
                    \/ w_pc[w] = "bye" /\ Goto(w, "gone")
                    \/ w_pc[w] = "barrier" /\ Goto(w, "bye")
      PROVE  Threads'
  BY <1>3 DEF Goto, WorkerTypes
<1>4. \A w \in Worker : Ready(w) /\ Head(w2s[w]).tag = "DISCONNECT" =>
          w_pc[w] = "barrier"
  BY FirstOfSeq DEF Farewell, Ready, ChannelTypes
<1>. QED  BY <1>1, <1>2, <1>3, <1>4, OtherSteps DEF MainAlone, ThreadAlone

-----------------------------------------------------------------------------
(* The channels: who appends what, and who takes the first message.        *)
LEMMA BroadcastEffect ==
    ASSUME NEW ws, NEW msg, s2w' = Broadcast(ws, msg), NEW w \in Worker
    PROVE  \/ s2w'[w] = s2w[w]
           \/ w \in ws /\ s2w'[w] = Append(s2w[w], msg)
BY DEF Broadcast

(* Every way in which a command gets to a worker or is received there:     *)
(* recieve_server_cmd takes, activation, termination and the answer to     *)
(* GET_INSTANCES append.                                                   *)
LEMMA ToWorkersForms ==
    ASSUME Next
    PROVE  \/ UNCHANGED s2w
           \/ \E w \in Worker :
                  /\ MainAlone(w) /\ w_pc[w] \in {"activate", "await"}
                  /\ s2w[w] # <<>> /\ s2w' = [s2w EXCEPT ![w] = Tail(s2w[w])]
           \/ \E ws : s2w' = Broadcast(ws, ActivateWorker)
           \/ /\ ~terminated_workers /\ terminated_workers'
              /\ \E ws : s2w' = Broadcast(ws, TerminateWorker)
           \/ /\ srv_pc = "handout" /\ ServerAlone /\ SendReply
              /\ s2w' = Broadcast({reply.to}, SendInstances(reply.jobs))
<1>1. CASE ServeManager
  BY <1>1 DEF ServeManager, ProcessAddFile, ProcessAddWorkers,
              ProcessTerminate, SendTermination
<1>2. ASSUME NEW v \in Worker, ServeWorker(v)
      PROVE  \/ UNCHANGED s2w
             \/ /\ ~terminated_workers /\ terminated_workers'
                /\ s2w' = Broadcast(Connected, TerminateWorker)
  BY <1>2 DEF ServeWorker, ProcessGetInstances, ProcessFoundSolution,
              ProcessDoneProcessing, ProcessDisconnect, SendTermination
<1>3. ASSUME ServerAlone
      PROVE  \/ UNCHANGED s2w
             \/ /\ srv_pc = "handout" /\ SendReply
                /\ s2w' = Broadcast({reply.to}, SendInstances(reply.jobs))
  BY <1>3 DEF ServerAlone, HandOut, SendReply, Leave, NoManagerCommand
<1>4. CASE ServerBarrier \/ ManagerAlone
  BY <1>4 DEF ServerBarrier, PassManagerBarrier, ManagerAlone, server_vars,
              NextCommand, AddNextWorker, Rewind, Poll, WaitForServer,
              ProcessServerCommand
<1>5. ASSUME NEW v \in Worker,
             Connect(v) \/ LookupFails(v) \/ Spawn(v) \/ WorkerBarrier(v)
      PROVE  s2w' = s2w \/ s2w' = Broadcast({v}, ActivateWorker)
  BY <1>5 DEF Connect, AcceptWorker, LookupFails, Spawn, SpawnWorker,
              WorkerBarrier, PassWorkerBarrier
<1>6. ASSUME NEW v \in Worker, MainThread(v)
      PROVE  \/ UNCHANGED s2w
             \/ /\ w_pc[v] \in {"activate", "await"} /\ s2w[v] # <<>>
                /\ s2w' = [s2w EXCEPT ![v] = Tail(s2w[v])]
  BY <1>6 DEF MainThread, Activate, ReturnTask, NothingToReturn, Probe, Await,
              CreateTasks, UnreadableFormula, StoreCounter, Join, Disconnect,
              ReceiveFromServer, At
<1>7. ASSUME NEW v \in Worker, NEW i \in Thread, SolverThread(v, i)
      PROVE  s2w' = s2w
  BY <1>7 DEF SolverThread, PopTask, StopPolling, StartTask, FinishTask,
              StoreIncremented, OnlyThread
<1>. QED
  BY <1>1, <1>2, <1>3, <1>4, <1>5, <1>6, <1>7
  DEF Next, MainAlone, ThreadAlone

(* The same, seen from one worker's channel.                               *)
LEMMA ToWorkers ==
    ASSUME Next, ChannelTypes, NEW w \in Worker
    PROVE  \/ s2w'[w] = s2w[w]
           \/ /\ MainAlone(w) /\ w_pc[w] \in {"activate", "await"}
              /\ s2w[w] # <<>> /\ s2w'[w] = Tail(s2w[w])
           \/ s2w'[w] = Append(s2w[w], ActivateWorker)
           \/ /\ ~terminated_workers /\ terminated_workers'
              /\ s2w'[w] = Append(s2w[w], TerminateWorker)
           \/ /\ srv_pc = "handout" /\ ServerAlone /\ SendReply /\ w = reply.to
              /\ s2w'[w] = Append(s2w[w], SendInstances(reply.jobs))
BY ToWorkersForms, BroadcastEffect DEF ChannelTypes

(* Every way in which a worker's channel to the server changes: the server *)
(* takes the head, the worker's main thread appends.                       *)
LEMMA FromWorkersForms ==
    ASSUME Next
    PROVE  \/ UNCHANGED w2s
           \/ \E w \in Worker :
                  \/ /\ ServeWorker(w) /\ w2s[w] # <<>>
                     /\ w2s' = [w2s EXCEPT ![w] = Tail(w2s[w])]
                  \/ /\ MainAlone(w)
                     /\ ReturnTask(w) \/ Probe(w) \/ Disconnect(w)
                     /\ \E msgs : w2s' = [w2s EXCEPT ![w] = w2s[w] \o msgs]
<1>1. CASE ServeManager \/ ServerAlone \/ ServerBarrier \/ ManagerAlone
  BY <1>1 DEF ServeManager, ServerAlone, ServerBarrier, ManagerAlone,
              worker_vars
<1>2. ASSUME NEW v \in Worker,
             Connect(v) \/ LookupFails(v) \/ Spawn(v) \/ WorkerBarrier(v)
      PROVE  w2s' = w2s
  BY <1>2 DEF Connect, LookupFails, Spawn, WorkerBarrier
<1>3. ASSUME NEW v \in Worker, ServeWorker(v)
      PROVE  w2s[v] # <<>> /\ w2s' = [w2s EXCEPT ![v] = Tail(w2s[v])]
  BY <1>3 DEF ServeWorker, Ready
<1>4. ASSUME NEW v \in Worker, MainThread(v)
      PROVE  \/ UNCHANGED w2s
             \/ /\ ReturnTask(v) \/ Probe(v) \/ Disconnect(v)
                /\ \E msgs : w2s' = [w2s EXCEPT ![v] = w2s[v] \o msgs]
  <2>1. CASE ReturnTask(v) \/ Probe(v) \/ Disconnect(v)
    BY <2>1 DEF ReturnTask, Probe, Disconnect, Send
  <2>2. CASE ~(ReturnTask(v) \/ Probe(v) \/ Disconnect(v))
    BY <1>4, <2>2 DEF MainThread, Activate, NothingToReturn, Await,
                      CreateTasks, UnreadableFormula, StoreCounter, Join
  <2>. QED  BY <2>1, <2>2
<1>5. ASSUME NEW v \in Worker, NEW i \in Thread, SolverThread(v, i)
      PROVE  w2s' = w2s
  BY <1>5 DEF SolverThread, PopTask, StopPolling, StartTask, FinishTask,
              StoreIncremented, OnlyThread
<1>. QED
  BY <1>1, <1>2, <1>3, <1>4, <1>5 DEF Next, MainAlone, ThreadAlone

(* The same, seen from one worker's channel.                               *)
LEMMA FromWorkers ==
    ASSUME Next, ChannelTypes, NEW w \in Worker
    PROVE  \/ w2s'[w] = w2s[w]
           \/ ServeWorker(w) /\ w2s[w] # <<>> /\ w2s'[w] = Tail(w2s[w])
           \/ MainAlone(w) /\ (ReturnTask(w) \/ Probe(w) \/ Disconnect(w))
BY FromWorkersForms DEF ChannelTypes

(* What a worker sends: results with the news of a solution before them,   *)
(* a request, a farewell.                                                  *)
LEMMA WorkerSends ==
    ASSUME WorkerTypes, ChannelTypes, NEW w \in Worker,
           ReturnTask(w) \/ Probe(w) \/ Disconnect(w),
           NEW n, n = Len(w2s[w]), NEW done, done = Head(tasks_done[w])
    PROVE  /\ n \in Nat /\ DOMAIN w2s[w] = 1 .. n
           /\ w2s'[w] \in Seq(FromWorker)
           /\ \A i \in 1 .. n : w2s'[w][i] = w2s[w][i]
           /\ \/ ~Disconnect(w) /\ DOMAIN w2s'[w] = 1 .. n
              \/ /\ ReturnTask(w) /\ done.outcome = "solved"
                 /\ DOMAIN w2s'[w] = 1 .. n + 2
                 /\ w2s'[w][n + 1].tag = "FOUND_SOLUTION"
                 /\ w2s'[w][n + 1].task = done.inst[1]
                 /\ w2s'[w][n + 2].tag = "DONE_PROCESSING"
                 /\ w2s'[w][n + 2].inst = done.inst
                 /\ w2s'[w][n + 2].solved = TRUE
              \/ /\ ReturnTask(w) /\ done.outcome = "unsolved"
                 /\ DOMAIN w2s'[w] = 1 .. n + 1
                 /\ w2s'[w][n + 1].tag = "DONE_PROCESSING"
                 /\ w2s'[w][n + 1].inst = done.inst
                 /\ w2s'[w][n + 1].solved = FALSE
              \/ /\ Probe(w) /\ w_running'[w] /\ w_pc'[w] = "await"
                 /\ instances_to_get[w] > 0
                 /\ DOMAIN w2s'[w] = 1 .. n + 1
                 /\ w2s'[w][n + 1].tag = "GET_INSTANCES"
                 /\ w2s'[w][n + 1].num = instances_to_get[w]
              \/ /\ w_pc[w] = "flush" /\ w_pc'[w] = "barrier"
                 /\ DOMAIN w2s'[w] = 1 .. n + 1
                 /\ w2s'[w][n + 1].tag = "DISCONNECT"
<1>1. /\ w2s[w] \in Seq(FromWorker)
      /\ w2s'[w] = w2s[w] => DOMAIN w2s'[w] = 1 .. n
      /\ n \in Nat /\ DOMAIN w2s[w] = 1 .. n
  BY LenProperties DEF ChannelTypes
<1>2. ASSUME NEW msgs \in Seq(FromWorker), w2s'[w] = w2s[w] \o msgs
      PROVE  /\ w2s'[w] \in Seq(FromWorker)
             /\ \A i \in 1 .. n : w2s'[w][i] = w2s[w][i]
             /\ Len(msgs) \in Nat /\ DOMAIN msgs = 1 .. Len(msgs)
             /\ DOMAIN w2s'[w] = 1 .. n + Len(msgs)
             /\ \A i \in 1 .. Len(msgs) : w2s'[w][n + i] = msgs[i]
  BY <1>1, <1>2, PartsOfConcat
<1>3. ASSUME NEW msg \in FromWorker, w2s'[w] = w2s[w] \o <<msg>>
      PROVE  /\ w2s'[w] \in Seq(FromWorker)
             /\ \A i \in 1 .. n : w2s'[w][i] = w2s[w][i]
             /\ DOMAIN w2s'[w] = 1 .. n + 1
             /\ w2s'[w][n + 1] = msg
  <2>1. PICK msgs \in Seq(FromWorker) : msgs = <<msg>>
    BY SingleSeq
  <2>2. Len(msgs) = 1 /\ msgs[1] = msg
    BY <2>1
  <2>3. w2s'[w] = w2s[w] \o msgs
    BY <1>3, <2>1
  <2>4. /\ w2s'[w] \in Seq(FromWorker)
        /\ \A i \in 1 .. n : w2s'[w][i] = w2s[w][i]
        /\ DOMAIN w2s'[w] = 1 .. n + Len(msgs)
        /\ \A i \in 1 .. Len(msgs) : w2s'[w][n + i] = msgs[i]
    BY <1>2, <2>3
  <2>. QED  BY <2>2, <2>4
<1>4. CASE ReturnTask(w)
  <2>1. done \in DoneType
    BY <1>4, FirstOfSeq DEF ReturnTask, WorkerTypes
  <2>2. done.inst \in Instance /\ done.outcome \in Outcomes
    BY <2>1 DEF DoneType
  <2>3. CASE done.outcome = "solved"
    <3>. DEFINE found == FoundSolution(done.inst[1])
                told  == DoneProcessing(done.inst, TRUE)
    <3>1. found \in FromWorker /\ told \in FromWorker
      BY <2>2, WorkerMessages DEF Instance
    <3>2. w2s'[w] = w2s[w] \o (<<found>> \o <<told>>)
      <4>1. (done.outcome = "solved") = TRUE
        BY <2>3
      <4>2. ReturnMessages(done) = <<found>> \o <<told>>
        BY <2>3, <4>1 DEF ReturnMessages
      <4>. QED  BY <1>4, <2>3, <4>2 DEF ReturnTask, Send, ChannelTypes
    <3>. HIDE DEF found, told
    <3>3. PICK f \in Seq(FromWorker), t \in Seq(FromWorker) :
              f = <<found>> /\ t = <<told>>
      BY <3>1, SingleSeq
    <3>4. PICK msgs \in Seq(FromWorker) : msgs = f \o t
      BY PartsOfConcat
    <3>5. /\ Len(f) = 1 /\ Len(t) = 1 /\ f[1] = found /\ t[1] = told
          /\ DOMAIN f = {1} /\ DOMAIN t = {1}
      BY <3>3
    <3>6. Len(msgs) = 2 /\ msgs[1] = found /\ msgs[2] = told
      <4>1. /\ Len(msgs) = Len(f) + Len(t)
            /\ \A i \in DOMAIN f : msgs[i] = f[i]
            /\ \A i \in DOMAIN t : msgs[Len(f) + i] = t[i]
        BY <3>4, PartsOfConcat
      <4>. QED  BY <3>5, <4>1
    <3>7. w2s'[w] = w2s[w] \o msgs
      BY <3>2, <3>3, <3>4
    <3>8. /\ w2s'[w] \in Seq(FromWorker)
          /\ \A i \in 1 .. n : w2s'[w][i] = w2s[w][i]
          /\ DOMAIN w2s'[w] = 1 .. n + Len(msgs)
          /\ \A i \in 1 .. Len(msgs) : w2s'[w][n + i] = msgs[i]
      BY <1>2, <3>7
    <3>9. /\ DOMAIN w2s'[w] = 1 .. n + 2
          /\ w2s'[w][n + 1] = found /\ w2s'[w][n + 2] = told
      BY <3>6, <3>8
    <3>10. /\ found.tag = "FOUND_SOLUTION" /\ found.task = done.inst[1]
           /\ told.tag = "DONE_PROCESSING" /\ told.inst = done.inst
           /\ told.solved = TRUE
      BY DEF found, told, FoundSolution, DoneProcessing
    <3>. QED  BY <1>1, <1>4, <2>3, <3>8, <3>9, <3>10
  <2>4. CASE done.outcome = "unsolved"
    <3>1. DoneProcessing(done.inst, FALSE) \in FromWorker
      BY <2>2, WorkerMessages
    <3>2. w2s'[w] = w2s[w] \o <<DoneProcessing(done.inst, FALSE)>>
      <4>1. ReturnMessages(done) = <<DoneProcessing(done.inst, FALSE)>>
        <5>1. (done.outcome = "solved") = FALSE
          BY <2>4
        <5>2. ReturnMessages(done) = <<>> \o <<DoneProcessing(done.inst, FALSE)>>
          BY <2>4, <5>1 DEF ReturnMessages
        <5>. QED  BY <3>1, <5>2, SingleSeq
      <4>. QED  BY <1>4, <2>4, <4>1 DEF ReturnTask, Send, ChannelTypes
    <3>. DEFINE told == DoneProcessing(done.inst, FALSE)
    <3>4. /\ told.tag = "DONE_PROCESSING" /\ told.inst = done.inst
          /\ told.solved = FALSE
      BY DEF DoneProcessing
    <3>. HIDE DEF told
    <3>5. told \in FromWorker /\ w2s'[w] = w2s[w] \o <<told>>
      BY <3>1, <3>2 DEF told
    <3>. QED  BY <1>1, <1>3, <1>4, <2>4, <3>4, <3>5
  <2>5. CASE done.outcome = "failed"
    <3>1. CASE w_pc[w] = "loop"
      <4>1. w2s'[w] = w2s[w]
        BY <1>4, <2>5, <3>1 DEF ReturnTask, At
      <4>2. ~Disconnect(w)
        BY <3>1 DEF Disconnect, At
      <4>. QED  BY <1>1, <2>5, <4>1, <4>2
    <3>2. CASE w_pc[w] # "loop"
      <4>1. w2s'[w] = w2s[w] \o <<DisconnectWorker>>
        BY <1>4, <2>5, <3>2 DEF ReturnTask, At, Send, ChannelTypes
      <4>2. w_pc[w] = "flush" /\ w_pc'[w] = "barrier"
        BY <1>4, <2>5, <3>2 DEF ReturnTask, At, Goto, WorkerTypes
      <4>3. DisconnectWorker \in FromWorker
        BY DEF FromWorker
      <4>. QED  BY <1>1, <1>3, <2>5, <4>1, <4>2, <4>3, WorkerTags
    <3>. QED  BY <3>1, <3>2
  <2>. QED  BY <2>2, <2>3, <2>4, <2>5, WorkerAssumption
<1>5. CASE Probe(w)
  <2>1. ~Disconnect(w) /\ ~ReturnTask(w)
    BY <1>5 DEF Probe, Disconnect, ReturnTask, At
  <2>2. CASE w2s'[w] = w2s[w] \o <<>>
    BY <1>1, <2>1, <2>2, ConcatEmptySeq
  <2>3. CASE w2s'[w] # w2s[w] \o <<>>
    <3>1. /\ w_running'[w] /\ w_pc'[w] = "await" /\ instances_to_get[w] > 0
          /\ w2s'[w] = w2s[w] \o <<GetInstances(instances_to_get[w])>>
      BY <1>5, <2>3 DEF Probe, Send, Runs, Goto, WorkerTypes, ChannelTypes
    <3>2. GetInstances(instances_to_get[w]) \in FromWorker
      BY DEF FromWorker, WorkerTypes
    <3>. QED  BY <1>1, <1>3, <1>5, <2>1, <3>1, <3>2, WorkerTags
  <2>. QED  BY <2>2, <2>3
<1>6. CASE Disconnect(w)
  <2>1. w2s'[w] = w2s[w] \o <<DisconnectWorker>>
    BY <1>6 DEF Disconnect, Send, ChannelTypes
  <2>2. /\ ~ReturnTask(w)
        /\ w_pc[w] = "flush" /\ w_pc'[w] = "barrier"
    BY <1>6 DEF Disconnect, ReturnTask, At, Goto, WorkerTypes
  <2>3. DisconnectWorker \in FromWorker
    BY DEF FromWorker
  <2>. QED  BY <1>1, <1>3, <2>1, <2>2, <2>3, WorkerTags
<1>. QED  BY <1>4, <1>5, <1>6

(* Every way in which a command gets to the manager or is processed there, *)
(* and what it does to the flags about solutions.                          *)
LEMMA ToManagerForms ==
    ASSUME Next
    PROVE  \/ UNCHANGED <<s2m, solution_found, m_solution_found, statistic>>
           \/ /\ \E w \in Worker :
                     /\ ServeWorker(w) /\ Head(w2s[w]).tag = "FOUND_SOLUTION"
                     /\ s2m' = Append(s2m, SolutionNotice(Head(w2s[w]).task))
              /\ solution_found' = TRUE
              /\ UNCHANGED <<m_solution_found, statistic>>
           \/ /\ \E w \in Worker :
                     ServeWorker(w) /\ Head(w2s[w]).tag = "DONE_PROCESSING"
              /\ s2m' = s2m \o Statistics(available_tasks')
              /\ UNCHANGED <<solution_found, m_solution_found, statistic>>
           \/ /\ s2m' = Append(s2m, DisconnectServer)
              /\ UNCHANGED <<solution_found, m_solution_found, statistic>>
           \/ ManagerAlone /\ ProcessServerCommand /\ UNCHANGED solution_found
<1>1. CASE ServeManager
  BY <1>1 DEF ServeManager, ProcessAddFile, ProcessAddWorkers, ProcessTerminate
<1>2. ASSUME NEW w \in Worker, ServeWorker(w)
      PROVE  /\ UNCHANGED <<m_solution_found, statistic>>
             /\ \/ UNCHANGED <<s2m, solution_found>>
                \/ /\ Head(w2s[w]).tag = "FOUND_SOLUTION"
                   /\ s2m' = Append(s2m, SolutionNotice(Head(w2s[w]).task))
                   /\ solution_found' = TRUE
                \/ /\ Head(w2s[w]).tag = "DONE_PROCESSING"
                   /\ s2m' = s2m \o Statistics(available_tasks')
                   /\ UNCHANGED solution_found
  BY <1>2 DEF ServeWorker, ProcessGetInstances, ProcessFoundSolution,
              ProcessDoneProcessing, ProcessDisconnect, manager_vars
<1>3. CASE ServerAlone
  BY <1>3 DEF ServerAlone, HandOut, SendReply, Leave, NoManagerCommand,
              manager_vars
<1>4. CASE ServerBarrier
  BY <1>4 DEF ServerBarrier, PassManagerBarrier, PassServerBarrier
<1>5. CASE ManagerAlone
  BY <1>5 DEF ManagerAlone, server_vars, NextCommand, AddNextWorker, Rewind,
              Poll, WaitForServer
<1>6. ASSUME NEW v \in Worker,
             Connect(v) \/ LookupFails(v) \/ Spawn(v) \/ WorkerBarrier(v)
      PROVE  UNCHANGED <<s2m, solution_found, m_solution_found, statistic>>
  BY <1>6 DEF Connect, AcceptWorker, LookupFails, Spawn, SpawnWorker,
              WorkerBarrier, PassWorkerBarrier, server_vars, manager_vars
<1>7. ASSUME NEW v \in Worker, MainThread(v)
      PROVE  s2m' = s2m
  BY <1>7 DEF MainThread, Activate, ReturnTask, NothingToReturn, Probe, Await,
              CreateTasks, UnreadableFormula, StoreCounter, Join, Disconnect
<1>. QED
  BY <1>1, <1>2, <1>3, <1>4, <1>5, <1>6, <1>7, SolverLeaves
  DEF Next, MainAlone, ThreadAlone, server_vars, manager_vars

(* Every way in which a command of the manager is sent (add_workers,       *)
(* add_file, do_exit) or served.                                           *)
LEMMA FromManagerForms ==
    ASSUME Next
    PROVE  \/ m2s' = m2s /\ ~ServeManager
           \/ ServeManager /\ m2s # <<>> /\ m2s' = Tail(m2s)
           \/ /\ ManagerAlone /\ AddNextWorker /\ m_pc' = "add1"
              /\ m2s' = Append(m2s, AddWorkers)
           \/ /\ ManagerAlone /\ NextCommand
              /\ \/ /\ default_cmds # <<>>
                    /\ Head(default_cmds).cmd = "add_file"
                    /\ m2s' = Append(m2s, AddFile(Head(default_cmds).n))
                 \/ /\ default_cmds = <<>> /\ m_input # <<>>
                    /\ Head(m_input).cmd = "add_file"
                    /\ m2s' = Append(m2s, AddFile(Head(m_input).n))
           \/ /\ ManagerAlone
              /\ NextCommand \/ WaitForServer
              /\ m2s' = Append(m2s, TerminateServer)
<1>1. ServeManager => m2s # <<>> /\ m2s' = Tail(m2s)
  BY DEF ServeManager
<1>2. CASE ManagerAlone
  <2>1. CASE NextCommand
    BY <1>1, <1>2, <2>1 DEF NextCommand, Perform, StopServer, Tell
  <2>2. CASE AddNextWorker
    BY <1>1, <1>2, <2>2 DEF AddNextWorker, Tell
  <2>3. CASE Rewind \/ Poll \/ WaitForServer
    BY <1>1, <1>2, <2>3 DEF Rewind, Poll, WaitForServer, StopServer, Tell
  <2>. QED  BY <1>2, <2>1, <2>2, <2>3 DEF ManagerAlone
<1>3. CASE ServerAlone \/ ServerBarrier
  BY <1>1, <1>3 DEF ServerAlone, ServerBarrier, PassServerBarrier, manager_vars
<1>4. ASSUME NEW v \in Worker,
             \/ ServeWorker(v) \/ Connect(v) \/ LookupFails(v) \/ Spawn(v)
             \/ WorkerBarrier(v)
      PROVE  m2s' = m2s
  BY <1>4 DEF ServeWorker, Connect, LookupFails, Spawn, SpawnWorker,
              WorkerBarrier, PassWorkerBarrier, manager_vars
<1>. QED  BY <1>1, <1>2, <1>3, <1>4
          DEF Next, MainAlone, ThreadAlone, manager_vars

(* The same, message by message: files are told of from the input alone.   *)
LEMMA ManagerSays ==
    ASSUME ChannelTypes, ManagerTypes, Next
    PROVE  \/ m2s' = m2s /\ ~ServeManager
           \/ ServeManager /\ m2s # <<>> /\ m2s' = Tail(m2s)
           \/ /\ ManagerAlone /\ m_pc \in {"cmd", "add", "wait"}
              /\ \E msg \in FromManager :
                     /\ m2s' = Append(m2s, msg)
                     /\ msg.tag = "ADD_WORKERS" => m_pc' = "add1"
                     /\ msg.tag = "ADD_FILE" =>
                            /\ NextCommand /\ default_cmds = <<>>
                            /\ m_input # <<>> /\ Head(m_input).cmd = "add_file"
                            /\ msg.n = Head(m_input).n
<1>1. /\ default_cmds # <<>> => Head(default_cmds).cmd # "add_file"
      /\ m_input # <<>> => Head(m_input) \in Command
  <2>1. default_cmds # <<>> => Head(default_cmds) \in {CmdWaitForServer, CmdExit}
    BY FirstOfSeq DEF ManagerTypes
  <2>2. m_input # <<>> => Head(m_input) \in ToSet(m_script)
    BY FirstOfSeq DEF ManagerTypes
  <2>3. ToSet(m_script) \subseteq Command
    BY ManagerAssumption, LenProperties, ElementOfSeq DEF ToSet, ManagerTypes
  <2>. QED  BY <2>1, <2>2, <2>3 DEF CmdWaitForServer, CmdExit
<1>2. \A cmd \in Command : cmd.cmd = "add_file" => cmd.n \in Nat
  BY DEF Command, CmdWaitForServer, CmdExit
<1>3. CASE ManagerAlone /\ AddNextWorker /\ m_pc' = "add1"
           /\ m2s' = Append(m2s, AddWorkers)
  <2>1. AddWorkers \in FromManager /\ AddWorkers.tag = "ADD_WORKERS"
    BY DEF FromManager, AddWorkers
  <2>2. m_pc = "add"
    BY <1>3 DEF AddNextWorker
  <2>. QED  BY <1>3, <2>1, <2>2
<1>4. CASE ManagerAlone /\ (NextCommand \/ WaitForServer)
           /\ m2s' = Append(m2s, TerminateServer)
  <2>1. TerminateServer \in FromManager /\ TerminateServer.tag = "TERMINATE"
    BY DEF FromManager, TerminateServer
  <2>2. m_pc \in {"cmd", "wait"}
    BY <1>4 DEF NextCommand, WaitForServer
  <2>. QED  BY <1>4, <2>1, <2>2
<1>5. CASE /\ ManagerAlone /\ NextCommand /\ default_cmds = <<>>
           /\ m_input # <<>> /\ Head(m_input).cmd = "add_file"
           /\ m2s' = Append(m2s, AddFile(Head(m_input).n))
  <2>1. Head(m_input).n \in Nat
    BY <1>1, <1>2, <1>5
  <2>2. PICK msg \in FromManager : msg = AddFile(Head(m_input).n)
    BY <1>1, <1>2, <2>1 DEF FromManager
  <2>3. msg.tag = "ADD_FILE" /\ msg.n = Head(m_input).n
    BY <1>1, <1>2, <2>2 DEF AddFile
  <2>4. m_pc = "cmd"
    BY <1>5 DEF NextCommand
  <2>. QED  BY <1>5, <2>2, <2>3, <2>4
<1>6. ~(/\ default_cmds # <<>>
        /\ Head(default_cmds).cmd = "add_file"
        /\ m2s' = Append(m2s, AddFile(Head(default_cmds).n)))
  BY <1>1
<1>7. \/ m2s' = m2s /\ ~ServeManager
      \/ ServeManager /\ m2s # <<>> /\ m2s' = Tail(m2s)
      \/ ManagerAlone /\ AddNextWorker /\ m_pc' = "add1"
             /\ m2s' = Append(m2s, AddWorkers)
      \/ /\ ManagerAlone /\ NextCommand /\ default_cmds = <<>>
         /\ m_input # <<>> /\ Head(m_input).cmd = "add_file"
         /\ m2s' = Append(m2s, AddFile(Head(m_input).n))
      \/ ManagerAlone /\ (NextCommand \/ WaitForServer)
             /\ m2s' = Append(m2s, TerminateServer)
  BY <1>1, FromManagerForms
<1>. QED  BY <1>3, <1>4, <1>5, <1>7

(* Every way in which the answer under construction changes:               *)
(* process_w2s_GET_INSTANCES begins it, each round of its loop adds a job, *)
(* sending ends it.                                                        *)
LEMMA ReplyForms ==
    ASSUME Next
    PROVE  \/ UNCHANGED reply
           \/ \E w \in Worker :
                  /\ ServeWorker(w) /\ Head(w2s[w]).tag = "GET_INSTANCES"
                  /\ reply' = [to |-> w, left |-> Served(Head(w2s[w]).num),
                               jobs |-> <<>>]
           \/ /\ ServerAlone /\ HandOut
              /\ reply' = [to |-> reply.to, left |-> reply.left - NextJob.num,
                           jobs |-> Append(reply.jobs, NextJob)]
           \/ ServerAlone /\ SendReply /\ reply' = NoReply
<1>1. CASE ServeManager
  BY <1>1 DEF ServeManager, ProcessAddFile, ProcessAddWorkers, ProcessTerminate
<1>2. ASSUME NEW w \in Worker, ServeWorker(w)
      PROVE  \/ UNCHANGED reply
             \/ /\ Head(w2s[w]).tag = "GET_INSTANCES"
                /\ reply' = [to |-> w, left |-> Served(Head(w2s[w]).num),
                             jobs |-> <<>>]
  BY <1>2 DEF ServeWorker, ProcessGetInstances, ProcessFoundSolution,
              ProcessDoneProcessing, ProcessDisconnect
<1>3. ASSUME ServerAlone
      PROVE  \/ UNCHANGED reply
             \/ /\ HandOut
                /\ reply' = [to |-> reply.to, left |-> reply.left - NextJob.num,
                             jobs |-> Append(reply.jobs, NextJob)]
             \/ SendReply /\ reply' = NoReply
  BY <1>3 DEF ServerAlone, HandOut, SendReply, Leave, NoManagerCommand
<1>4. CASE ServerBarrier \/ ManagerAlone
  BY <1>4 DEF ServerBarrier, PassManagerBarrier, ManagerAlone, server_vars
<1>5. ASSUME NEW v \in Worker,
             Connect(v) \/ LookupFails(v) \/ Spawn(v) \/ WorkerBarrier(v)
      PROVE  reply' = reply
  BY <1>5 DEF Connect, AcceptWorker, LookupFails, Spawn, WorkerBarrier,
              server_vars
<1>. QED
  BY <1>1, <1>2, <1>3, <1>4, <1>5
  DEF Next, MainAlone, ThreadAlone, server_vars

(* The server's tables, as Scheduler's invariant has them.                 *)
LEMMA ServerTypes ==
    ASSUME SchedProofs!IInv
    PROVE  /\ available_tasks \in Seq(TaskInfo)
           /\ DOMAIN available_tasks = 1 .. Len(available_tasks)
           /\ \A t \in DOMAIN available_tasks : available_tasks[t] \in TaskInfo
           /\ work_units \in Seq(Worker) /\ Connected \subseteq Worker
           /\ {solution_found, terminated_workers, statistic_send, running}
                  \subseteq BOOLEAN
           /\ srv_pc \in {"testany", "iprobe", "handout", "enter", "accept",
                          "leave", "bye", "disconnecting", "gone", "aborted"}
           /\ out \subseteq Instance
           /\ IsFiniteSet(out)
           /\ \A inst \in out : inst[1] \in DOMAIN available_tasks
<1>1. /\ available_tasks \in Seq(TaskInfo)
      /\ work_units \in Seq(Worker)
      /\ {solution_found, terminated_workers, statistic_send, running}
             \subseteq BOOLEAN
      /\ srv_pc \in {"testany", "iprobe", "handout", "enter", "accept",
                     "leave", "bye", "disconnecting", "gone", "aborted"}
      /\ out \subseteq Instance
  BY DEF SchedProofs!IInv, SchedProofs!TypeOK, SchedProofs!TaskInfo, TaskInfo,
         SchedProofs!Instance, Instance
<1>2. /\ IsFiniteSet(out)
      /\ \A inst \in out : inst[1] \in DOMAIN available_tasks
  <2>1. SchedProofs!OutNumbered
    BY DEF SchedProofs!IInv
  <2>2. SchedProofs!IsFiniteSet(out) <=> IsFiniteSet(out)
    BY DEF SchedProofs!IsFiniteSet, IsFiniteSet
  <2>. QED  BY <2>1, <2>2, Zenon DEF SchedProofs!OutNumbered
<1>3. /\ DOMAIN available_tasks = 1 .. Len(available_tasks)
      /\ \A t \in DOMAIN available_tasks : available_tasks[t] \in TaskInfo
  BY <1>1, LenProperties, ElementOfSeq
<1>4. Connected \subseteq Worker
  BY <1>1, LenProperties, ElementOfSeq DEF Connected, ToSet
<1>. QED  BY <1>1, <1>2, <1>3, <1>4

(* Every channel holds commands of its own kind.                           *)
LEMMA ChannelTypesKept ==
    ASSUME SchedProofs!IInv, SchedProofs!IInv', SchedProofs!SchedulerAssumption,
           WorkerTypes, ChannelTypes, ManagerTypes, Next
    PROVE  ChannelTypes'
<1>1. reply' \in [to : Worker \cup {"nobody"}, left : Int, jobs : Seq(JobType)]
  <2>1. NoReply \in [to : Worker \cup {"nobody"}, left : Int, jobs : Seq(JobType)]
    BY EmptySeq DEF NoReply
  <2>2. ASSUME NEW w \in Worker, ServeWorker(w), Head(w2s[w]).tag = "GET_INSTANCES"
        PROVE  Served(Head(w2s[w]).num) \in Int
    <3>1. Head(w2s[w]) \in FromWorker
      BY <2>2, FirstOfSeq DEF ServeWorker, Ready, ChannelTypes
    <3>. QED  BY <2>2, <3>1, WorkerMessage DEF Served
  <2>3. ASSUME HandOut
        PROVE  /\ reply.left - NextJob.num \in Int
               /\ Append(reply.jobs, NextJob) \in Seq(JobType)
    <3>1. NextJob \in JobType /\ NextJob.num \in Int
      BY <2>3, NextJobNew DEF HandOut, JobType
    <3>2. reply.left \in Int /\ reply.jobs \in Seq(JobType)
      BY DEF ChannelTypes
    <3>. QED  BY <3>1, <3>2, AppendProperties
  <2>4. reply.to \in Worker \cup {"nobody"}
    BY DEF ChannelTypes
  <2>5. <<>> \in Seq(JobType)
    BY EmptySeq
  <2>6. CASE UNCHANGED reply
    BY <2>6 DEF ChannelTypes
  <2>7. ASSUME NEW w \in Worker, ServeWorker(w),
               Head(w2s[w]).tag = "GET_INSTANCES",
               reply' = [to |-> w, left |-> Served(Head(w2s[w]).num),
                         jobs |-> <<>>]
        PROVE  reply' \in [to : Worker \cup {"nobody"}, left : Int,
                           jobs : Seq(JobType)]
    BY <2>2, <2>5, <2>7
  <2>8. CASE HandOut /\ reply' = [to |-> reply.to, left |-> reply.left - NextJob.num,
                                  jobs |-> Append(reply.jobs, NextJob)]
    BY <2>3, <2>4, <2>8
  <2>. QED  BY <2>1, <2>6, <2>7, <2>8, ReplyForms
<1>2. s2w' \in [Worker -> Seq(FromServer)]
  <2>1. \A msg \in FromServer : \A ws :
            Broadcast(ws, msg) \in [Worker -> Seq(FromServer)]
    BY AppendProperties DEF Broadcast, ChannelTypes
  <2>2. ActivateWorker \in FromServer /\ TerminateWorker \in FromServer
    BY DEF FromServer
  <2>3. SendInstances(reply.jobs) \in FromServer
    <3>1. reply.jobs \in Seq(JobType)
      BY DEF ChannelTypes
    <3>. QED  BY <3>1, Zenon DEF FromServer
  <2>4. \A w \in Worker : s2w[w] # <<>> =>
            [s2w EXCEPT ![w] = Tail(s2w[w])] \in [Worker -> Seq(FromServer)]
    BY FirstOfSeq DEF ChannelTypes
  <2>5. s2w \in [Worker -> Seq(FromServer)]
    BY DEF ChannelTypes
  <2>6. ASSUME NEW ws, NEW msg \in FromServer, s2w' = Broadcast(ws, msg)
        PROVE  s2w' \in [Worker -> Seq(FromServer)]
    BY <2>1, <2>6
  <2>. QED  BY <2>2, <2>3, <2>4, <2>5, <2>6, ToWorkersForms
<1>3. w2s' \in [Worker -> Seq(FromWorker)]
  <2>1. ASSUME NEW w \in Worker, NEW q, w2s' = [w2s EXCEPT ![w] = q],
               w2s'[w] \in Seq(FromWorker)
        PROVE  w2s' \in [Worker -> Seq(FromWorker)]
    BY <2>1 DEF ChannelTypes
  <2>2. ASSUME NEW w \in Worker, w2s[w] # <<>>,
               w2s' = [w2s EXCEPT ![w] = Tail(w2s[w])]
        PROVE  w2s' \in [Worker -> Seq(FromWorker)]
    BY <2>2, FirstOfSeq DEF ChannelTypes
  <2>3. ASSUME NEW w \in Worker, ReturnTask(w) \/ Probe(w) \/ Disconnect(w),
               NEW msgs, w2s' = [w2s EXCEPT ![w] = w2s[w] \o msgs]
        PROVE  w2s' \in [Worker -> Seq(FromWorker)]
    BY <2>1, <2>3, WorkerSends
  <2>4. w2s \in [Worker -> Seq(FromWorker)]
    BY DEF ChannelTypes
  <2>. QED  BY <2>2, <2>3, <2>4, FromWorkersForms
<1>4. s2m' \in Seq(ToManager)
  <2>1. s2m \in Seq(ToManager)
    BY DEF ChannelTypes
  <2>2. ASSUME NEW w \in Worker, ServeWorker(w), Head(w2s[w]).tag = "FOUND_SOLUTION"
        PROVE  SolutionNotice(Head(w2s[w]).task) \in ToManager
    <3>1. Head(w2s[w]) \in FromWorker
      BY <2>2, FirstOfSeq DEF ServeWorker, Ready, ChannelTypes
    <3>2. Head(w2s[w]).task \in Nat
      BY <2>2, <3>1, WorkerMessage
    <3>. QED  BY <3>2 DEF ToManager
  <2>3. Statistics(available_tasks') \in Seq(ToManager)
    <3>1. available_tasks' \in Seq(TaskInfo)
      BY DEF SchedProofs!IInv, SchedProofs!TypeOK, SchedProofs!TaskInfo,
         TaskInfo
    <3>. QED  BY <3>1, StatisticsType
  <2>4. DisconnectServer \in ToManager
    BY DEF ToManager
  <2>5. ProcessServerCommand => s2m' \in Seq(ToManager)
    BY <2>1, FirstOfSeq DEF ProcessServerCommand
  <2>6. \A msg \in ToManager : Append(s2m, msg) \in Seq(ToManager)
    BY <2>1, AppendProperties
  <2>7. s2m \o Statistics(available_tasks') \in Seq(ToManager)
    BY <2>1, <2>3, ConcatProperties
  <2>. QED  BY <2>1, <2>2, <2>4, <2>5, <2>6, <2>7, ToManagerForms
<1>5. m2s' \in Seq(FromManager)
  <2>1. m2s \in Seq(FromManager)
    BY DEF ChannelTypes
  <2>2. m2s # <<>> => Tail(m2s) \in Seq(FromManager)
    BY <2>1, FirstOfSeq
  <2>. QED  BY <2>1, <2>2, ManagerSays, AppendProperties
<1>. QED  BY <1>1, <1>2, <1>3, <1>4, <1>5 DEF ChannelTypes

(* No step of any process gives the manager's state another type.          *)
LEMMA ManagerTypesKept ==
    ASSUME ChannelTypes, ManagerTypes, Next
    PROVE  ManagerTypes'
<1>. DEFINE Unread == Seq(ToSet(m_script))
            Own    == Seq({CmdWaitForServer, CmdExit})
<1>0. /\ m_script \in Scripts
      /\ m_input \in Seq(ToSet(m_script))
      /\ default_cmds \in Seq({CmdWaitForServer, CmdExit})
      /\ m_toadd \in Nat
      /\ m_running \in BOOLEAN /\ m_once \in BOOLEAN /\ m_solution_found \in BOOLEAN
      /\ statistic \in [started : Nat, solved : Nat]
      /\ workers \in Seq(Worker)
  BY DEF ManagerTypes
<1>1. CASE NextCommand
  <2>1. /\ default_cmds # <<>> => /\ Head(default_cmds) \in {CmdWaitForServer, CmdExit}
                                 /\ Tail(default_cmds) \in Own
        /\ m_input # <<>> => /\ Head(m_input) \in ToSet(m_script)
                             /\ Tail(m_input) \in Unread
    BY <1>0, FirstOfSeq
  <2>2. ToSet(m_script) \subseteq Command
    BY <1>0, ManagerAssumption, LenProperties, ElementOfSeq DEF ToSet
  <2>3. /\ m_input' \in Unread
        /\ default_cmds' \in Own
        /\ UNCHANGED <<m_script, m_once, m_solution_found, statistic, workers>>
        /\ \E cmd \in Command : Perform(cmd)
    BY <1>0, <1>1, <2>1, <2>2 DEF NextCommand, Command
  <2>4. PICK cmd \in Command : Perform(cmd)
    BY <2>3
  <2>5. cmd.cmd = "add_workers" => cmd.num \in Nat
    BY DEF Command, CmdWaitForServer, CmdExit
  <2>6. /\ m_toadd' \in Nat
        /\ m_running' \in BOOLEAN
        /\ m_pc' \in {"add", "poll", "wait"}
    BY <1>0, <2>4, <2>5 DEF Perform, StopServer
  <2>. QED  BY <1>0, <2>3, <2>6 DEF ManagerTypes
<1>2. CASE AddNextWorker
  BY <1>0, <1>2 DEF AddNextWorker, input_vars, ManagerTypes
<1>3. CASE Rewind
  <2>1. m_input' \in Unread
    <3>1. m_script \in Seq(Command)
      BY <1>0, ManagerAssumption
    <3>2. m_script \in Seq(ToSet(m_script))
      BY <3>1, SeqOfRange DEF Range, ToSet
    <3>. QED  BY <1>3, <3>2 DEF Rewind
  <2>. QED  BY <1>0, <1>3, <2>1 DEF Rewind, ManagerTypes
<1>4. ASSUME ProcessServerCommand
      PROVE  /\ statistic' \in [started : Nat, solved : Nat]
             /\ m_solution_found' \in BOOLEAN
  <2>1. Head(s2m) \in ToManager
    BY <1>4, FirstOfSeq DEF ProcessServerCommand, ChannelTypes
  <2>2. Head(s2m).tag = "SEND_STATISTICS" =>
            Head(s2m).started \in Nat /\ Head(s2m).solved \in Nat
    BY <2>1, MessageToManager
  <2>. QED  BY <1>0, <1>4, <2>2 DEF ProcessServerCommand
<1>5. CASE Poll
  <2>1. default_cmds' \in Own
    <3>1. \A tag : Reaction(tag) \in Own
      BY SingleSeq, EmptySeq DEF Reaction
    <3>2. \/ default_cmds' = default_cmds
          \/ default_cmds' = Reaction(Head(s2m).tag) \o default_cmds
      BY <1>5 DEF Poll
    <3>3. Reaction(Head(s2m).tag) \in Own /\ default_cmds \in Own
      BY <1>0, <3>1
    <3>. HIDE DEF Own
    <3>4. Reaction(Head(s2m).tag) \o default_cmds \in Own
      BY <3>3, ConcatProperties DEF Own
    <3>. QED  BY <3>2, <3>3, <3>4
  <2>2. /\ statistic' \in [started : Nat, solved : Nat]
        /\ m_solution_found' \in BOOLEAN
    BY <1>0, <1>4, <1>5 DEF Poll
  <2>3. /\ m_pc' \in {"cmd", "bye"}
        /\ UNCHANGED <<m_script, m_input, m_once, m_toadd, m_running, workers>>
    BY <1>5 DEF Poll, CmdOrBye, input_vars
  <2>. QED  BY <1>0, <2>1, <2>2, <2>3 DEF ManagerTypes
<1>6. CASE WaitForServer
  <2>1. /\ m_pc' \in {"wait", "poll"} /\ m_running' \in BOOLEAN
        /\ UNCHANGED <<m_script, m_input, m_once, m_toadd, default_cmds, workers>>
    BY <1>0, <1>6 DEF WaitForServer, StopServer, input_vars
  <2>. QED  BY <1>0, <1>4, <1>6, <2>1 DEF WaitForServer, ManagerTypes
<1>7. CASE ServerBarrier
  <2>1. /\ m_pc' \in {"spawn", "add", "gone", "bye_workers"}
        /\ m_pc' = "spawn" => m_pc = "add1"
        /\ m_toadd' \in Nat
        /\ m_pc' = "spawn" => m_toadd' = m_toadd
    <3>1. m_pc = "add2" => m_toadd - 1 \in Nat
      BY <1>0 DEF ManagerTypes
    <3>. QED  BY <1>0, <1>7, <3>1 DEF ServerBarrier, PassServerBarrier
  <2>2. UNCHANGED <<m_script, m_input, m_once, default_cmds, m_running,
                    m_solution_found, statistic, workers>>
    BY <1>7 DEF ServerBarrier, PassServerBarrier, input_vars
  <2>3. m_pc' = "spawn" => m_toadd > 0
    BY <2>1 DEF ManagerTypes
  <2>. QED  BY <1>0, <2>1, <2>2, <2>3 DEF ManagerTypes
<1>8. ASSUME NEW w \in Worker, Spawn(w)
      PROVE  ManagerTypes'
  <2>1. workers' \in Seq(Worker)
    BY <1>0, <1>8, AppendProperties DEF Spawn, SpawnWorker
  <2>. QED  BY <1>0, <1>8, <2>1 DEF Spawn, SpawnWorker, input_vars,
               ManagerTypes
<1>9. ASSUME NEW w \in Worker, WorkerBarrier(w)
      PROVE  ManagerTypes'
  <2>1. workers' \in Seq(Worker)
    BY <1>0, <1>9, FirstOfSeq DEF WorkerBarrier, PassWorkerBarrier
  <2>2. m_pc' \in {"gone", "bye_workers"}
    BY <1>9 DEF WorkerBarrier, PassWorkerBarrier
  <2>3. UNCHANGED <<m_script, m_input, m_once, default_cmds, m_toadd, m_running,
                    m_solution_found, statistic>>
    BY <1>9 DEF WorkerBarrier, PassWorkerBarrier, input_vars
  <2>. QED  BY <1>0, <2>1, <2>2, <2>3 DEF ManagerTypes
<1>10. CASE UNCHANGED <<m_pc, m_script, m_input, m_once, default_cmds, m_toadd,
                        m_running, m_solution_found, statistic, workers>>
  BY <1>0, <1>10 DEF ManagerTypes
<1>11. \/ ManagerAlone \/ ServerBarrier
       \/ \E w \in Worker : Spawn(w) \/ WorkerBarrier(w)
       \/ UNCHANGED <<m_pc, m_script, m_input, m_once, default_cmds, m_toadd,
                      m_running, m_solution_found, statistic, workers>>
  BY DEF Next, ServeWorker, Connect, LookupFails, ServeManager, ServerAlone,
         MainAlone, ThreadAlone, manager_vars, input_vars
<1>. QED  BY <1>1, <1>2, <1>3, <1>5, <1>6, <1>7, <1>8, <1>9, <1>10, <1>11
          DEF ManagerAlone

-----------------------------------------------------------------------------
(* Control.                                                                *)
LEMMA TerminationNoted ==
    ASSUME Next
    PROVE  terminated_workers => terminated_workers'
<1>1. CASE ServeManager
  BY <1>1 DEF ServeManager, ProcessAddFile, ProcessAddWorkers,
              ProcessTerminate, SendTermination
<1>2. ASSUME NEW v \in Worker, ServeWorker(v)
      PROVE  terminated_workers => terminated_workers'
  BY <1>2 DEF ServeWorker, ProcessGetInstances, ProcessFoundSolution,
              ProcessDoneProcessing, ProcessDisconnect, SendTermination
<1>3. CASE ServerAlone
  BY <1>3 DEF ServerAlone, HandOut, SendReply, Leave, NoManagerCommand
<1>4. CASE ServerBarrier \/ ManagerAlone
  BY <1>4 DEF ServerBarrier, PassManagerBarrier, ManagerAlone, server_vars
<1>5. ASSUME NEW v \in Worker,
             Connect(v) \/ LookupFails(v) \/ Spawn(v) \/ WorkerBarrier(v)
      PROVE  terminated_workers => terminated_workers'
  BY <1>5 DEF Connect, AcceptWorker, LookupFails, Spawn, WorkerBarrier,
              server_vars
<1>. QED  BY <1>1, <1>2, <1>3, <1>4, <1>5
          DEF Next, MainAlone, ThreadAlone, server_vars

(* A worker that takes the order to stop takes it from its channel.        *)
LEMMA MainStops ==
    ASSUME WorkerTypes, ChannelTypes, Stopping, NEW w \in Worker, MainThread(w)
    PROVE  /\ \A v \in Worker \ {w} : w_running'[v] = w_running[v]
           /\ \/ w_running'[w] = w_running[w]
              \/ /\ s2w[w] # <<>> /\ Head(s2w[w]).tag = "TERMINATE"
                 /\ ~w_running'[w]
<1>1. CASE Activate(w) \/ Probe(w) \/ Await(w)
  <2>. DEFINE told == s2w[w] # <<>> /\ Head(s2w[w]).tag = "TERMINATE"
  <2>1. w_running \in [Worker -> BOOLEAN]
    BY DEF WorkerTypes
  <2>2. CASE told
    <3>1. w_running' = [w_running EXCEPT ![w] = FALSE]
      BY <1>1, <2>2 DEF Activate, Probe, Await, Runs, RunsAfter
    <3>. QED  BY <2>1, <2>2, <3>1
  <2>3. CASE ~told
    <3>1. w_running' = [w_running EXCEPT ![w] = w_running[w]]
      <4>1. CASE Activate(w) \/ Await(w)
        <5>1. RunsAfter(w, Head(s2w[w])) = w_running[w]
          BY <2>1, <2>3, <4>1 DEF RunsAfter, Activate, Await, ReceiveFromServer
        <5>. QED  BY <4>1, <5>1 DEF Activate, Await, Runs
      <4>2. CASE Probe(w)
        <5>1. w_running[w] = TRUE
          BY <2>1, <4>2 DEF Probe, At, Stopping
        <5>2. s2w[w] # <<>> => RunsAfter(w, Head(s2w[w]))
          BY <2>3, <5>1 DEF RunsAfter
        <5>3. w_running' = [w_running EXCEPT ![w] = TRUE]
          BY <4>2, <5>2 DEF Probe, Runs
        <5>. QED  BY <5>1, <5>3
      <4>. QED  BY <1>1, <4>1, <4>2
    <3>. QED  BY <2>1, <3>1
  <2>. QED  BY <2>2, <2>3
<1>2. CASE ~(Activate(w) \/ Probe(w) \/ Await(w))
  BY <1>2 DEF MainThread, ReturnTask, NothingToReturn, CreateTasks,
              UnreadableFormula, StoreCounter, Join, Disconnect
<1>. QED  BY <1>1, <1>2

(* Where the main thread of a worker can go: it stays in the part before   *)
(* running is false or gets into the part after it (main in worker.cpp).   *)
LEMMA MainMoves ==
    ASSUME WorkerTypes, Stopping, NEW w \in Worker, MainThread(w)
    PROVE  /\ \A v \in Worker \ {w} : w_pc'[v] = w_pc[v]
           /\ w_pc[w] \notin {"absent", "connect", "barrier", "bye", "gone",
                              "aborted"}
           /\ w_pc'[w] \notin {"absent", "connect", "bye", "gone"}
           /\ w_pc'[w] \in {"loop", "probe", "create", "store"} => w_running'[w]
           /\ w_pc'[w] \in {"join", "flush", "barrier"} => ~w_running'[w]
<1>. USE DEF At, Goto, LoopOrJoin, WorkerTypes
<1>1. CASE Activate(w)
  BY <1>1 DEF Activate, Runs, RunsAfter
<1>2. CASE ReturnTask(w)
  BY <1>2 DEF ReturnTask, Stopping
<1>3. CASE NothingToReturn(w)
  BY <1>3 DEF NothingToReturn, Stopping
<1>4. CASE Probe(w)
  BY <1>4 DEF Probe, Runs, RunsAfter
<1>5. CASE Await(w)
  BY <1>5 DEF Await, Runs, RunsAfter
<1>6. CASE CreateTasks(w)
  BY <1>6 DEF CreateTasks, NextJobOrLoop, Stopping
<1>7. CASE UnreadableFormula(w)
  BY <1>7 DEF UnreadableFormula
<1>8. CASE StoreCounter(w)
  BY <1>8 DEF StoreCounter, NextJobOrLoop, Stopping
<1>9. CASE Join(w)
  BY <1>9 DEF Join, Stopping
<1>10. CASE Disconnect(w)
  BY <1>10 DEF Disconnect, Stopping
<1>. QED  BY <1>1, <1>2, <1>3, <1>4, <1>5, <1>6, <1>7, <1>8, <1>9, <1>10
          DEF MainThread

(* A worker leaves its main loop only because running is false, and stays  *)
(* out (main in worker.cpp).                                               *)
LEMMA StoppingKept ==
    ASSUME WorkerTypes, ChannelTypes, Farewell, Stopping, Next
    PROVE  Stopping'
<1>1. ASSUME NEW w \in Worker
      PROVE  /\ w_pc'[w] \in {"absent", "connect", "loop", "probe", "create",
                              "store"} => w_running'[w]
             /\ w_pc'[w] \in {"join", "flush", "barrier", "bye", "gone"} =>
                    ~w_running'[w]
  <2>1. ASSUME NEW v \in Worker, MainThread(v)
        PROVE  /\ w_pc'[w] \in {"absent", "connect", "loop", "probe", "create",
                                "store"} => w_running'[w]
               /\ w_pc'[w] \in {"join", "flush", "barrier", "bye", "gone"} =>
                      ~w_running'[w]
    BY <2>1, MainMoves, MainStops DEF Stopping
  <2>2. ASSUME NEW v \in Worker, NEW i \in Thread, SolverThread(v, i)
        PROVE  UNCHANGED <<w_pc, w_running>>
    BY <2>2 DEF SolverThread, PopTask, StopPolling, StartTask, FinishTask,
                StoreIncremented, OnlyThread
  <2>3. \A v \in Worker : Ready(v) /\ Head(w2s[v]).tag = "DISCONNECT" =>
            w_pc[v] = "barrier"
    BY FirstOfSeq DEF Farewell, Ready, ChannelTypes
  <2>. QED  BY <2>1, <2>2, <2>3, OtherSteps
            DEF MainAlone, ThreadAlone, Goto, Stopping, WorkerTypes
<1>2. ASSUME ~terminated_workers', NEW w \in Worker
      PROVE  /\ w_running'[w]
             /\ \A i \in DOMAIN s2w'[w] : s2w'[w][i].tag # "TERMINATE"
  <2>1. ~terminated_workers
    BY <1>2, TerminationNoted
  <2>2. /\ w_running[w]
        /\ \A i \in DOMAIN s2w[w] : s2w[w][i].tag # "TERMINATE"
    BY <2>1 DEF Stopping
  <2>3. s2w[w] # <<>> => Head(s2w[w]).tag # "TERMINATE"
    BY <2>2, FirstOfSeq DEF ChannelTypes
  <2>4. w_running'[w]
    <3>1. ASSUME NEW v \in Worker, MainThread(v)
          PROVE  w_running'[w]
      BY <2>2, <2>3, <3>1, MainStops
    <3>2. ASSUME NEW v \in Worker, NEW i \in Thread, SolverThread(v, i)
          PROVE  UNCHANGED w_running
      BY <3>2 DEF SolverThread, PopTask, StopPolling, StartTask, FinishTask,
                  StoreIncremented, OnlyThread
    <3>. QED  BY <2>2, <3>1, <3>2, OtherSteps DEF MainAlone, ThreadAlone
  <2>5. \A i \in DOMAIN s2w'[w] : s2w'[w][i].tag # "TERMINATE"
    <3>1. s2w[w] \in Seq(FromServer) /\ reply.jobs \in Seq(JobType)
      BY DEF ChannelTypes
    <3>2. CASE s2w[w] # <<>> /\ s2w'[w] = Tail(s2w[w])
      BY <2>2, <3>1, <3>2, FirstOfSeq
    <3>3. ASSUME NEW msg \in FromServer, msg.tag # "TERMINATE",
                 s2w'[w] = Append(s2w[w], msg)
          PROVE  \A i \in DOMAIN s2w'[w] : s2w'[w][i].tag # "TERMINATE"
      BY <2>2, <3>1, <3>3, LastOfAppend
    <3>4. /\ ActivateWorker \in FromServer /\ ActivateWorker.tag # "TERMINATE"
          /\ SendInstances(reply.jobs).tag # "TERMINATE"
      BY DEF FromServer, ActivateWorker, SendInstances
    <3>5. SendInstances(reply.jobs) \in FromServer
      BY <3>1, Zenon DEF FromServer
    <3>. QED  BY <1>2, <2>2, <3>2, <3>3, <3>4, <3>5, ToWorkers
  <2>. QED  BY <2>4, <2>5
<1>. QED  BY <1>1, <1>2 DEF Stopping

(* Where a worker can be after a step, wherever the step was taken.        *)
LEMMA WhereNext ==
    ASSUME WorkerTypes, ChannelTypes, Stopping, Farewell, Next, NEW w \in Worker
    PROVE  \/ w_pc'[w] = w_pc[w]
           \/ MainAlone(w)
           \/ Spawn(w) /\ w_pc[w] = "absent" /\ w_pc'[w] = "connect"
           \/ Connect(w) /\ w_pc[w] = "connect" /\ w_pc'[w] = "activate"
           \/ LookupFails(w) /\ w_pc[w] = "connect" /\ w_pc'[w] = "aborted"
           \/ WorkerBarrier(w) /\ w_pc[w] = "bye" /\ w_pc'[w] = "gone"
           \/ /\ w_pc[w] = "barrier" /\ w_pc'[w] = "bye"
              /\ ServeWorker(w) /\ Head(w2s[w]).tag = "DISCONNECT"
              /\ w2s[w] # <<>> /\ w2s'[w] = Tail(w2s[w])
<1>1. \A v \in Worker : Ready(v) /\ Head(w2s[v]).tag = "DISCONNECT" =>
          w_pc[v] = "barrier"
  BY FirstOfSeq DEF Farewell, Ready, ChannelTypes
<1>2. ASSUME NEW v \in Worker, MainAlone(v)
      PROVE  v = w \/ w_pc'[w] = w_pc[w]
  BY <1>2, MainMoves DEF MainAlone
<1>3. \A v \in Worker : ServeWorker(v) => w2s[v] # <<>> /\ w2s'[v] = Tail(w2s[v])
  BY DEF ServeWorker, Ready, ChannelTypes
<1>. QED  BY <1>1, <1>2, <1>3, OtherSteps, SolverLeaves
          DEF ThreadAlone, Goto, WorkerTypes

(* A worker that waits for instances does so until they arrive.            *)
LEMMA AwaitLeft ==
    ASSUME WorkerTypes, ChannelTypes, Stopping, Farewell, Next, NEW w \in Worker,
           w_pc[w] = "await", w_pc'[w] # "await"
    PROVE  /\ MainAlone(w) /\ Await(w)
           /\ s2w[w] # <<>> /\ Head(s2w[w]).tag = "SEND_INSTANCES"
           /\ s2w'[w] = Tail(s2w[w])
<1>1. MainAlone(w)
  BY WhereNext
<1>2. Await(w)
  BY <1>1 DEF MainAlone, MainThread, Activate, ReturnTask, NothingToReturn,
              Probe, CreateTasks, UnreadableFormula, StoreCounter, Join,
              Disconnect, At
<1>. QED  BY <1>1, <1>2
          DEF Await, ReceiveFromServer, Goto, WorkerTypes, ChannelTypes

(* The server serves commands only in its main loop, and its termination   *)
(* is decided once (main in server.cpp).                                   *)
LEMMA ServingKept ==
    ASSUME SchedProofs!IInv, Serving, Next
    PROVE  Serving'
<1>. USE DEF Serving
<1>1. CASE ServeManager
  BY <1>1 DEF ServeManager, ProcessAddFile, ProcessAddWorkers,
              ProcessTerminate, AtProbe, NextRound
<1>2. ASSUME NEW w \in Worker, ServeWorker(w)
      PROVE  Serving'
  <2>1. CASE srv_pc' = "handout"
    BY <1>2, <2>1 DEF ServeWorker, ProcessGetInstances, ProcessFoundSolution,
                      ProcessDoneProcessing, ProcessDisconnect, Ready, Connected
  <2>2. CASE srv_pc' # "handout"
    BY <1>2, <2>2 DEF ServeWorker, ProcessGetInstances, ProcessFoundSolution,
                      ProcessDoneProcessing, ProcessDisconnect
  <2>. QED  BY <2>1, <2>2
<1>3. CASE ServerAlone
  BY <1>3 DEF ServerAlone, HandOut, SendReply, Leave, NoManagerCommand,
              NextRound, MoreToHandOut, Connected
<1>4. CASE ServerBarrier
  BY <1>4 DEF ServerBarrier, PassManagerBarrier, NextRound
<1>5. ASSUME NEW w \in Worker, Connect(w)
      PROVE  Serving'
  BY <1>5 DEF Connect, AcceptWorker
<1>6. CASE UNCHANGED server_vars
  BY <1>6 DEF server_vars, Connected
<1>. QED  BY <1>1, <1>2, <1>3, <1>4, <1>5, <1>6
          DEF Next, MainAlone, ThreadAlone, ManagerAlone, LookupFails, Spawn,
              WorkerBarrier

(* DISCONNECT is the last command of a worker, and the server has          *)
(* disconnected those who are gone.                                        *)
LEMMA FarewellKept ==
    ASSUME WorkerTypes, ChannelTypes, Threads, Stopping, Farewell, Next
    PROVE  Farewell'
<1>1. ASSUME NEW w \in Worker, NEW i \in DOMAIN w2s'[w],
             w2s'[w][i].tag = "DISCONNECT"
      PROVE  i = Len(w2s'[w]) /\ w_pc'[w] = "barrier"
  <2>1. w2s[w] \in Seq(FromWorker)
    BY DEF ChannelTypes
  <2>2. CASE w2s'[w] = w2s[w]
    <3>1. i = Len(w2s[w]) /\ w_pc[w] = "barrier"
      BY <1>1, <2>2 DEF Farewell
    <3>2. ~MainAlone(w)
      BY <3>1, MainMoves DEF MainAlone
    <3>3. w2s'[w] = Tail(w2s[w]) => w2s[w] = <<>>
      BY <2>1, <2>2, TailDiffers
    <3>. QED  BY <2>2, <3>1, <3>2, <3>3, WhereNext
  <2>3. CASE ServeWorker(w) /\ w2s[w] # <<>> /\ w2s'[w] = Tail(w2s[w])
    <3>1. /\ i + 1 \in DOMAIN w2s[w] /\ w2s'[w][i] = w2s[w][i + 1]
          /\ Len(w2s'[w]) = Len(w2s[w]) - 1 /\ i \in 1 .. Len(w2s[w]) - 1
          /\ Len(w2s[w]) \in Nat
      BY <2>1, <2>3, FirstOfSeq
    <3>2. i + 1 = Len(w2s[w]) /\ w_pc[w] = "barrier"
      BY <1>1, <3>1 DEF Farewell
    <3>3. Head(w2s[w]).tag # "DISCONNECT"
      <4>1. 1 \in DOMAIN w2s[w] /\ Head(w2s[w]) = w2s[w][1]
        BY <2>1, <2>3, FirstOfSeq
      <4>2. 1 # Len(w2s[w])
        BY <3>1, <3>2
      <4>. QED  BY <4>1, <4>2 DEF Farewell
    <3>4. ~MainAlone(w)
      BY <3>2, MainMoves DEF MainAlone
    <3>. QED  BY <3>1, <3>2, <3>3, <3>4, WhereNext
  <2>4. CASE MainAlone(w) /\ (ReturnTask(w) \/ Probe(w) \/ Disconnect(w))
    <3>1. MainThread(w) /\ w_pc[w] # "barrier"
      BY <2>4 DEF MainAlone, MainThread, ReturnTask, Probe, Disconnect, At
    <3>2. \A j \in DOMAIN w2s[w] : w2s[w][j].tag # "DISCONNECT"
      BY <3>1 DEF Farewell
    <3>3. PICK n, done : n = Len(w2s[w]) /\ done = Head(tasks_done[w])
      OBVIOUS
    <3>4. /\ n \in Nat /\ DOMAIN w2s[w] = 1 .. n
          /\ w2s'[w] \in Seq(FromWorker)
          /\ \A j \in 1 .. n : w2s'[w][j] = w2s[w][j]
          /\ \/ DOMAIN w2s'[w] = 1 .. n
             \/ /\ DOMAIN w2s'[w] = 1 .. n + 2
                /\ w2s'[w][n + 1].tag = "FOUND_SOLUTION"
                /\ w2s'[w][n + 2].tag = "DONE_PROCESSING"
             \/ /\ DOMAIN w2s'[w] = 1 .. n + 1
                /\ w2s'[w][n + 1].tag = "DONE_PROCESSING"
             \/ /\ DOMAIN w2s'[w] = 1 .. n + 1
                /\ w2s'[w][n + 1].tag = "GET_INSTANCES"
             \/ /\ DOMAIN w2s'[w] = 1 .. n + 1
                /\ w_pc'[w] = "barrier"
      <4>1. Disconnect(w) => w_pc'[w] = "barrier"
        BY DEF Disconnect, Goto, WorkerTypes
      <4>. QED  BY <2>4, <3>3, <4>1, WorkerSends, Zenon
    <3>5. ASSUME NEW k \in Nat, DOMAIN w2s'[w] = 1 .. k
          PROVE  Len(w2s'[w]) = k
      BY <3>4, <3>5, LenProperties
    <3>6. i \notin 1 .. n
      BY <1>1, <3>2, <3>4
    <3>7. DOMAIN w2s'[w] # 1 .. n
      BY <1>1, <3>6
    <3>8. ~(/\ DOMAIN w2s'[w] = 1 .. n + 2
            /\ w2s'[w][n + 1].tag = "FOUND_SOLUTION"
            /\ w2s'[w][n + 2].tag = "DONE_PROCESSING")
      <4>1. i \in 1 .. n + 2 => i = n + 1 \/ i = n + 2
        BY <3>4, <3>6
      <4>. QED  BY <1>1, <4>1
    <3>9. DOMAIN w2s'[w] = 1 .. n + 1
      BY <3>4, <3>7, <3>8
    <3>10. i = n + 1
      BY <1>1, <3>4, <3>6, <3>9
    <3>11. w_pc'[w] = "barrier"
      BY <1>1, <3>4, <3>7, <3>8, <3>10
    <3>. QED  BY <3>4, <3>5, <3>9, <3>10, <3>11
  <2>. QED  BY <2>2, <2>3, <2>4, FromWorkers
<1>2. ASSUME NEW w \in Worker, w_pc'[w] \in {"absent", "connect", "activate"}
      PROVE  tasks_done'[w] = <<>>
  <2>1. w_pc[w] \in {"absent", "connect", "activate"} => tasks_done[w] = <<>>
    BY DEF Farewell
  <2>2. CASE tasks_done'[w] = tasks_done[w]
    <3>1. w_pc[w] \in {"absent", "connect", "activate"}
      <4>1. ASSUME MainThread(w)
            PROVE  w_pc[w] = "activate"
        BY <1>2, <4>1, MainMoves
        DEF MainThread, ReturnTask, NothingToReturn, Probe, Await,
            CreateTasks, UnreadableFormula, StoreCounter, Join, Disconnect,
            At, Goto, LoopOrJoin, NextJobOrLoop, WorkerTypes, Activate
      <4>. QED  BY <1>2, <4>1, WhereNext DEF MainAlone
    <3>. QED  BY <2>1, <2>2, <3>1
  <2>3. CASE ReturnTask(w)
    BY <1>2, <2>1, <2>3, MainMoves
    DEF MainThread, ReturnTask, At, Goto, WorkerTypes
  <2>4. ASSUME NEW i \in Thread, NEW outcome \in Outcomes, FinishTask(w, i, outcome)
        PROVE  FALSE
    BY <1>2, <2>4 DEF FinishTask, OnlyThread, Threads
  <2>5. \/ tasks_done'[w] = tasks_done[w]
        \/ ReturnTask(w)
        \/ \E i \in Thread, outcome \in Outcomes : FinishTask(w, i, outcome)
    <3>1. ASSUME NEW v \in Worker, MainThread(v)
          PROVE  tasks_done'[w] = tasks_done[w] \/ ReturnTask(w)
      <4>1. CASE ReturnTask(v)
        BY <4>1 DEF ReturnTask, WorkerTypes
      <4>2. CASE ~ReturnTask(v)
        BY <3>1, <4>2 DEF MainThread, Activate, NothingToReturn, Probe, Await,
                CreateTasks, UnreadableFormula, StoreCounter, Join, Disconnect
      <4>. QED  BY <4>1, <4>2
    <3>2. ASSUME NEW v \in Worker, NEW i \in Thread, SolverThread(v, i)
          PROVE  \/ tasks_done'[w] = tasks_done[w]
                 \/ \E outcome \in Outcomes : FinishTask(w, i, outcome)
      <4>1. ASSUME NEW outcome \in Outcomes, FinishTask(v, i, outcome)
            PROVE  tasks_done'[w] = tasks_done[w] \/ v = w
        BY <4>1 DEF FinishTask, WorkerTypes
      <4>. QED  BY <3>2, <4>1 DEF SolverThread, PopTask, StopPolling,
                   StartTask,
                                  StoreIncremented
    <3>. QED  BY <3>1, <3>2, OtherSteps DEF MainAlone, ThreadAlone
  <2>. QED  BY <2>2, <2>3, <2>4, <2>5
<1>. QED  BY <1>1, <1>2 DEF Farewell

(* A request, the work on it and its answer exclude one another.           *)
LEMMA RequestingKept ==
    ASSUME WorkerTypes, ChannelTypes, Stopping, Farewell, Serving, Requesting,
           Next
    PROVE  Requesting'
<1>. SUFFICES ASSUME NEW w \in Worker
              PROVE  /\ \A i \in DOMAIN w2s'[w] :
                            w2s'[w][i].tag = "GET_INSTANCES" =>
                                /\ i = Len(w2s'[w])
                                /\ w_pc'[w] = "await"
                                /\ reply'.to # w
                                /\ NoAnswer(w)'
                     /\ reply'.to = w => w_pc'[w] = "await" /\ NoAnswer(w)'
                     /\ \A i, j \in DOMAIN s2w'[w] :
                            /\ s2w'[w][i].tag = "SEND_INSTANCES" =>
                                   w_pc'[w] = "await"
                            /\ /\ s2w'[w][i].tag = "SEND_INSTANCES"
                               /\ s2w'[w][j].tag = "SEND_INSTANCES"
                               => i = j
  BY DEF Requesting
<1>. DEFINE n     == Len(w2s[w])
            GET(i)  == i \in DOMAIN w2s[w] /\ w2s[w][i].tag = "GET_INSTANCES"
            SEND(i) == i \in DOMAIN s2w[w] /\ s2w[w][i].tag = "SEND_INSTANCES"
            NewSEND(i) == /\ i \in DOMAIN s2w'[w]
                          /\ s2w'[w][i].tag = "SEND_INSTANCES"
<1>1. /\ w2s[w] \in Seq(FromWorker) /\ n \in Nat /\ DOMAIN w2s[w] = 1 .. n
      /\ s2w[w] \in Seq(FromServer)
      /\ DOMAIN s2w[w] = 1 .. Len(s2w[w]) /\ Len(s2w[w]) \in Nat
  BY LenProperties DEF ChannelTypes
<1>2. /\ \A i : GET(i) => /\ i = n /\ w_pc[w] = "await" /\ reply.to # w
                          /\ \A j : ~SEND(j)
      /\ reply.to = w => w_pc[w] = "await" /\ \A j : ~SEND(j)
      /\ \A i, j : SEND(i) => w_pc[w] = "await" /\ (SEND(j) => i = j)
  BY DEF Requesting, NoAnswer
(* What is new in the channel to the worker.                               *)
<1>3. ASSUME NEW i, NewSEND(i)
      PROVE  \/ s2w'[w] = s2w[w] /\ SEND(i)
             \/ /\ MainAlone(w) /\ s2w[w] # <<>> /\ s2w'[w] = Tail(s2w[w])
                /\ SEND(i + 1) /\ i \in 1 .. Len(s2w[w]) - 1
             \/ DOMAIN s2w'[w] = 1 .. Len(s2w[w]) + 1 /\ SEND(i)
             \/ /\ ServerAlone /\ SendReply /\ reply.to = w
                /\ DOMAIN s2w'[w] = 1 .. Len(s2w[w]) + 1
                /\ SEND(i) \/ i = Len(s2w[w]) + 1
  <2>1. CASE s2w'[w] = s2w[w]
    BY <1>3, <2>1
  <2>2. CASE MainAlone(w) /\ s2w[w] # <<>> /\ s2w'[w] = Tail(s2w[w])
    BY <1>1, <1>3, <2>2, FirstOfSeq
  <2>3. ASSUME NEW msg \in FromServer, s2w'[w] = Append(s2w[w], msg)
        PROVE  /\ DOMAIN s2w'[w] = 1 .. Len(s2w[w]) + 1
               /\ i = Len(s2w[w]) + 1 => msg.tag = "SEND_INSTANCES"
               /\ SEND(i) \/ i = Len(s2w[w]) + 1
    <3>1. /\ DOMAIN s2w'[w] = 1 .. Len(s2w[w]) + 1
          /\ s2w'[w][Len(s2w[w]) + 1] = msg
          /\ \A k \in DOMAIN s2w[w] : s2w'[w][k] = s2w[w][k]
      BY <1>1, <2>3, LastOfAppend
    <3>. QED  BY <1>1, <1>3, <3>1
  <2>4. /\ ActivateWorker \in FromServer /\ TerminateWorker \in FromServer
        /\ ActivateWorker.tag # "SEND_INSTANCES"
        /\ TerminateWorker.tag # "SEND_INSTANCES"
    BY DEF FromServer, ActivateWorker, TerminateWorker
  <2>5. SendInstances(reply.jobs) \in FromServer
    <3>1. reply.jobs \in Seq(JobType)
      BY DEF ChannelTypes
    <3>. QED  BY <3>1, Zenon DEF FromServer
  <2>. HIDE DEF SEND, n
  <2>. QED  BY <2>1, <2>2, <2>3, <2>4, <2>5, ToWorkers
<1>. HIDE DEF SEND
(* The worker waits on while there is no answer.                           *)
<1>4. (\A j : ~SEND(j)) /\ w_pc[w] = "await" => w_pc'[w] = "await"
  <2>1. s2w[w] # <<>> => SEND(1) \/ Head(s2w[w]).tag # "SEND_INSTANCES"
    BY <1>1, FirstOfSeq DEF SEND
  <2>. QED  BY <2>1, AwaitLeft
<1>5. ASSUME NEW i, NewSEND(i)
      PROVE  /\ w_pc'[w] = "await"
             /\ \A j : NewSEND(j) => i = j
             /\ (\E k : SEND(k)) \/ (ServerAlone /\ SendReply /\ reply.to = w)
  <2>1. CASE ServerAlone /\ SendReply /\ reply.to = w
    <3>1. w_pc[w] = "await" /\ \A j : ~SEND(j)
      BY <1>2, <2>1
    <3>2. \A j : NewSEND(j) => j = Len(s2w[w]) + 1 \/ j = i
      BY <1>3, <3>1
    <3>3. i = Len(s2w[w]) + 1
      BY <1>3, <1>5, <3>1
    <3>. QED  BY <1>4, <2>1, <3>1, <3>2, <3>3
  <2>2. CASE ~(ServerAlone /\ SendReply /\ reply.to = w)
    <3>1. CASE MainAlone(w) /\ s2w[w] # <<>> /\ s2w'[w] = Tail(s2w[w])
      <4>1. s2w'[w] # s2w[w] /\ DOMAIN s2w'[w] # 1 .. Len(s2w[w]) + 1
        <5>1. s2w'[w] # s2w[w]
          BY <1>1, <3>1, TailDiffers
        <5>2. DOMAIN s2w'[w] = 1 .. Len(s2w[w]) - 1
          BY <1>1, <3>1, FirstOfSeq
        <5>3. /\ Len(s2w[w]) + 1 \in 1 .. Len(s2w[w]) + 1
              /\ Len(s2w[w]) + 1 \notin 1 .. Len(s2w[w]) - 1
          BY <1>1
        <5>. QED  BY <5>1, <5>2, <5>3
      <4>2. \A j : NewSEND(j) => SEND(j + 1) /\ j \in 1 .. Len(s2w[w]) - 1
        BY <1>3, <2>2, <4>1
      <4>3. Head(s2w[w]).tag = "SEND_INSTANCES" => SEND(1)
        BY <1>1, <3>1, FirstOfSeq DEF SEND
      <4>4. SEND(i + 1) /\ i + 1 # 1
        BY <1>5, <4>2
      <4>5. w_pc'[w] = "await"
        BY <1>2, <4>3, <4>4, AwaitLeft
      <4>6. ASSUME NEW j, NewSEND(j)
            PROVE  i = j
        <5>1. i + 1 = j + 1 /\ i \in Int /\ j \in Int
          BY <1>2, <1>5, <4>2, <4>6
        <5>. QED  BY <5>1
      <4>. QED  BY <4>4, <4>5, <4>6
    <3>2. CASE ~(MainAlone(w) /\ s2w[w] # <<>> /\ s2w'[w] = Tail(s2w[w]))
      <4>1. \A j : NewSEND(j) => SEND(j)
        BY <1>3, <2>2, <3>2
      <4>2. w_pc'[w] = "await"
        BY <1>2, <1>5, <3>2, <4>1, AwaitLeft
      <4>. QED  BY <1>2, <1>5, <4>1, <4>2
    <3>. QED  BY <3>1, <3>2
  <2>. QED  BY <2>1, <2>2
<1>6. \A i : NewSEND(i) => /\ w_pc'[w] = "await"
                           /\ \A j : NewSEND(j) => i = j
  BY <1>5
(* The server takes up a request.                                          *)
<1>7. ASSUME reply'.to = w
      PROVE  w_pc'[w] = "await" /\ \A i : ~NewSEND(i)
  <2>1. CASE ServeWorker(w) /\ Head(w2s[w]).tag = "GET_INSTANCES"
    <3>1. GET(1)
      BY <1>1, <2>1, FirstOfSeq DEF ServeWorker, Ready
    <3>2. s2w' = s2w /\ w_pc' = w_pc
      BY <2>1 DEF ServeWorker, ProcessGetInstances
    <3>. QED  BY <1>2, <3>1, <3>2 DEF SEND
  <2>2. CASE reply.to = w /\ ~SendReply
    <3>1. w_pc[w] = "await" /\ \A j : ~SEND(j)
      BY <1>2, <2>2
    <3>. QED  BY <1>4, <1>5, <2>2, <3>1
  <2>3. ASSUME NEW v \in Worker, reply' = [to |-> v, left |-> Served(Head(w2s[v]).num),
                                           jobs |-> <<>>]
        PROVE  v = w
    BY <1>7, <2>3
  <2>4. ASSUME NEW l, NEW jobs, reply' = [to |-> reply.to, left |-> l, jobs |-> jobs]
        PROVE  reply.to = w
    BY <1>7, <2>4
  <2>5. ~(SendReply /\ reply' = NoReply)
    BY <1>7, ClusterAssumption DEF NoReply
  <2>6. ~(HandOut /\ SendReply)
    BY DEF HandOut, SendReply
  <2>7. SendReply => reply' = NoReply
    BY DEF SendReply
  <2>. QED  BY <1>7, <2>1, <2>2, <2>3, <2>4, <2>5, <2>6, <2>7, ReplyForms
(* The worker has asked.                                                   *)
<1>8. ASSUME NEW i \in DOMAIN w2s'[w], w2s'[w][i].tag = "GET_INSTANCES"
      PROVE  /\ i = Len(w2s'[w]) /\ w_pc'[w] = "await" /\ reply'.to # w
             /\ \A j : ~NewSEND(j)
  <2>1. CASE MainAlone(w) /\ (ReturnTask(w) \/ Probe(w) \/ Disconnect(w))
    <3>1. w_pc[w] # "await" /\ reply' = reply
      BY <2>1 DEF MainAlone, server_vars, ReturnTask, Probe, Disconnect, At
    <3>2. reply.to # w /\ (\A j : ~GET(j)) /\ \A j : ~SEND(j)
      BY <1>2, <3>1
    <3>3. PICK k, done : k = Len(w2s[w]) /\ done = Head(tasks_done[w])
      OBVIOUS
    <3>4. /\ k \in Nat /\ DOMAIN w2s[w] = 1 .. k
          /\ w2s'[w] \in Seq(FromWorker)
          /\ \A j \in 1 .. k : w2s'[w][j] = w2s[w][j]
          /\ \/ DOMAIN w2s'[w] = 1 .. k
             \/ /\ DOMAIN w2s'[w] = 1 .. k + 2
                /\ w2s'[w][k + 1].tag = "FOUND_SOLUTION"
                /\ w2s'[w][k + 2].tag = "DONE_PROCESSING"
             \/ /\ DOMAIN w2s'[w] = 1 .. k + 1
                /\ w2s'[w][k + 1].tag = "DONE_PROCESSING"
             \/ /\ DOMAIN w2s'[w] = 1 .. k + 1
                /\ w_pc'[w] = "await"
             \/ /\ DOMAIN w2s'[w] = 1 .. k + 1
                /\ w2s'[w][k + 1].tag = "DISCONNECT"
      BY <2>1, <3>3, WorkerSends, Zenon
    <3>5. ASSUME NEW m \in Nat, DOMAIN w2s'[w] = 1 .. m
          PROVE  Len(w2s'[w]) = m
      BY <3>4, <3>5, LenProperties
    <3>6. i \notin 1 .. k
      BY <1>8, <3>2, <3>4
    <3>7. DOMAIN w2s'[w] # 1 .. k
      BY <1>8, <3>6
    <3>8. ~(/\ DOMAIN w2s'[w] = 1 .. k + 2
            /\ w2s'[w][k + 1].tag = "FOUND_SOLUTION"
            /\ w2s'[w][k + 2].tag = "DONE_PROCESSING")
      <4>1. i \in 1 .. k + 2 => i = k + 1 \/ i = k + 2
        BY <3>4, <3>6
      <4>. QED  BY <1>8, <4>1
    <3>9. DOMAIN w2s'[w] = 1 .. k + 1
      BY <3>4, <3>7, <3>8
    <3>10. i = k + 1
      BY <1>8, <3>4, <3>6, <3>9
    <3>11. w_pc'[w] = "await"
      BY <1>8, <3>4, <3>7, <3>8, <3>10
    <3>12. ~(ServerAlone /\ SendReply /\ reply.to = w)
      BY <3>2
    <3>. QED  BY <1>5, <3>1, <3>2, <3>4, <3>5, <3>9, <3>10, <3>11, <3>12
  <2>2. CASE ~(MainAlone(w) /\ (ReturnTask(w) \/ Probe(w) \/ Disconnect(w)))
    <3>1. \/ w2s'[w] = w2s[w] /\ GET(i)
          \/ /\ w2s[w] # <<>> /\ w2s'[w] = Tail(w2s[w]) /\ GET(i + 1)
             /\ i \in 1 .. n - 1 /\ Len(w2s'[w]) = n - 1
      <4>1. CASE w2s'[w] = w2s[w]
        BY <1>8, <4>1
      <4>2. CASE w2s[w] # <<>> /\ w2s'[w] = Tail(w2s[w])
        BY <1>1, <1>8, <4>2, FirstOfSeq
      <4>. QED  BY <2>2, <4>1, <4>2, FromWorkers
    <3>2. /\ w_pc[w] = "await" /\ reply.to # w /\ \A j : ~SEND(j)
          /\ i = Len(w2s'[w])
      <4>1. GET(i) \/ GET(i + 1)
        BY <3>1
      <4>2. w_pc[w] = "await" /\ reply.to # w /\ \A j : ~SEND(j)
        BY <1>2, <4>1
      <4>3. i = Len(w2s'[w])
        BY <1>1, <1>2, <3>1
      <4>. QED  BY <4>2, <4>3
    <3>3. ASSUME ServeWorker(w), Head(w2s[w]).tag = "GET_INSTANCES"
          PROVE  FALSE
      <4>1. w2s[w] # <<>> /\ w2s'[w] = Tail(w2s[w])
        BY <3>3 DEF ServeWorker, Ready, ChannelTypes
      <4>2. GET(1)
        BY <1>1, <3>3, <4>1, FirstOfSeq
      <4>3. n = 1
        BY <1>2, <4>2
      <4>4. w2s'[w] # w2s[w]
        BY <1>1, <4>1, TailDiffers
      <4>. QED  BY <3>1, <4>3, <4>4
    <3>4. reply'.to # w
      <4>1. ASSUME NEW v \in Worker, ServeWorker(v),
                   Head(w2s[v]).tag = "GET_INSTANCES",
                   reply' = [to |-> v, left |-> Served(Head(w2s[v]).num),
                             jobs |-> <<>>]
            PROVE  reply'.to # w
        BY <3>3, <4>1
      <4>2. ASSUME NEW l, NEW jobs,
                   reply' = [to |-> reply.to, left |-> l, jobs |-> jobs]
            PROVE  reply'.to # w
        BY <3>2, <4>2
      <4>3. reply' = NoReply => reply'.to # w
        BY ClusterAssumption DEF NoReply
      <4>. QED  BY <3>2, <4>1, <4>2, <4>3, ReplyForms
    <3>5. w_pc'[w] = "await"
      BY <1>4, <3>2
    <3>. QED  BY <1>5, <3>2, <3>4, <3>5
  <2>. QED  BY <2>1, <2>2
<1>9. (\A j : ~NewSEND(j)) => NoAnswer(w)'
  BY DEF NoAnswer
<1>. HIDE DEF GET, n
<1>. QED  BY <1>6, <1>7, <1>8, <1>9

(* Manager and server go through ADD_WORKERS together.                     *)
LEMMA BarriersKept ==
    ASSUME ChannelTypes, Handshake, Next
    PROVE  /\ srv_pc' = "enter" => m_pc' = "add1"
           /\ srv_pc' = "accept" => m_pc' \in {"spawn", "add2"}
           /\ srv_pc' = "leave" => m_pc' = "add2"
           /\ m_pc' \in {"spawn", "add2"} =>
                  srv_pc' \in {"accept", "leave", "gone"}
<1>. USE DEF Handshake
<1>1. CASE ServeManager
  <2>1. CASE srv_pc' = "enter"
    <3>1. m2s # <<>> /\ Head(m2s).tag = "ADD_WORKERS" /\ srv_pc # "gone"
      BY <1>1, <2>1 DEF ServeManager, ProcessAddFile, ProcessAddWorkers,
                        ProcessTerminate, AtProbe, NextRound
    <3>2. 1 \in DOMAIN m2s /\ Head(m2s) = m2s[1]
      BY <3>1, FirstOfSeq DEF ChannelTypes
    <3>. QED  BY <1>1, <2>1, <3>1, <3>2 DEF ServeManager
  <2>2. CASE srv_pc' # "enter"
    BY <1>1, <2>2 DEF ServeManager, ProcessAddFile, ProcessAddWorkers,
                      ProcessTerminate, AtProbe, NextRound
  <2>. QED  BY <2>1, <2>2
<1>2. ASSUME NEW w \in Worker, ServeWorker(w)
      PROVE  /\ srv_pc = "testany" /\ srv_pc' \in {"handout", "iprobe"}
             /\ m_pc' = m_pc
  BY <1>2 DEF ServeWorker, ProcessGetInstances, ProcessFoundSolution,
              ProcessDoneProcessing, ProcessDisconnect, manager_vars
<1>3. CASE ServerAlone
  BY <1>3 DEF ServerAlone, HandOut, SendReply, Leave, NoManagerCommand,
              MoreToHandOut, NextRound, manager_vars
<1>4. CASE ServerBarrier
  BY <1>4 DEF ServerBarrier, PassManagerBarrier, PassServerBarrier, NextRound
<1>5. CASE ManagerAlone
  <2>1. srv_pc' = srv_pc
    BY <1>5 DEF ManagerAlone, server_vars
  <2>2. m_pc \in {"cmd", "add", "poll", "wait"} /\ m_pc' \notin {"spawn", "add2"}
    BY <1>5 DEF ManagerAlone, NextCommand, Perform, StopServer, AddNextWorker,
                Rewind, Poll, WaitForServer, CmdOrBye
  <2>. QED  BY <2>1, <2>2
<1>6. ASSUME NEW w \in Worker, Connect(w)
      PROVE  srv_pc = "accept" /\ srv_pc' = "leave" /\ w_pc[w] = "connect"
             /\ m_pc' = m_pc
  BY <1>6 DEF Connect, AcceptWorker, At, manager_vars
<1>7. ASSUME NEW w \in Worker, Spawn(w)
      PROVE  m_pc = "spawn" /\ m_pc' = "add2" /\ srv_pc' = srv_pc
  BY <1>7 DEF Spawn, SpawnWorker, server_vars
<1>8. ASSUME NEW w \in Worker, WorkerBarrier(w)
      PROVE  /\ m_pc = "bye_workers" /\ m_pc' \in {"bye_workers", "gone"}
             /\ srv_pc' = srv_pc
  BY <1>8 DEF WorkerBarrier, PassWorkerBarrier, server_vars
<1>9. ASSUME UNCHANGED <<server_vars, manager_vars>>
      PROVE  UNCHANGED <<srv_pc, m_pc>>
  BY <1>9 DEF server_vars, manager_vars
<1>. QED  BY <1>1, <1>2, <1>3, <1>4, <1>5, <1>6, <1>7, <1>8, <1>9
          DEF Next, LookupFails, MainAlone, ThreadAlone

(* An ADD_WORKERS the server has not seen yet is the manager's last word.  *)
LEMMA OrderOfWorkers ==
    ASSUME ChannelTypes, ManagerTypes, Handshake, Next, NEW i \in DOMAIN m2s',
           m2s'[i].tag = "ADD_WORKERS"
    PROVE  \/ srv_pc' = "gone"
           \/ i = Len(m2s') /\ m_pc' = "add1" /\ srv_pc' # "enter"
<1>1. /\ m2s \in Seq(FromManager) /\ Len(m2s) \in Nat
      /\ DOMAIN m2s = 1 .. Len(m2s)
  BY LenProperties DEF ChannelTypes
<1>2. \A j \in DOMAIN m2s : m2s[j].tag = "ADD_WORKERS" =>
          \/ srv_pc = "gone"
          \/ j = Len(m2s) /\ m_pc = "add1" /\ srv_pc # "enter"
  BY DEF Handshake
<1>3. CASE ServeManager
  <2>1. m2s # <<>> /\ m2s' = Tail(m2s) /\ m_pc' = m_pc
    BY <1>3 DEF ServeManager
  <2>2. i + 1 \in DOMAIN m2s /\ m2s[i + 1].tag = "ADD_WORKERS" /\ i \in Nat \ {0}
        /\ Len(m2s') = Len(m2s) - 1 /\ 1 \in DOMAIN m2s /\ Head(m2s) = m2s[1]
    BY <1>1, <2>1, FirstOfSeq
  <2>3. srv_pc # "gone"
    BY <1>3 DEF ServeManager, ProcessAddFile, ProcessAddWorkers,
                ProcessTerminate, AtProbe
  <2>4. i + 1 = Len(m2s) /\ m_pc = "add1"
    BY <1>2, <2>2, <2>3
  <2>5. Head(m2s).tag # "ADD_WORKERS"
    BY <1>1, <1>2, <2>2, <2>3, <2>4
  <2>6. srv_pc' # "enter"
    BY <1>3, <2>5 DEF ServeManager, ProcessAddFile, ProcessTerminate, AtProbe,
                      NextRound
  <2>. QED  BY <1>1, <2>1, <2>2, <2>4, <2>6
<1>4. CASE m2s' = m2s /\ ~ServeManager
  <2>1. \/ srv_pc = "gone"
        \/ i = Len(m2s') /\ m_pc = "add1" /\ srv_pc # "enter"
    BY <1>2, <1>4
  <2>2. srv_pc = "gone" => srv_pc' = "gone"
    BY <1>4 DEF Next, MainAlone, ThreadAlone, ManagerAlone, LookupFails, Spawn,
      WorkerBarrier, server_vars, ServeWorker, ProcessGetInstances,
      ProcessFoundSolution, ProcessDoneProcessing, ProcessDisconnect, Connect,
      AcceptWorker, ServerBarrier, PassManagerBarrier, ServerAlone, HandOut,
      MoreToHandOut, SendReply, Leave, NoManagerCommand
  <2>3. CASE srv_pc # "gone"
    <3>1. CASE ServerBarrier
      <4>1. srv_pc \notin {"enter", "leave"}
        BY <2>1, <2>3 DEF Handshake
      <4>. QED  BY <3>1, <4>1 DEF ServerBarrier, PassManagerBarrier
    <3>2. CASE ~ServerBarrier
      <4>1. m_pc' = "add1"
        BY <1>4, <2>1, <2>3, <3>2
        DEF Next, MainAlone, ThreadAlone, ManagerAlone, LookupFails, Spawn,
          SpawnWorker, WorkerBarrier, PassWorkerBarrier, manager_vars,
          ServeWorker, Connect, ServerAlone, NextCommand, AddNextWorker,
          Rewind, Poll, WaitForServer
      <4>2. srv_pc' # "enter"
        BY <1>4, <2>1, <2>3, <3>2
        DEF Next, MainAlone, ThreadAlone, ManagerAlone, LookupFails, Spawn,
          WorkerBarrier, server_vars, ServeWorker, ProcessGetInstances,
          ProcessFoundSolution, ProcessDoneProcessing, ProcessDisconnect,
          Connect, AcceptWorker, ServerAlone, HandOut, MoreToHandOut,
          SendReply, Leave, NoManagerCommand, NextRound
      <4>. QED  BY <2>1, <2>3, <4>1, <4>2
    <3>. QED  BY <3>1, <3>2
  <2>. QED  BY <2>2, <2>3
<1>5. ASSUME ManagerAlone, m_pc \in {"cmd", "add", "wait"},
             NEW msg \in FromManager, m2s' = Append(m2s, msg),
             msg.tag = "ADD_WORKERS" => m_pc' = "add1"
      PROVE  \/ srv_pc' = "gone"
             \/ i = Len(m2s') /\ m_pc' = "add1" /\ srv_pc' # "enter"
  <2>1. srv_pc' = srv_pc
    BY <1>5 DEF ManagerAlone, server_vars
  <2>2. i = Len(m2s) + 1 \/ (i \in DOMAIN m2s /\ m2s'[i] = m2s[i])
    BY <1>1, <1>5, LastOfAppend
  <2>3. Len(m2s') = Len(m2s) + 1 /\ m2s'[Len(m2s) + 1] = msg
    BY <1>1, <1>5, LastOfAppend
  <2>4. srv_pc # "enter"
    BY <1>5 DEF Handshake
  <2>. QED  BY <1>2, <1>5, <2>1, <2>2, <2>3, <2>4
<1>6. CASE /\ ManagerAlone /\ m_pc \in {"cmd", "add", "wait"}
           /\ \E msg \in FromManager :
                  /\ m2s' = Append(m2s, msg)
                  /\ msg.tag = "ADD_WORKERS" => m_pc' = "add1"
  BY <1>5, <1>6
<1>. QED  BY <1>3, <1>4, <1>6, ManagerSays

(* At each barrier of add_workers the three processes wait for each other  *)
(* and for nobody else.                                                    *)
LEMMA HandshakeKept ==
    ASSUME WorkerTypes, ChannelTypes, ManagerTypes, Stopping, Farewell,
           Handshake, Next
    PROVE  Handshake'
<1>1. ASSUME NEW w \in Worker, w_pc'[w] = "connect"
      PROVE  /\ m_pc' = "add2" /\ srv_pc' \in {"accept", "gone"}
             /\ \A v \in Worker : w_pc'[v] = "connect" => v = w
  <2>1. ASSUME NEW v \in Worker, w_pc'[v] = "connect"
        PROVE  w_pc[v] = "connect" \/ (Spawn(v) /\ w_pc[v] = "absent")
    <3>1. MainAlone(v) => w_pc'[v] # "connect"
      BY MainMoves DEF MainAlone
    <3>. QED  BY <2>1, <3>1, WhereNext
  <2>2. \A v \in Worker : Spawn(v) =>
            /\ m_pc = "spawn" /\ m_pc' = "add2" /\ srv_pc' = srv_pc
            /\ \A u \in Worker \ {v} : w_pc'[u] = w_pc[u]
    BY DEF Spawn, SpawnWorker, server_vars, Goto, WorkerTypes
  <2>3. \A u, v \in Worker : w_pc[v] = "connect" =>
            /\ m_pc = "add2" /\ srv_pc \in {"accept", "gone"}
            /\ w_pc[u] = "connect" => u = v
    BY DEF Handshake
  <2>4. m_pc = "spawn" => srv_pc \in {"accept", "gone"}
    BY DEF Handshake
  <2>5. \A v \in Worker : w_pc'[v] = "connect" => v = w
    BY <1>1, <2>1, <2>2, <2>3
  <2>6. CASE Spawn(w)
    BY <2>2, <2>4, <2>5, <2>6
  <2>7. CASE ~Spawn(w)
    <3>1. w_pc[w] = "connect"
      BY <1>1, <2>1, <2>7
    <3>2. m_pc = "add2" /\ srv_pc \in {"accept", "gone"}
      BY <2>3, <3>1
    <3>3. \A v \in Worker : ~Spawn(v) /\ ~WorkerBarrier(v)
      BY <2>2, <3>2 DEF WorkerBarrier, PassWorkerBarrier
    <3>4. ~ManagerAlone /\ ~ServeManager
      BY <3>2 DEF ManagerAlone, NextCommand, AddNextWorker, Rewind, Poll,
        WaitForServer, ServeManager, ProcessAddFile, ProcessAddWorkers,
        ProcessTerminate, AtProbe
    <3>5. ~ServerBarrier /\ ~ServerAlone
      BY <3>2 DEF ServerBarrier, PassManagerBarrier, ServerAlone, HandOut,
        MoreToHandOut, SendReply, Leave, NoManagerCommand
    <3>6. \A v \in Worker : ~ServeWorker(v)
      BY <3>2 DEF ServeWorker, ProcessGetInstances, ProcessFoundSolution,
              ProcessDoneProcessing, ProcessDisconnect
    <3>7. \A v \in Worker : ~Connect(v)
      <4>1. ASSUME NEW v \in Worker, Connect(v) PROVE FALSE
        <5>1. v = w
          BY <2>3, <3>1, <4>1 DEF Connect, At
        <5>2. w_pc'[w] = "activate"
          BY <4>1, <5>1 DEF Connect, Goto, WorkerTypes
        <5>. QED  BY <1>1, <5>2
      <4>. QED  BY <4>1
    <3>8. UNCHANGED <<srv_pc, m_pc>>
      BY <3>3, <3>4, <3>5, <3>6, <3>7
      DEF Next, LookupFails, MainAlone, ThreadAlone, server_vars, manager_vars
    <3>. QED  BY <2>5, <3>2, <3>8
  <2>. QED  BY <2>6, <2>7
<1>2. ASSUME NEW i \in DOMAIN m2s', m2s'[i].tag = "ADD_WORKERS"
      PROVE  \/ srv_pc' = "gone"
             \/ i = Len(m2s') /\ m_pc' = "add1" /\ srv_pc' # "enter"
  BY <1>2, OrderOfWorkers
<1>. QED  BY <1>1, <1>2, BarriersKept DEF Handshake

-----------------------------------------------------------------------------
(* Erasing an element moves the later ones one place up.                   *)
LEMMA RemoveAtEffect ==
    ASSUME NEW S, NEW s \in Seq(S), NEW i \in DOMAIN s
    PROVE  /\ RemoveAt(s, i) \in Seq(S)
           /\ Len(s) \in Nat /\ DOMAIN s = 1 .. Len(s)
           /\ DOMAIN RemoveAt(s, i) = 1 .. Len(s) - 1
           /\ \A j \in 1 .. Len(s) - 1 :
                  RemoveAt(s, i)[j] = IF j < i THEN s[j] ELSE s[j + 1]
<1>1. i \in 1 .. Len(s) /\ Len(s) \in Nat /\ DOMAIN s = 1 .. Len(s)
  BY LenProperties
<1>2. PICK left \in Seq(S), right \in Seq(S) :
          /\ left = SubSeq(s, 1, i - 1) /\ right = SubSeq(s, i + 1, Len(s))
          /\ Len(left) = i - 1 /\ Len(right) = Len(s) - i
          /\ \A j \in 1 .. i - 1 : left[j] = s[j]
          /\ \A j \in 1 .. Len(s) - i : right[j] = s[i + j]
  <2>1. \A j \in 1 .. Len(s) : s[j] \in S
    BY ElementOfSeq
  <2>2. /\ SubSeq(s, 1, i - 1) \in Seq(S)
        /\ Len(SubSeq(s, 1, i - 1)) = i - 1
        /\ \A j \in 1 .. i - 1 : SubSeq(s, 1, i - 1)[j] = s[j]
    BY <1>1, <2>1, SubSeqProperties
  <2>3. /\ SubSeq(s, i + 1, Len(s)) \in Seq(S)
        /\ Len(SubSeq(s, i + 1, Len(s))) = Len(s) - i
        /\ \A j \in 1 .. Len(s) - i : SubSeq(s, i + 1, Len(s))[j] = s[i + j]
    BY <1>1, <2>1, SubSeqProperties
  <2>. QED  BY <2>2, <2>3
<1>3. RemoveAt(s, i) = left \o right
  BY <1>2 DEF RemoveAt
<1>4. /\ left \o right \in Seq(S)
      /\ DOMAIN (left \o right) = 1 .. Len(s) - 1
      /\ \A j \in DOMAIN left : (left \o right)[j] = left[j]
      /\ \A j \in DOMAIN right : (left \o right)[i - 1 + j] = right[j]
      /\ DOMAIN left = 1 .. i - 1 /\ DOMAIN right = 1 .. Len(s) - i
  <2>1. /\ left \o right \in Seq(S)
        /\ DOMAIN left = 1 .. Len(left) /\ DOMAIN right = 1 .. Len(right)
        /\ DOMAIN (left \o right) = 1 .. Len(left) + Len(right)
        /\ \A j \in DOMAIN left : (left \o right)[j] = left[j]
        /\ \A j \in DOMAIN right : (left \o right)[Len(left) + j] = right[j]
    BY PartsOfConcat
  <2>2. Len(left) = i - 1 /\ Len(right) = Len(s) - i
    BY <1>2
  <2>3. Len(left) + Len(right) = Len(s) - 1
    BY <1>1, <2>2
  <2>. QED  BY <2>1, <2>2, <2>3
<1>5. ASSUME NEW j \in 1 .. Len(s) - 1
      PROVE  RemoveAt(s, i)[j] = IF j < i THEN s[j] ELSE s[j + 1]
  <2>1. CASE j < i
    <3>1. j \in 1 .. i - 1
      BY <1>1, <2>1
    <3>. QED  BY <1>2, <1>3, <1>4, <2>1, <3>1
  <2>2. CASE ~(j < i)
    <3>1. j - (i - 1) \in 1 .. Len(s) - i
      BY <1>1, <2>2
    <3>2. PICK k \in 1 .. Len(s) - i : k = j - (i - 1)
      BY <3>1
    <3>3. (left \o right)[i - 1 + k] = s[i + k]
      BY <1>2, <1>4, <3>2
    <3>4. i - 1 + k = j /\ i + k = j + 1
      BY <1>1, <3>2
    <3>. QED  BY <1>3, <2>2, <3>3, <3>4
  <2>. QED  BY <2>1, <2>2
<1>. QED  BY <1>1, <1>3, <1>4, <1>5

(* The list of workers changes when one connects and when one disconnects. *)
LEMMA ListOfWorkers ==
    ASSUME SchedProofs!IInv, ChannelTypes, Farewell, Connections, Next
    PROVE  /\ \A i, j \in DOMAIN work_units' :
                  work_units'[i] = work_units'[j] => i = j
           /\ \/ work_units' = work_units /\ Connected' = Connected
              \/ \E w \in Worker : /\ Connect(w) /\ w \notin Connected
                                   /\ Connected' = Connected \cup {w}
              \/ \E w \in Worker : /\ ServeWorker(w) /\ w \in Connected
                                   /\ Head(w2s[w]).tag = "DISCONNECT"
                                   /\ w2s'[w] = <<>>
                                   /\ work_units' = RemoveAt(work_units, IndexOf(w))
                                   /\ Connected' = Connected \ {w}
<1>1. /\ work_units \in Seq(Worker) /\ Len(work_units) \in Nat
      /\ DOMAIN work_units = 1 .. Len(work_units)
  BY ServerTypes, LenProperties
<1>2. \A i, j \in DOMAIN work_units : work_units[i] = work_units[j] => i = j
  BY DEF Connections
<1>3. CASE work_units' = work_units
  BY <1>2, <1>3 DEF Connected
<1>4. ASSUME NEW w \in Worker, Connect(w)
      PROVE  /\ \A i, j \in DOMAIN work_units' :
                    work_units'[i] = work_units'[j] => i = j
             /\ w \notin Connected /\ Connected' = Connected \cup {w}
  <2>1. work_units' = Append(work_units, w) /\ w \notin Connected
    BY <1>4 DEF Connect, AcceptWorker
  <2>2. /\ DOMAIN work_units' = 1 .. Len(work_units) + 1
        /\ work_units'[Len(work_units) + 1] = w
        /\ \A i \in 1 .. Len(work_units) : work_units'[i] = work_units[i]
    BY <1>1, <2>1, LastOfAppend
  <2>3. \A i \in 1 .. Len(work_units) : work_units[i] # w
    BY <1>1, <2>1 DEF Connected, ToSet
  <2>4. Connected' = Connected \cup {w}
    BY <1>1, <2>2 DEF Connected, ToSet
  <2>. QED  BY <1>1, <1>2, <2>1, <2>2, <2>3, <2>4
<1>5. ASSUME NEW w \in Worker, ServeWorker(w), Head(w2s[w]).tag = "DISCONNECT"
      PROVE  /\ \A i, j \in DOMAIN work_units' :
                    work_units'[i] = work_units'[j] => i = j
             /\ w \in Connected /\ Connected' = Connected \ {w} /\ w2s'[w] = <<>>
             /\ work_units' = RemoveAt(work_units, IndexOf(w))
  <2>1. /\ w \in Connected /\ w2s[w] # <<>> /\ w2s'[w] = Tail(w2s[w])
        /\ work_units' = RemoveAt(work_units, IndexOf(w))
    BY <1>5 DEF ServeWorker, Ready, ProcessDisconnect, ChannelTypes
  <2>2. IndexOf(w) \in DOMAIN work_units /\ work_units[IndexOf(w)] = w
    BY <2>1, Zenon DEF Connected, ToSet, IndexOf
  <2>3. PICK k \in 1 .. Len(work_units) : k = IndexOf(w)
    BY <1>1, <2>2
  <2>4. /\ DOMAIN work_units' = 1 .. Len(work_units) - 1
        /\ \A j \in 1 .. Len(work_units) - 1 :
               work_units'[j] = IF j < k THEN work_units[j]
                                ELSE work_units[j + 1]
    BY <1>1, <2>1, <2>2, <2>3, RemoveAtEffect
  <2>5. Connected' = Connected \ {w}
    <3>1. \A v \in Connected' : v \in Connected \ {w}
      BY <1>1, <1>2, <2>2, <2>3, <2>4 DEF Connected, ToSet
    <3>2. ASSUME NEW v \in Connected \ {w}
          PROVE  v \in Connected'
      <4>1. PICK j \in 1 .. Len(work_units) : work_units[j] = v
        BY <1>1 DEF Connected, ToSet
      <4>2. CASE j < k
        <5>1. j \in 1 .. Len(work_units) - 1 /\ work_units'[j] = v
          BY <1>1, <2>4, <4>1, <4>2
        <5>. QED  BY <2>4, <5>1 DEF Connected, ToSet
      <4>3. CASE ~(j < k)
        <5>1. j # k
          BY <2>2, <2>3, <4>1
        <5>2. j - 1 \in 1 .. Len(work_units) - 1 /\ ~(j - 1 < k) /\ j - 1 + 1 = j
          BY <1>1, <4>3, <5>1
        <5>3. work_units'[j - 1] = v
          BY <2>4, <4>1, <5>2
        <5>. QED  BY <2>4, <5>2, <5>3 DEF Connected, ToSet
      <4>. QED  BY <4>2, <4>3
    <3>. QED  BY <3>1, <3>2
  <2>6. \A i, j \in DOMAIN work_units' :
            work_units'[i] = work_units'[j] => i = j
    <3>. DEFINE old(j) == IF j < k THEN j ELSE j + 1
    <3>1. \A j \in DOMAIN work_units' :
              old(j) \in DOMAIN work_units /\ work_units'[j] = work_units[old(j)]
      BY <1>1, <2>4
    <3>2. \A i, j \in DOMAIN work_units' : old(i) = old(j) => i = j
      BY <1>1, <2>4
    <3>. HIDE DEF old
    <3>. QED  BY <1>2, <3>1, <3>2
  <2>7. w2s'[w] = <<>>
    <3>1. w2s[w] \in Seq(FromWorker)
      BY DEF ChannelTypes
    <3>2. 1 \in DOMAIN w2s[w] /\ Head(w2s[w]) = w2s[w][1]
      BY <2>1, <3>1, FirstOfSeq
    <3>3. 1 = Len(w2s[w])
      BY <1>5, <3>2 DEF Farewell
    <3>. QED  BY <2>1, <3>1, <3>3, FirstOfSeq
  <2>. QED  BY <2>1, <2>5, <2>6, <2>7
<1>6. \/ work_units' = work_units
      \/ \E w \in Worker : Connect(w)
      \/ \E w \in Worker : ServeWorker(w) /\ Head(w2s[w]).tag = "DISCONNECT"
  <2>1. ServeManager \/ ServerAlone \/ ServerBarrier => work_units' = work_units
    BY DEF ServeManager, ProcessAddFile, ProcessAddWorkers, ProcessTerminate,
      ServerAlone, HandOut, SendReply, Leave, NoManagerCommand, ServerBarrier,
      PassManagerBarrier
  <2>2. ASSUME NEW w \in Worker, ServeWorker(w)
        PROVE  work_units' = work_units \/ Head(w2s[w]).tag = "DISCONNECT"
    BY <2>2 DEF ServeWorker, ProcessGetInstances, ProcessFoundSolution,
      ProcessDoneProcessing
  <2>. QED  BY <2>1, <2>2 DEF Next, LookupFails, Spawn, WorkerBarrier,
      MainAlone, ThreadAlone, ManagerAlone, server_vars
<1>. QED  BY <1>3, <1>4, <1>5, <1>6

(* Nobody writes to a worker that is not connected.                        *)
LEMMA NotSpokenTo ==
    ASSUME WorkerTypes, ChannelTypes, Stopping, Serving, Connections, Next,
           NEW w \in Worker, w \notin Connected, ~Connect(w)
    PROVE  s2w'[w] = s2w[w]
<1>1. w_pc[w] \in {"absent", "connect", "bye", "gone", "aborted"}
  BY DEF Connections
<1>2. ~MainAlone(w)
  BY <1>1, MainMoves DEF MainAlone
<1>3. \A ws, msg : s2w' = Broadcast(ws, msg) /\ w \notin ws => s2w'[w] = s2w[w]
  BY DEF Broadcast
<1>4. ServeManager => s2w'[w] = s2w[w]
  BY <1>3 DEF ServeManager, ProcessAddFile, ProcessAddWorkers,
              ProcessTerminate, SendTermination
<1>5. ServerAlone => s2w'[w] = s2w[w]
  BY <1>3 DEF ServerAlone, HandOut, SendReply, Leave, NoManagerCommand, Serving
<1>6. ASSUME NEW v \in Worker, ServeWorker(v)
      PROVE  s2w'[w] = s2w[w]
  BY <1>3, <1>6 DEF ServeWorker, ProcessGetInstances, ProcessFoundSolution,
              ProcessDoneProcessing, ProcessDisconnect, SendTermination
<1>7. ASSUME NEW v \in Worker, Connect(v)
      PROVE  s2w'[w] = s2w[w]
  <2>1. w \notin {v}
    BY <1>7
  <2>. QED  BY <1>3, <1>7, <2>1 DEF Connect, AcceptWorker
<1>8. ASSUME NEW v \in Worker, MainAlone(v)
      PROVE  s2w'[w] = s2w[w]
  <2>1. w # v
    BY <1>2, <1>8
  <2>. QED  BY <1>8, <2>1 DEF MainAlone, MainThread, Activate, ReturnTask,
         NothingToReturn, Probe, Await, CreateTasks, UnreadableFormula,
         StoreCounter, Join, Disconnect, ReceiveFromServer, ChannelTypes
<1>9. ASSUME NEW v \in Worker,
             \/ LookupFails(v) \/ Spawn(v) \/ WorkerBarrier(v)
             \/ \E i \in Thread : ThreadAlone(v, i)
      PROVE  s2w' = s2w
  BY <1>9, SolverLeaves DEF LookupFails, Spawn, SpawnWorker, WorkerBarrier,
              PassWorkerBarrier, ThreadAlone
<1>10. ServerBarrier \/ ManagerAlone => s2w' = s2w
  BY DEF ServerBarrier, PassManagerBarrier, ManagerAlone, NextCommand,
         AddNextWorker, Rewind, Poll, WaitForServer, ProcessServerCommand
<1>. QED  BY <1>4, <1>5, <1>6, <1>7, <1>8, <1>9, <1>10 DEF Next

(* A server that has taken leave stays away.                               *)
LEMMA StaysAway ==
    ASSUME Next, srv_pc \in {"disconnecting", "gone"}
    PROVE  srv_pc' \in {"disconnecting", "gone"}
BY DEF Next, MainAlone, ThreadAlone, ManagerAlone, LookupFails, Spawn,
  WorkerBarrier, server_vars, ServeWorker, ProcessGetInstances,
  ProcessFoundSolution, ProcessDoneProcessing, ProcessDisconnect, Connect,
  AcceptWorker, ServerBarrier, PassManagerBarrier, ServerAlone, HandOut,
  MoreToHandOut, SendReply, Leave, NoManagerCommand, ServeManager,
  ProcessAddFile, ProcessAddWorkers, ProcessTerminate, AtProbe

(* Who is on the server's list has connected and not disconnected.         *)
LEMMA ConnectionsKept ==
    ASSUME SchedProofs!IInv, WorkerTypes, ChannelTypes, Stopping, Farewell,
           Serving, Connections, Next
    PROVE  Connections'
<1>. SUFFICES ASSUME NEW w \in Worker
              PROVE  /\ w \notin Connected' =>
                            /\ w_pc'[w] \in {"absent", "connect", "bye", "gone",
                                             "aborted"}
                            /\ w2s'[w] = <<>>
                            /\ w_pc'[w] \in {"absent", "connect"} =>
                                   s2w'[w] = <<>>
                            /\ w_pc'[w] = "aborted" =>
                                   srv_pc' \in {"disconnecting", "gone"}
                     /\ w \in Connected' =>
                            w_pc'[w] \notin {"absent", "connect", "bye", "gone"}
  <2>1. Connected' \subseteq Worker
    BY ServerTypes, ListOfWorkers
  <2>. QED  BY <2>1, ListOfWorkers DEF Connections
<1>1. w \notin Connected =>
          /\ w_pc[w] \in {"absent", "connect", "bye", "gone", "aborted"}
          /\ w2s[w] = <<>>
          /\ w_pc[w] \in {"absent", "connect"} => s2w[w] = <<>>
          /\ w_pc[w] = "aborted" => srv_pc \in {"disconnecting", "gone"}
  BY DEF Connections
<1>2. w \in Connected => w_pc[w] \notin {"absent", "connect", "bye", "gone"}
  BY DEF Connections
<1>3. MainAlone(w) =>
          /\ w_pc[w] \notin {"absent", "connect", "barrier", "bye", "gone",
                             "aborted"}
          /\ w_pc'[w] \notin {"absent", "connect", "bye", "gone"}
  BY MainMoves DEF MainAlone
<1>4. CASE w \notin Connected /\ w \notin Connected'
  <2>1. ~Connect(w)
    <3>1. Connect(w) => work_units' = Append(work_units, w)
      BY DEF Connect, AcceptWorker
    <3>2. work_units \in Seq(Worker)
      BY ServerTypes
    <3>3. Connect(w) => w \in Connected'
      <4>1. ASSUME Connect(w) PROVE w \in Connected'
        <5>1. /\ DOMAIN work_units' = 1 .. Len(work_units) + 1
              /\ work_units'[Len(work_units) + 1] = w /\ Len(work_units) \in Nat
          BY <3>1, <3>2, <4>1, LastOfAppend
        <5>2. Len(work_units) + 1 \in DOMAIN work_units'
          BY <5>1
        <5>. QED  BY <5>1, <5>2 DEF Connected, ToSet
      <4>. QED  BY <4>1
    <3>. QED  BY <1>4, <3>3
  <2>2. ~MainAlone(w) /\ ~ServeWorker(w)
    BY <1>1, <1>3, <1>4 DEF ServeWorker, Ready
  <2>3. s2w'[w] = s2w[w]
    BY <1>4, <2>1, NotSpokenTo
  <2>4. w2s'[w] = w2s[w]
    BY <2>2, FromWorkers
  <2>5. \/ w_pc'[w] = w_pc[w]
        \/ Spawn(w) /\ w_pc[w] = "absent" /\ w_pc'[w] = "connect"
        \/ LookupFails(w) /\ w_pc[w] = "connect" /\ w_pc'[w] = "aborted"
        \/ w_pc'[w] = "gone"
    BY <2>1, <2>2, WhereNext
  <2>6. LookupFails(w) => srv_pc \in {"disconnecting", "gone"}
    BY DEF LookupFails
  <2>. QED  BY <1>1, <1>4, <2>3, <2>4, <2>5, <2>6, StaysAway
<1>5. CASE w \in Connected /\ w \in Connected'
  <2>1. ~(ServeWorker(w) /\ Head(w2s[w]).tag = "DISCONNECT")
    <3>1. ASSUME ServeWorker(w), Head(w2s[w]).tag = "DISCONNECT" PROVE FALSE
      <4>1. w_pc[w] = "barrier" /\ w_pc'[w] = "bye"
        BY <3>1, FirstOfSeq DEF ServeWorker, Ready, Goto, Farewell,
           WorkerTypes, ChannelTypes
      <4>2. \A v \in Worker : ~Connect(v) /\ (ServeWorker(v) => v = w)
        <5>1. ~Connect(w)
          BY <1>5 DEF Connect, AcceptWorker
        <5>2. \A v \in Worker \ {w} : Connect(v) => w_pc'[w] = w_pc[w]
          BY DEF Connect, Goto, WorkerTypes
        <5>3. \A v \in Worker \ {w} : ServeWorker(v) => w_pc'[w] = w_pc[w]
          BY DEF ServeWorker, Goto, WorkerTypes
        <5>. QED  BY <4>1, <5>1, <5>2, <5>3
      <4>3. work_units' # work_units
        <5>1. work_units' = RemoveAt(work_units, IndexOf(w))
          BY <3>1 DEF ServeWorker, ProcessDisconnect
        <5>2. work_units \in Seq(Worker) /\ IndexOf(w) \in DOMAIN work_units
          BY <1>5, ServerTypes, Zenon DEF Connected, ToSet, IndexOf
        <5>3. /\ DOMAIN work_units' = 1 .. Len(work_units) - 1
              /\ DOMAIN work_units = 1 .. Len(work_units)
              /\ Len(work_units) \in Nat
          BY <5>1, <5>2, RemoveAtEffect
        <5>4. Len(work_units) \in 1 .. Len(work_units)
          BY <5>2, <5>3
        <5>5. Len(work_units) \notin 1 .. Len(work_units) - 1
          BY <5>3
        <5>. QED  BY <5>3, <5>4, <5>5
      <4>. QED  BY <1>5, <4>2, <4>3, ListOfWorkers
    <3>. QED  BY <3>1
  <2>2. ~Connect(w)
    BY <1>5 DEF Connect, AcceptWorker
  <2>. QED  BY <1>2, <1>3, <1>5, <2>1, <2>2, WhereNext
<1>6. CASE w \notin Connected /\ w \in Connected'
  <2>1. Connect(w)
    BY <1>6, ListOfWorkers
  <2>2. w_pc'[w] = "activate"
    BY <2>1 DEF Connect, Goto, WorkerTypes
  <2>. QED  BY <1>6, <2>2
<1>7. CASE w \in Connected /\ w \notin Connected'
  <2>1. /\ ServeWorker(w) /\ Head(w2s[w]).tag = "DISCONNECT"
        /\ w2s'[w] = <<>>
    BY <1>7, ListOfWorkers
  <2>2. w_pc'[w] = "bye"
    BY <2>1 DEF ServeWorker, Goto, WorkerTypes
  <2>. QED  BY <1>7, <2>1, <2>2
<1>. QED  BY <1>4, <1>5, <1>6, <1>7

(* A worker to which nobody has sent the order to stop when the others     *)
(* were told is never told: send_termination_to_workers acts once          *)
(* (server.hpp:104).                                                       *)
LEMMA NeverToldStays ==
    ASSUME SchedProofs!IInv, WorkerTypes, ChannelTypes, Stopping, Farewell,
           Connections, Next, terminated_workers,
           NEW w \in Connected', w \in Connected => NeverTold(w)
    PROVE  NeverTold(w)'
<1>0. w \in Worker
  BY ServerTypes, ListOfWorkers
<1>1. /\ w_running[w] /\ s2w[w] \in Seq(FromServer)
      /\ TerminateWorker \notin ToSet(s2w[w])
  <2>1. s2w[w] \in Seq(FromServer)
    BY <1>0 DEF ChannelTypes
  <2>2. CASE w \in Connected
    BY <2>1, <2>2 DEF NeverTold
  <2>3. CASE w \notin Connected
    <3>1. Connect(w)
      BY <1>0, <2>3, ListOfWorkers
    <3>2. w_pc[w] = "connect"
      BY <3>1 DEF Connect, At
    <3>3. s2w[w] = <<>> /\ w_running[w]
      BY <1>0, <2>3, <3>2 DEF Connections, Stopping
    <3>. QED  BY <2>1, <3>3, EmptySeq DEF ToSet
  <2>. QED  BY <2>2, <2>3
<1>2. s2w[w] # <<>> => Head(s2w[w]).tag # "TERMINATE"
  <2>1. ASSUME s2w[w] # <<>>, Head(s2w[w]).tag = "TERMINATE" PROVE FALSE
    <3>1. /\ Head(s2w[w]) \in FromServer
          /\ 1 \in DOMAIN s2w[w] /\ Head(s2w[w]) = s2w[w][1]
      BY <1>1, <2>1, FirstOfSeq
    <3>2. Head(s2w[w]) = TerminateWorker
      BY <2>1, <3>1 DEF FromServer, ActivateWorker, SendInstances
    <3>. QED  BY <1>1, <3>1, <3>2 DEF ToSet
  <2>. QED  BY <2>1
<1>3. w_running'[w]
  <2>1. MainThread(w) => w_running'[w] = w_running[w]
    BY <1>0, <1>2, MainStops
  <2>2. \A v \in Worker \ {w} : MainThread(v) => w_running'[w] = w_running[w]
    BY <1>0, MainStops
  <2>. QED  BY <1>0, <1>1, <2>1, <2>2, OtherSteps, SolverLeaves
            DEF MainAlone, ThreadAlone
<1>4. TerminateWorker \notin ToSet(s2w'[w])
  <2>1. CASE s2w[w] # <<>> /\ s2w'[w] = Tail(s2w[w])
    BY <1>1, <2>1, FirstOfSeq DEF ToSet
  <2>2. ASSUME NEW msg \in FromServer, msg.tag # "TERMINATE",
               s2w'[w] = Append(s2w[w], msg)
        PROVE  TerminateWorker \notin ToSet(s2w'[w])
    <3>1. msg # TerminateWorker
      BY <2>2 DEF TerminateWorker
    <3>. QED  BY <1>1, <2>2, <3>1, LastOfAppend DEF ToSet
  <2>3. /\ ActivateWorker \in FromServer /\ ActivateWorker.tag # "TERMINATE"
        /\ SendInstances(reply.jobs).tag # "TERMINATE"
    BY DEF FromServer, ActivateWorker, SendInstances
  <2>4. SendInstances(reply.jobs) \in FromServer
    <3>1. reply.jobs \in Seq(JobType)
      BY DEF ChannelTypes
    <3>. QED  BY <3>1, Zenon DEF FromServer
  <2>. QED  BY <1>0, <1>1, <2>1, <2>2, <2>3, <2>4, ToWorkers
<1>. QED  BY <1>3, <1>4 DEF NeverTold

(* It stays on the server's list: who says farewell has stopped.           *)
LEMMA NeverToldConnected ==
    ASSUME SchedProofs!IInv, ChannelTypes, Stopping, Farewell, Connections,
           Next, NEW w \in Worker, NeverTold(w)
    PROVE  w \in Connected'
<1>1. ASSUME ServeWorker(w), Head(w2s[w]).tag = "DISCONNECT"
      PROVE  FALSE
  <2>1. w_pc[w] = "barrier"
    BY <1>1, FirstOfSeq DEF ServeWorker, Ready, Farewell, ChannelTypes
  <2>. QED  BY <2>1 DEF Stopping, NeverTold
<1>. QED  BY <1>1, ListOfWorkers DEF NeverTold

(* The server stops at the DISCONNECT of the last worker on its list, and  *)
(* after its statistics (server.hpp:332).                                  *)
LEMMA RunningEnds ==
    ASSUME SchedProofs!IInv, Next
    PROVE  \/ running' = running
           \/ \E w \in Worker : /\ ServeWorker(w) /\ running' = FALSE
                                /\ statistic_send /\ Connected' = {}
<1>1. ASSUME NEW w \in Worker, ServeWorker(w)
      PROVE  \/ running' = running
             \/ running' = FALSE /\ statistic_send /\ Connected' = {}
  <2>1. CASE ProcessDisconnect(IndexOf(w))
    <3>1. CASE running /\ MayStop(work_units')
      <4>1. work_units' = <<>> /\ statistic_send
        BY <3>1 DEF MayStop
      <4>2. Connected' = {}
        BY <4>1, EmptySeq DEF Connected, ToSet
      <4>3. running' = FALSE
        BY <2>1, <3>1 DEF ProcessDisconnect
      <4>. QED  BY <4>1, <4>2, <4>3
    <3>2. CASE ~(running /\ MayStop(work_units'))
      <4>1. running \in BOOLEAN
        BY ServerTypes
      <4>. QED  BY <2>1, <3>2, <4>1 DEF ProcessDisconnect
    <3>. QED  BY <3>1, <3>2
  <2>2. CASE ~ProcessDisconnect(IndexOf(w))
    BY <1>1, <2>2 DEF ServeWorker, ProcessGetInstances, ProcessFoundSolution,
      ProcessDoneProcessing
  <2>. QED  BY <2>1, <2>2
<1>2. running' = running \/ \E w \in Worker : ServeWorker(w)
  BY DEF Next, MainAlone, ThreadAlone, ManagerAlone, LookupFails, Spawn,
    WorkerBarrier, server_vars, Connect, AcceptWorker, ServerBarrier,
    PassManagerBarrier, ServerAlone, HandOut, SendReply, Leave,
    NoManagerCommand, ServeManager, ProcessAddFile, ProcessAddWorkers,
    ProcessTerminate
<1>. QED  BY <1>1, <1>2

(* The server leaves when it has sent everybody home; a worker that came   *)
(* too late for that stays untold.                                         *)
LEMMA LeavingKept ==
    ASSUME SchedProofs!IInv, WorkerTypes, ChannelTypes, Stopping, Farewell,
           Serving, Connections, Leaving, Next
    PROVE  Leaving'
<1>1. statistic_send' => terminated_workers'
  <2>1. statistic_send => terminated_workers
    BY DEF Leaving
  <2>2. CASE statistic_send' = statistic_send
    BY <2>1, <2>2, TerminationNoted
  <2>3. ASSUME NEW w \in Worker, ServeWorker(w)
        PROVE  statistic_send' = statistic_send \/ terminated_workers'
    BY <2>3 DEF ServeWorker, ProcessGetInstances, ProcessFoundSolution,
      ProcessDoneProcessing, ProcessDisconnect, SendTermination
  <2>4. statistic_send' = statistic_send \/ \E w \in Worker : ServeWorker(w)
    BY DEF Next, MainAlone, ThreadAlone, ManagerAlone, LookupFails, Spawn,
      WorkerBarrier, server_vars, Connect, AcceptWorker, ServerBarrier,
      PassManagerBarrier, ServerAlone, HandOut, SendReply, Leave,
      NoManagerCommand, ServeManager, ProcessAddFile, ProcessAddWorkers,
      ProcessTerminate
  <2>. QED  BY <2>2, <2>3, <2>4
<1>2. \/ running' = running
      \/ \E w \in Worker : /\ ServeWorker(w) /\ running' = FALSE
                           /\ statistic_send /\ Connected' = {}
  BY RunningEnds
<1>3. ~running' => terminated_workers'
  <2>1. ~running => terminated_workers
    BY DEF Leaving
  <2>2. statistic_send => terminated_workers
    BY DEF Leaving
  <2>. QED  BY <1>2, <2>1, <2>2, TerminationNoted
<1>4. ASSUME ~running, NEW w \in Connected'
      PROVE  NeverTold(w)'
  BY <1>4, NeverToldStays DEF Leaving
<1>5. \A w \in Connected' : ~running' => NeverTold(w)'
  BY <1>2, <1>4
<1>6. srv_pc' \in {"bye", "disconnecting", "gone"} => ~running'
  <2>1. srv_pc \in {"bye", "disconnecting", "gone"} => ~running
    BY DEF Leaving
  <2>2. ASSUME NEW w \in Worker, ServeWorker(w)
        PROVE  srv_pc' \in {"handout", "iprobe"}
    BY <2>2 DEF ServeWorker, ProcessGetInstances, ProcessFoundSolution,
                ProcessDoneProcessing, ProcessDisconnect
  <2>3. ServeManager => srv_pc' \in {"enter", "aborted", NextRound} /\ running' = running
    BY DEF ServeManager, ProcessAddFile, ProcessAddWorkers, ProcessTerminate
  <2>4. ServerAlone => /\ running' = running
                       /\ \/ srv_pc' \in {"handout", "iprobe", NextRound}
                          \/ srv_pc = "bye"
    BY DEF ServerAlone, HandOut, MoreToHandOut, SendReply, Leave,
           NoManagerCommand
  <2>5. ServerBarrier => /\ running' = running
                         /\ \/ srv_pc' \in {"accept", NextRound}
                            \/ srv_pc = "disconnecting"
    BY DEF ServerBarrier, PassManagerBarrier
  <2>6. ASSUME NEW w \in Worker, Connect(w)
        PROVE  srv_pc' = "leave"
    BY <2>6 DEF Connect, AcceptWorker
  <2>7. NextRound = "bye" => ~running
    BY DEF NextRound
  <2>8. NextRound \in {"testany", "bye"}
    BY DEF NextRound
  <2>. QED  BY <2>1, <2>2, <2>3, <2>4, <2>5, <2>6, <2>7, <2>8
            DEF Next, MainAlone, ThreadAlone, ManagerAlone, LookupFails, Spawn,
      WorkerBarrier, server_vars
<1>. QED  BY <1>1, <1>3, <1>5, <1>6 DEF Leaving

(* What the server's tables of tasks go through.                           *)
LEMMA TaskForms ==
    ASSUME Next
    PROVE  \/ available_tasks' = available_tasks
           \/ /\ ServeManager /\ Head(m2s).tag = "ADD_FILE"
              /\ available_tasks' = Append(available_tasks, NewTask(Head(m2s).n))
           \/ ServerAlone /\ HandOut
           \/ \E w \in Worker :
                  /\ ServeWorker(w) /\ Head(w2s[w]).tag = "DONE_PROCESSING"
                  /\ ProcessDoneProcessing(Head(w2s[w]).inst[1],
                                           Head(w2s[w]).solved)
<1>1. ASSUME NEW w \in Worker, ServeWorker(w)
      PROVE  \/ available_tasks' = available_tasks
             \/ /\ Head(w2s[w]).tag = "DONE_PROCESSING"
                /\ ProcessDoneProcessing(Head(w2s[w]).inst[1],
                                         Head(w2s[w]).solved)
  BY <1>1 DEF ServeWorker, ProcessGetInstances, ProcessFoundSolution,
              ProcessDisconnect
<1>2. ServeManager =>
          \/ available_tasks' = available_tasks
          \/ /\ Head(m2s).tag = "ADD_FILE"
             /\ available_tasks' = Append(available_tasks, NewTask(Head(m2s).n))
  BY DEF ServeManager, ProcessAddFile, ProcessAddWorkers, ProcessTerminate
<1>3. ServerAlone => available_tasks' = available_tasks \/ HandOut
  BY DEF ServerAlone, SendReply, Leave, NoManagerCommand
<1>. QED  BY <1>1, <1>2, <1>3
          DEF Next, MainAlone, ThreadAlone, ManagerAlone, LookupFails, Spawn,
              WorkerBarrier, Connect, AcceptWorker, ServerBarrier,
              PassManagerBarrier, server_vars

(* An assertion that aborts the server finds nobody who ever worked.       *)
LEMMA UnusedKept ==
    ASSUME SchedProofs!IInv, WorkerTypes, ChannelTypes, Stopping, Farewell,
           Serving, Handshake, Connections, Unused, Next
    PROVE  Unused'
<1>1. srv_pc' = "aborted" =>
          \/ srv_pc = "aborted"
          \/ /\ ServeManager /\ ~terminated_workers /\ work_units = <<>>
             /\ srv_pc \in {"testany", "iprobe"}
             /\ available_tasks' = available_tasks
  <2>1. ServeManager => \/ srv_pc' # "aborted"
                        \/ /\ ~terminated_workers /\ work_units = <<>>
                           /\ srv_pc \in {"testany", "iprobe"}
                           /\ available_tasks' = available_tasks
    BY DEF ServeManager, ProcessAddFile, ProcessAddWorkers, ProcessTerminate,
           NextRound, AtProbe
  <2>2. ASSUME NEW w \in Worker, ServeWorker(w) \/ Connect(w)
        PROVE  srv_pc' # "aborted"
    BY <2>2 DEF ServeWorker, ProcessGetInstances, ProcessFoundSolution,
        ProcessDoneProcessing, ProcessDisconnect, Connect, AcceptWorker
  <2>3. ServerAlone \/ ServerBarrier => srv_pc' # "aborted"
    BY DEF ServerAlone, HandOut, SendReply, Leave, NoManagerCommand,
       MoreToHandOut, NextRound, ServerBarrier, PassManagerBarrier
  <2>. QED  BY <2>1, <2>2, <2>3 DEF Next, MainAlone, ThreadAlone, ManagerAlone,
      LookupFails, Spawn, WorkerBarrier, server_vars
<1>2. work_units = <<>> => Connected = {}
  BY EmptySeq DEF Connected, ToSet
<1>3. ASSUME srv_pc' = "aborted", NEW w \in Worker
      PROVE  w_pc'[w] = "absent"
  <2>1. w_pc[w] = "absent"
    <3>1. CASE srv_pc = "aborted"
      BY <3>1 DEF Unused
    <3>2. CASE /\ ~terminated_workers /\ work_units = <<>>
               /\ srv_pc \in {"testany", "iprobe"}
      <4>1. w_pc[w] \in {"absent", "connect", "bye", "gone", "aborted"}
            /\ w_pc[w] # "aborted"
        BY <1>2, <3>2 DEF Connections
      <4>2. w_pc[w] # "connect"
        BY <3>2 DEF Handshake
      <4>3. w_pc[w] \notin {"bye", "gone"}
        BY <3>2 DEF Stopping
      <4>. QED  BY <4>1, <4>2, <4>3
    <3>. QED  BY <1>1, <1>3, <3>1, <3>2
  <2>2. ~Spawn(w)
    <3>1. Spawn(w) => m_pc = "spawn" /\ srv_pc' = srv_pc
      BY DEF Spawn, SpawnWorker, server_vars
    <3>. QED  BY <1>3, <3>1 DEF Handshake
  <2>3. ~MainAlone(w)
    BY <2>1, MainMoves DEF MainAlone
  <2>. QED  BY <2>1, <2>2, <2>3, WhereNext
<1>4. ASSUME srv_pc' = "aborted" \/ (work_units' = <<>> /\ ~terminated_workers')
      PROVE  srv_pc = "aborted" \/ (work_units = <<>> /\ ~terminated_workers)
  <2>1. CASE srv_pc' = "aborted"
    BY <1>1, <2>1
  <2>2. CASE work_units' = <<>> /\ ~terminated_workers'
    <3>1. ~terminated_workers
      BY <2>2, TerminationNoted
    <3>2. \A w \in Worker : ~(ServeWorker(w) /\ Head(w2s[w]).tag = "DISCONNECT")
      <4>1. ASSUME NEW w \in Worker, ServeWorker(w),
                   Head(w2s[w]).tag = "DISCONNECT"
            PROVE  FALSE
        <5>1. w_pc[w] = "barrier"
          BY <4>1, FirstOfSeq DEF ServeWorker, Ready, Farewell, ChannelTypes
        <5>. QED  BY <3>1, <5>1 DEF Stopping
      <4>. QED  BY <4>1
    <3>3. \A w \in Worker : Connected' # Connected \cup {w}
      <4>1. Connected' = {}
        BY <2>2, EmptySeq DEF Connected, ToSet
      <4>. QED  BY <4>1
    <3>4. work_units' = work_units
      BY <3>2, <3>3, ListOfWorkers
    <3>. QED  BY <2>2, <3>1, <3>4
  <2>. QED  BY <1>4, <2>1, <2>2
<1>5. ASSUME srv_pc' = "aborted" \/ (work_units' = <<>> /\ ~terminated_workers'),
             NEW t \in DOMAIN available_tasks'
      PROVE  available_tasks'[t].started = 0 /\ available_tasks'[t].cp = 0
  <2>1. \A u \in DOMAIN available_tasks :
            available_tasks[u].started = 0 /\ available_tasks[u].cp = 0
    BY <1>4, <1>5 DEF Unused
  <2>2. srv_pc # "aborted" => Connected = {}
    BY <1>2, <1>4, <1>5
  <2>3. ~(ServerAlone /\ HandOut)
    BY <2>2 DEF HandOut, MoreToHandOut, Serving
  <2>4. \A w \in Worker : ~ServeWorker(w)
    BY <2>2 DEF ServeWorker, Ready, ProcessGetInstances, ProcessFoundSolution,
        ProcessDoneProcessing, ProcessDisconnect
  <2>5. CASE available_tasks' = available_tasks
    BY <1>5, <2>1, <2>5
  <2>6. CASE ServeManager /\ Head(m2s).tag = "ADD_FILE"
          /\ available_tasks' = Append(available_tasks, NewTask(Head(m2s).n))
    <3>1. m2s # <<>> /\ m2s \in Seq(FromManager)
      BY <2>6 DEF ServeManager, ChannelTypes
    <3>2. Head(m2s).n \in Nat
      BY <2>6, <3>1, FirstOfSeq, ManagerMessage
    <3>3. PICK task \in TaskInfo :
              task = NewTask(Head(m2s).n) /\ task.started = 0 /\ task.cp = 0
      <4>1. NewTask(Head(m2s).n) \in TaskInfo
        BY <3>2 DEF NewTask, TaskInfo
      <4>2. NewTask(Head(m2s).n).started = 0 /\ NewTask(Head(m2s).n).cp = 0
        BY DEF NewTask
      <4>. QED  BY <4>1, <4>2
    <3>4. available_tasks \in Seq(TaskInfo)
      BY ServerTypes
    <3>. QED  BY <1>5, <2>1, <2>6, <3>3, <3>4, LastOfAppend
  <2>. QED  BY <2>3, <2>4, <2>5, <2>6, TaskForms
<1>. QED  BY <1>3, <1>5 DEF Unused

(* A solution once known stays known.                                      *)
LEMMA SolutionStays ==
    ASSUME Next
    PROVE  solution_found => solution_found'
BY ToManagerForms

(* A task that counts a solution was announced before.                     *)
LEMMA CountedIsTold ==
    ASSUME SchedProofs!IInv, ChannelTypes, Solutions, Next,
           NEW t \in DOMAIN available_tasks',
           available_tasks'[t].times_solved > 0
    PROVE  solution_found'
<1>1. /\ available_tasks \in Seq(TaskInfo)
      /\ \A u \in DOMAIN available_tasks : available_tasks[u] \in TaskInfo
  BY ServerTypes
<1>2. \A u \in DOMAIN available_tasks :
          available_tasks[u].times_solved > 0 => solution_found'
  BY SolutionStays DEF Solutions
<1>3. CASE ServeManager /\ Head(m2s).tag = "ADD_FILE"
           /\ available_tasks' = Append(available_tasks, NewTask(Head(m2s).n))
  <2>1. m2s # <<>> /\ m2s \in Seq(FromManager)
    BY <1>3 DEF ServeManager, ChannelTypes
  <2>2. Head(m2s).n \in Nat
    BY <1>3, <2>1, FirstOfSeq, ManagerMessage
  <2>3. PICK task \in TaskInfo :
            task = NewTask(Head(m2s).n) /\ task.times_solved = 0
    <3>1. NewTask(Head(m2s).n) \in TaskInfo
      BY <2>2 DEF NewTask, TaskInfo
    <3>2. NewTask(Head(m2s).n).times_solved = 0
      BY DEF NewTask
    <3>. QED  BY <3>1, <3>2
  <2>. QED  BY <1>1, <1>2, <1>3, <2>3, LastOfAppend
<1>4. CASE HandOut
  <2>1. /\ DOMAIN available_tasks' = DOMAIN available_tasks
        /\ \/ available_tasks'[t] = available_tasks[t]
           \/ \E start, exhausted :
                  available_tasks'[t] =
                      GivenOut(available_tasks[t], start, exhausted)
    BY <1>1, <1>4 DEF HandOut
  <2>2. available_tasks'[t].times_solved = available_tasks[t].times_solved
    <3>1. available_tasks[t] \in TaskInfo
      BY <1>1, <2>1
    <3>2. ASSUME NEW task \in TaskInfo, NEW cp, NEW sched
          PROVE  [task EXCEPT !.cp = cp, !.is_scheduled = sched].times_solved
                     = task.times_solved
      BY DEF TaskInfo
    <3>3. ASSUME NEW start, NEW exhausted
          PROVE  GivenOut(available_tasks[t], start, exhausted).times_solved
                     = available_tasks[t].times_solved
      BY <3>1, <3>2, Zenon DEF GivenOut
    <3>. QED  BY <2>1, <3>3
  <2>. QED  BY <1>2, <2>1, <2>2
<1>5. ASSUME NEW w \in Worker, ServeWorker(w),
             Head(w2s[w]).tag = "DONE_PROCESSING",
             ProcessDoneProcessing(Head(w2s[w]).inst[1], Head(w2s[w]).solved)
      PROVE  solution_found'
  <2>. DEFINE u == Head(w2s[w]).inst[1]
              solved == Head(w2s[w]).solved
  <2>1. /\ w2s[w] \in Seq(FromWorker) /\ w2s[w] # <<>>
        /\ Head(w2s[w]) \in FromWorker /\ Head(w2s[w]) = w2s[w][1]
        /\ 1 \in DOMAIN w2s[w] /\ DOMAIN w2s[w] = 1 .. Len(w2s[w])
        /\ solved \in BOOLEAN
    BY <1>5, FirstOfSeq, WorkerMessage DEF ServeWorker, Ready, ChannelTypes
  <2>2. solved => solution_found
    <3>1. ~FoundBefore(w2s[w], 1)
      BY <2>1 DEF FoundBefore
    <3>. QED  BY <1>5, <2>1, <3>1 DEF Solutions
  <2>3. /\ DOMAIN available_tasks' = DOMAIN available_tasks
        /\ \/ available_tasks'[t] = available_tasks[t]
           \/ \E sched : available_tasks'[t] =
                  [Counted(available_tasks[t], solved) EXCEPT
                      !.is_scheduled = sched]
    BY <1>1, <1>5 DEF ProcessDoneProcessing
  <2>4. available_tasks'[t].times_solved = available_tasks[t].times_solved
        \/ solved
    <3>1. available_tasks[t] \in TaskInfo
      BY <1>1, <2>3
    <3>2. CASE ~solved
      <4>1. Count(solved) = 0
        BY <3>2 DEF Count
      <4>. HIDE DEF solved
      <4>2. available_tasks[t].times_solved + 0 = available_tasks[t].times_solved
        BY <3>1 DEF TaskInfo
      <4>. QED  BY <2>3, <3>1, <4>1, <4>2 DEF Counted, TaskInfo
    <3>. QED  BY <3>2
  <2>. QED  BY <1>2, <2>2, <2>3, <2>4, SolutionStays
<1>. QED  BY <1>2, <1>3, <1>4, <1>5, TaskForms

(* A result that counts a solution follows the news of it.                 *)
LEMMA ResultFollowsNews ==
    ASSUME WorkerTypes, ChannelTypes, Solutions, Next, NEW w \in Worker,
           NEW i \in DOMAIN w2s'[w], w2s'[w][i].tag = "DONE_PROCESSING",
           w2s'[w][i].solved
    PROVE  solution_found' \/ FoundBefore(w2s'[w], i)
<1>1. /\ w2s[w] \in Seq(FromWorker) /\ Len(w2s[w]) \in Nat
      /\ DOMAIN w2s[w] = 1 .. Len(w2s[w])
  BY LenProperties DEF ChannelTypes
<1>2. \A j \in DOMAIN w2s[w] :
          w2s[w][j].tag = "DONE_PROCESSING" /\ w2s[w][j].solved =>
              solution_found \/ FoundBefore(w2s[w], j)
  BY DEF Solutions
<1>3. CASE w2s'[w] = w2s[w]
  BY <1>2, <1>3, SolutionStays
<1>4. CASE ServeWorker(w) /\ w2s[w] # <<>> /\ w2s'[w] = Tail(w2s[w])
  <2>1. /\ i + 1 \in DOMAIN w2s[w] /\ w2s'[w][i] = w2s[w][i + 1]
        /\ DOMAIN w2s'[w] = 1 .. Len(w2s[w]) - 1
        /\ \A j \in DOMAIN w2s'[w] : w2s'[w][j] = w2s[w][j + 1]
        /\ Head(w2s[w]) = w2s[w][1]
    BY <1>1, <1>4, FirstOfSeq
  <2>2. solution_found \/ FoundBefore(w2s[w], i + 1)
    BY <1>2, <2>1
  <2>3. CASE FoundBefore(w2s[w], i + 1)
    <3>1. PICK j \in DOMAIN w2s[w] : j < i + 1 /\ w2s[w][j].tag = "FOUND_SOLUTION"
      BY <2>3 DEF FoundBefore
    <3>2. CASE j = 1
      <4>1. Head(w2s[w]).tag = "FOUND_SOLUTION"
        BY <2>1, <3>1, <3>2
      <4>2. solution_found'
        BY <1>4, <4>1 DEF ServeWorker, ProcessFoundSolution
      <4>. QED  BY <4>2
    <3>3. CASE j # 1
      <4>1. /\ j - 1 \in DOMAIN w2s'[w] /\ j - 1 < i
            /\ w2s'[w][j - 1] = w2s[w][j - 1 + 1] /\ j - 1 + 1 = j
        BY <1>1, <2>1, <3>1, <3>3
      <4>. QED  BY <3>1, <4>1 DEF FoundBefore
    <3>. QED  BY <3>2, <3>3
  <2>. QED  BY <2>2, <2>3, SolutionStays
<1>5. CASE ReturnTask(w) \/ Probe(w) \/ Disconnect(w)
  <2>1. PICK n, done : n = Len(w2s[w]) /\ done = Head(tasks_done[w])
    OBVIOUS
  <2>2. /\ n \in Nat /\ DOMAIN w2s[w] = 1 .. n
        /\ w2s'[w] \in Seq(FromWorker)
        /\ \A j \in 1 .. n : w2s'[w][j] = w2s[w][j]
        /\ \/ DOMAIN w2s'[w] = 1 .. n
           \/ /\ DOMAIN w2s'[w] = 1 .. n + 2
              /\ w2s'[w][n + 1].tag = "FOUND_SOLUTION"
           \/ /\ DOMAIN w2s'[w] = 1 .. n + 1
              /\ w2s'[w][n + 1].solved = FALSE
           \/ /\ DOMAIN w2s'[w] = 1 .. n + 1
              /\ w2s'[w][n + 1].tag = "GET_INSTANCES"
           \/ /\ DOMAIN w2s'[w] = 1 .. n + 1
              /\ w2s'[w][n + 1].tag = "DISCONNECT"
    BY <1>5, <2>1, WorkerSends, Zenon
  <2>3. CASE i \in 1 .. n
    <3>1. solution_found \/ FoundBefore(w2s[w], i)
      BY <1>2, <2>2, <2>3
    <3>2. FoundBefore(w2s[w], i) => FoundBefore(w2s'[w], i)
      <4>1. \A j \in 1 .. n : j \in DOMAIN w2s'[w]
        BY <2>2
      <4>. QED  BY <2>2, <4>1 DEF FoundBefore
    <3>. QED  BY <3>1, <3>2, SolutionStays
  <2>4. CASE i \notin 1 .. n
    <3>1. DOMAIN w2s'[w] # 1 .. n
      BY <2>4
    <3>2. ~(DOMAIN w2s'[w] = 1 .. n + 1 /\ w2s'[w][n + 1].tag = "GET_INSTANCES")
      BY <2>2, <2>4
    <3>3. ~(DOMAIN w2s'[w] = 1 .. n + 1 /\ w2s'[w][n + 1].tag = "DISCONNECT")
      BY <2>2, <2>4
    <3>4. ~(DOMAIN w2s'[w] = 1 .. n + 1 /\ w2s'[w][n + 1].solved = FALSE)
      <4>1. DOMAIN w2s'[w] = 1 .. n + 1 => i = n + 1
        BY <2>2, <2>4
      <4>. QED  BY <4>1
    <3>5. DOMAIN w2s'[w] = 1 .. n + 2 /\ w2s'[w][n + 1].tag = "FOUND_SOLUTION"
      BY <2>2, <3>1, <3>2, <3>3, <3>4
    <3>6. i \in {n + 1, n + 2}
      BY <2>2, <2>4, <3>5
    <3>7. i # n + 1
      BY <3>5
    <3>8. n + 1 \in DOMAIN w2s'[w] /\ n + 1 < i
      BY <2>2, <3>5, <3>6, <3>7
    <3>. QED  BY <3>5, <3>8 DEF FoundBefore
  <2>. QED  BY <2>3, <2>4
<1>. QED  BY <1>3, <1>4, <1>5, FromWorkers

(* Whoever knows of a solution has been told, all the way to the manager.  *)
LEMMA NewsReachManager ==
    ASSUME SchedProofs!IInv, SchedProofs!IInv', ChannelTypes, ManagerTypes,
           Solutions, Next
    PROVE  /\ \A i \in DOMAIN s2m' :
                  /\ s2m'[i].tag = "FOUND_SOLUTION" => solution_found'
                  /\ s2m'[i].tag = "SEND_STATISTICS" /\ s2m'[i].solved > 0 =>
                         m_solution_found' \/ FoundBefore(s2m', i)
           /\ solution_found' =>
                  m_solution_found' \/ FoundBefore(s2m', Len(s2m') + 1)
           /\ m_solution_found' => solution_found'
           /\ statistic'.solved > 0 => m_solution_found'
<1>. DEFINE n == Len(s2m)
<1>1. s2m \in Seq(ToManager) /\ n \in Nat /\ DOMAIN s2m = 1 .. n
  BY LenProperties DEF ChannelTypes
<1>2. /\ \A i \in 1 .. n :
             /\ s2m[i].tag = "FOUND_SOLUTION" => solution_found
             /\ s2m[i].tag = "SEND_STATISTICS" /\ s2m[i].solved > 0 =>
                    m_solution_found \/ FoundBefore(s2m, i)
      /\ solution_found => m_solution_found \/ FoundBefore(s2m, n + 1)
      /\ m_solution_found => solution_found
      /\ statistic.solved > 0 => m_solution_found
  BY <1>1 DEF Solutions
(* Whatever is sent to the manager leaves what is on the way as it is.     *)
<1>3. ASSUME NEW msgs \in Seq(ToManager), s2m' = s2m \o msgs,
             UNCHANGED <<m_solution_found, statistic>>
      PROVE  /\ Len(s2m') = n + Len(msgs) /\ Len(msgs) \in Nat
             /\ DOMAIN msgs = 1 .. Len(msgs)
             /\ DOMAIN s2m' = 1 .. n + Len(msgs)
             /\ \A i \in 1 .. n : s2m'[i] = s2m[i]
             /\ \A i \in 1 .. Len(msgs) : s2m'[n + i] = msgs[i]
             /\ \A i, j \in Nat : j >= i /\ FoundBefore(s2m, i) =>
                    FoundBefore(s2m', j)
             /\ \A i \in 1 .. n :
                    /\ s2m'[i].tag = "FOUND_SOLUTION" => solution_found
                    /\ s2m'[i].tag = "SEND_STATISTICS" /\ s2m'[i].solved > 0 =>
                           m_solution_found' \/ FoundBefore(s2m', i)
  <2>1. /\ Len(s2m') = n + Len(msgs) /\ Len(msgs) \in Nat
        /\ DOMAIN msgs = 1 .. Len(msgs)
        /\ DOMAIN s2m' = 1 .. n + Len(msgs)
        /\ \A i \in 1 .. n : s2m'[i] = s2m[i]
        /\ \A i \in 1 .. Len(msgs) : s2m'[n + i] = msgs[i]
    BY <1>1, <1>3, PartsOfConcat
  <2>2. ASSUME NEW i \in Nat, NEW j \in Nat, j >= i, FoundBefore(s2m, i)
        PROVE  FoundBefore(s2m', j)
    <3>1. PICK k \in 1 .. n : k < i /\ s2m[k].tag = "FOUND_SOLUTION"
      BY <1>1, <2>2 DEF FoundBefore
    <3>2. k \in DOMAIN s2m' /\ k < j /\ s2m'[k].tag = "FOUND_SOLUTION"
      BY <1>1, <2>1, <2>2, <3>1
    <3>. QED  BY <3>2 DEF FoundBefore
  <2>3. ASSUME NEW i \in 1 .. n
        PROVE  /\ s2m'[i].tag = "FOUND_SOLUTION" => solution_found
               /\ s2m'[i].tag = "SEND_STATISTICS" /\ s2m'[i].solved > 0 =>
                      m_solution_found' \/ FoundBefore(s2m', i)
    <3>1. i \in Nat /\ i >= i
      BY <1>1
    <3>. QED  BY <1>2, <1>3, <2>1, <2>2, <3>1
  <2>. HIDE DEF n
  <2>. QED  BY <2>1, <2>2, <2>3
<1>4. CASE UNCHANGED <<s2m, solution_found, m_solution_found, statistic>>
  BY <1>1, <1>2, <1>4 DEF FoundBefore
<1>5. ASSUME NEW msg \in ToManager, s2m' = Append(s2m, msg),
             UNCHANGED <<m_solution_found, statistic>>
      PROVE  \E msgs \in Seq(ToManager) :
                 /\ s2m' = s2m \o msgs
                 /\ Len(msgs) = 1 /\ msgs[1] = msg
  <2>1. PICK msgs \in Seq(ToManager) : msgs = <<msg>>
    BY SingleSeq
  <2>2. s2m' = s2m \o msgs /\ Len(msgs) = 1 /\ msgs[1] = msg
    BY <1>1, <1>5, <2>1, AppendIsConcat
  <2>. QED  BY <2>2
<1>6. CASE /\ \E w \in Worker :
                  /\ ServeWorker(w) /\ Head(w2s[w]).tag = "FOUND_SOLUTION"
                  /\ s2m' = Append(s2m, SolutionNotice(Head(w2s[w]).task))
           /\ solution_found' = TRUE
           /\ UNCHANGED <<m_solution_found, statistic>>
  <2>1. PICK w \in Worker :
            /\ ServeWorker(w) /\ Head(w2s[w]).tag = "FOUND_SOLUTION"
            /\ s2m' = Append(s2m, SolutionNotice(Head(w2s[w]).task))
    BY <1>6
  <2>2. Head(w2s[w]) \in FromWorker
    BY <2>1, FirstOfSeq DEF ServeWorker, Ready, ChannelTypes
  <2>3. Head(w2s[w]).task \in Nat
    BY <2>1, <2>2, WorkerMessage
  <2>4. PICK msg \in ToManager : msg = SolutionNotice(Head(w2s[w]).task)
    BY <2>3 DEF ToManager
  <2>5. msg.tag = "FOUND_SOLUTION"
    BY <2>4 DEF SolutionNotice
  <2>6. PICK msgs \in Seq(ToManager) :
            s2m' = s2m \o msgs /\ Len(msgs) = 1 /\ msgs[1] = msg
    BY <1>5, <1>6, <2>1, <2>4
  <2>7. /\ DOMAIN s2m' = 1 .. n + 1 /\ Len(s2m') = n + 1
        /\ s2m'[n + 1] = msg
        /\ \A i \in 1 .. n :
               s2m'[i].tag = "SEND_STATISTICS" /\ s2m'[i].solved > 0 =>
                      m_solution_found' \/ FoundBefore(s2m', i)
    <3>. HIDE DEF n
    <3>1. UNCHANGED <<m_solution_found, statistic>>
      BY <1>6
    <3>2. /\ Len(s2m') = n + Len(msgs)
          /\ DOMAIN s2m' = 1 .. n + Len(msgs)
          /\ \A i \in 1 .. Len(msgs) : s2m'[n + i] = msgs[i]
          /\ \A i \in 1 .. n :
                 s2m'[i].tag = "SEND_STATISTICS" /\ s2m'[i].solved > 0 =>
                      m_solution_found' \/ FoundBefore(s2m', i)
      BY <1>3, <2>6, <3>1
    <3>3. 1 \in 1 .. Len(msgs)
      BY <2>6
    <3>. QED  BY <2>6, <3>2, <3>3
  <2>8. FoundBefore(s2m', Len(s2m') + 1)
    BY <1>1, <2>5, <2>7 DEF FoundBefore
  <2>9. \A i \in DOMAIN s2m' :
            s2m'[i].tag = "SEND_STATISTICS" /\ s2m'[i].solved > 0 =>
                m_solution_found' \/ FoundBefore(s2m', i)
    <3>1. \A i \in DOMAIN s2m' : i \in 1 .. n \/ i = n + 1
      BY <1>1, <2>7
    <3>. QED  BY <2>5, <2>7, <3>1
  <2>. QED  BY <1>2, <1>6, <2>8, <2>9
<1>7. CASE /\ \E w \in Worker :
                  ServeWorker(w) /\ Head(w2s[w]).tag = "DONE_PROCESSING"
           /\ s2m' = s2m \o Statistics(available_tasks')
           /\ UNCHANGED <<solution_found, m_solution_found, statistic>>
  <2>1. available_tasks' \in Seq(TaskInfo)
    BY DEF SchedProofs!IInv, SchedProofs!TypeOK, SchedProofs!TaskInfo, TaskInfo
  <2>2. PICK msgs \in Seq(ToManager) :
            /\ msgs = Statistics(available_tasks')
            /\ \A i \in DOMAIN msgs : \E t \in DOMAIN available_tasks' :
                   msgs[i] = Statistic(t, available_tasks'[t].started,
                                       available_tasks'[t].times_solved)
    BY <2>1, StatisticsType
  <2>3. \A i \in DOMAIN msgs : /\ msgs[i].tag = "SEND_STATISTICS"
                               /\ msgs[i].solved > 0 => solution_found'
    <3>1. \A t, a, b : /\ Statistic(t, a, b).tag = "SEND_STATISTICS"
                       /\ Statistic(t, a, b).solved = b
      BY DEF Statistic
    <3>. QED  BY <2>2, <3>1, CountedIsTold
  <2>4. s2m' = s2m \o msgs
    BY <1>7, <2>2
  <2>5. /\ Len(s2m') = n + Len(msgs) /\ Len(msgs) \in Nat
        /\ DOMAIN msgs = 1 .. Len(msgs)
        /\ DOMAIN s2m' = 1 .. n + Len(msgs)
        /\ \A i \in 1 .. Len(msgs) : s2m'[n + i] = msgs[i]
        /\ \A i, j \in Nat : j >= i /\ FoundBefore(s2m, i) =>
               FoundBefore(s2m', j)
        /\ \A i \in 1 .. n :
               /\ s2m'[i].tag = "FOUND_SOLUTION" => solution_found
               /\ s2m'[i].tag = "SEND_STATISTICS" /\ s2m'[i].solved > 0 =>
                      m_solution_found' \/ FoundBefore(s2m', i)
    BY <1>3, <1>7, <2>4
  <2>6. \A j \in Nat : j >= n + 1 /\ solution_found =>
            m_solution_found' \/ FoundBefore(s2m', j)
    <3>1. n + 1 \in Nat
      BY <1>1
    <3>. HIDE DEF n
    <3>2. solution_found => m_solution_found \/ FoundBefore(s2m, n + 1)
      BY <1>2
    <3>. QED  BY <1>7, <2>5, <3>1, <3>2
  <2>7. ASSUME NEW i \in DOMAIN s2m', i \notin 1 .. n
        PROVE  /\ s2m'[i].tag # "FOUND_SOLUTION"
               /\ s2m'[i].solved > 0 =>
                      m_solution_found' \/ FoundBefore(s2m', i)
    <3>1. PICK k \in DOMAIN msgs : k = i - n
      BY <1>1, <2>5, <2>7
    <3>2. n + k = i /\ i >= n + 1 /\ i \in Nat
      BY <1>1, <2>5, <2>7, <3>1
    <3>3. s2m'[i] = msgs[k]
      BY <2>5, <3>1, <3>2
    <3>. QED  BY <1>7, <2>3, <2>6, <3>1, <3>2, <3>3
  <2>8. solution_found' =>
            m_solution_found' \/ FoundBefore(s2m', Len(s2m') + 1)
    <3>1. Len(s2m') + 1 \in Nat /\ Len(s2m') + 1 >= n + 1
      BY <1>1, <2>5
    <3>. QED  BY <1>7, <2>6, <3>1
  <2>. QED  BY <1>2, <1>7, <2>5, <2>7, <2>8
<1>8. CASE /\ s2m' = Append(s2m, DisconnectServer)
           /\ UNCHANGED <<solution_found, m_solution_found, statistic>>
  <2>0. DisconnectServer \in ToManager /\ DisconnectServer.tag = "DISCONNECT"
    <3>1. DisconnectServer \in ToManager
      BY DEF ToManager
    <3>2. DisconnectServer.tag = "DISCONNECT"
      BY DEF DisconnectServer
    <3>. QED  BY <3>1, <3>2
  <2>1. PICK msg \in ToManager :
            msg = DisconnectServer /\ msg.tag = "DISCONNECT"
    BY <2>0
  <2>2. PICK msgs \in Seq(ToManager) :
            s2m' = s2m \o msgs /\ Len(msgs) = 1 /\ msgs[1] = msg
    BY <1>5, <1>8, <2>1
  <2>3. /\ DOMAIN s2m' = 1 .. n + 1 /\ Len(s2m') = n + 1
        /\ s2m'[n + 1] = msg
        /\ \A i, j \in Nat : j >= i /\ FoundBefore(s2m, i) =>
               FoundBefore(s2m', j)
        /\ \A i \in 1 .. n :
               /\ s2m'[i].tag = "FOUND_SOLUTION" => solution_found
               /\ s2m'[i].tag = "SEND_STATISTICS" /\ s2m'[i].solved > 0 =>
                      m_solution_found' \/ FoundBefore(s2m', i)
    <3>. HIDE DEF n
    <3>1. UNCHANGED <<m_solution_found, statistic>>
      BY <1>8
    <3>2. /\ Len(s2m') = n + Len(msgs)
          /\ DOMAIN s2m' = 1 .. n + Len(msgs)
          /\ \A i \in 1 .. Len(msgs) : s2m'[n + i] = msgs[i]
          /\ \A i, j \in Nat : j >= i /\ FoundBefore(s2m, i) =>
                 FoundBefore(s2m', j)
          /\ \A i \in 1 .. n :
               /\ s2m'[i].tag = "FOUND_SOLUTION" => solution_found
               /\ s2m'[i].tag = "SEND_STATISTICS" /\ s2m'[i].solved > 0 =>
                      m_solution_found' \/ FoundBefore(s2m', i)
      BY <1>3, <2>2, <3>1
    <3>3. 1 \in 1 .. Len(msgs)
      BY <2>2
    <3>. QED  BY <2>2, <3>2, <3>3
  <2>4. \A i \in DOMAIN s2m' : i \in 1 .. n \/ i = n + 1
    BY <1>1, <2>3
  <2>5. FoundBefore(s2m, n + 1) => FoundBefore(s2m', Len(s2m') + 1)
    <3>1. n + 1 \in Nat /\ Len(s2m') + 1 \in Nat /\ Len(s2m') + 1 >= n + 1
      BY <1>1, <2>3
    <3>. QED  BY <2>3, <3>1
  <2>. QED  BY <1>2, <1>8, <2>1, <2>3, <2>4, <2>5
<1>9. CASE ProcessServerCommand /\ UNCHANGED solution_found
  <2>. DEFINE msg == Head(s2m)
  <2>1. /\ s2m # <<>> /\ s2m' = Tail(s2m)
        /\ m_solution_found' = (m_solution_found \/ msg.tag = "FOUND_SOLUTION")
        /\ statistic' = IF msg.tag = "SEND_STATISTICS"
                        THEN [started |-> statistic.started + msg.started,
                              solved  |-> statistic.solved + msg.solved]
                        ELSE statistic
    BY <1>9 DEF ProcessServerCommand
  <2>2. /\ n \in Nat \ {0} /\ 1 \in 1 .. n /\ msg = s2m[1] /\ msg \in ToManager
        /\ DOMAIN s2m' = 1 .. n - 1 /\ Len(s2m') = n - 1
        /\ \A i \in 1 .. n - 1 : s2m'[i] = s2m[i + 1] /\ i + 1 \in 1 .. n
    BY <1>1, <2>1, FirstOfSeq
  <2>3. ASSUME NEW i \in Nat, FoundBefore(s2m, i + 1)
        PROVE  m_solution_found' \/ FoundBefore(s2m', i)
    <3>1. PICK k \in 1 .. n : k < i + 1 /\ s2m[k].tag = "FOUND_SOLUTION"
      BY <1>1, <2>3 DEF FoundBefore
    <3>2. CASE k = 1
      BY <2>1, <2>2, <3>1, <3>2
    <3>3. CASE k # 1
      <4>1. /\ k - 1 \in 1 .. n - 1 /\ k - 1 < i /\ k - 1 + 1 = k
        BY <1>1, <3>1, <3>3
      <4>2. s2m'[k - 1] = s2m[k]
        BY <2>2, <4>1
      <4>. QED  BY <2>2, <3>1, <4>1, <4>2 DEF FoundBefore
    <3>. QED  BY <3>2, <3>3
  <2>4. m_solution_found => m_solution_found'
    BY <2>1
  <2>5. ASSUME NEW i \in DOMAIN s2m'
        PROVE  /\ s2m'[i].tag = "FOUND_SOLUTION" => solution_found'
               /\ s2m'[i].tag = "SEND_STATISTICS" /\ s2m'[i].solved > 0 =>
                      m_solution_found' \/ FoundBefore(s2m', i)
    <3>1. i \in Nat /\ i + 1 \in 1 .. n /\ s2m'[i] = s2m[i + 1]
      BY <2>2
    <3>. QED  BY <1>2, <1>9, <2>3, <2>4, <3>1
  <2>6. solution_found' =>
            m_solution_found' \/ FoundBefore(s2m', Len(s2m') + 1)
    <3>1. n \in Nat /\ Len(s2m') + 1 = n
      BY <2>2
    <3>. QED  BY <1>2, <1>9, <2>3, <2>4, <3>1
  <2>7. m_solution_found' => solution_found'
    BY <1>2, <1>9, <2>1, <2>2
  <2>8. statistic'.solved > 0 => m_solution_found'
    <3>1. ~FoundBefore(s2m, 1)
      BY <1>1 DEF FoundBefore
    <3>2. statistic.solved \in Nat
      BY DEF ManagerTypes
    <3>3. msg.tag = "SEND_STATISTICS" =>
              msg.solved \in Nat /\ (msg.solved > 0 => m_solution_found)
      BY <1>2, <2>2, <3>1, MessageToManager
    <3>4. msg.tag # "SEND_STATISTICS" => statistic' = statistic
      BY <2>1
    <3>5. msg.tag = "SEND_STATISTICS" =>
              statistic'.solved = statistic.solved + msg.solved
      BY <2>1
    <3>. QED  BY <1>2, <2>4, <3>2, <3>3, <3>4, <3>5
  <2>. QED  BY <2>5, <2>6, <2>7, <2>8
<1>. QED  BY <1>4, <1>6, <1>7, <1>8, <1>9, ToManagerForms

(* The news of a solution go to the manager before any statistic, and the  *)
(* flags on both sides follow them.                                        *)
LEMMA SolutionsKept ==
    ASSUME SchedProofs!IInv, SchedProofs!IInv', WorkerTypes, ChannelTypes,
           ManagerTypes, Solutions, Next
    PROVE  Solutions'
BY CountedIsTold, ResultFollowsNews, NewsReachManager DEF Solutions
=============================================================================
