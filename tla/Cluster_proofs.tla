---------------------------- MODULE Cluster_proofs -----------------------------
(***************************************************************************)
(* What Cluster promises, for any number of workers, solver threads and    *)
(* files: ClusterInvariant is an invariant of the program, and every step  *)
(* of it is one of Scheduler.  The two need one another.  That a step is   *)
(* one of Scheduler is what keeps Scheduler's invariant; that what a       *)
(* worker returns was out is Accounted; and that the next job is new,      *)
(* without which Apart would break, follows from Scheduler's invariant.    *)
(***************************************************************************)
EXTENDS ClusterFlow_proofs

(* Scheduler in the words of Cluster: what the server does when nothing is *)
(* given out or returned, and a message taken from it.                     *)
ManagerTold ==
    \/ /\ Len(available_tasks) < 2 * Max({Len(script) : script \in Scripts})
       /\ \E n \in UNION {FileSizesOf(script) : script \in Scripts} :
              ProcessAddFile(n)
    \/ ProcessAddWorkers
    \/ \E w \in Worker : AcceptWorker(w)
    \/ PassManagerBarrier
    \/ ProcessTerminate
    \/ NoManagerCommand

WorkerTold ==
    \/ \E w \in Connected, num \in Nat : NoAnswer(w) /\ ProcessGetInstances(w, num)
    \/ \E t \in DOMAIN available_tasks : ProcessFoundSolution(t)
    \/ \E index \in DOMAIN work_units : ProcessDisconnect(index)

ToServer == ManagerTold \/ WorkerTold \/ SendReply \/ Leave

Taking ==
    \/ \E w \in Worker :
           /\ s2w[w] # <<>>
           /\ s2w' = [s2w EXCEPT ![w] = Tail(@)]
           /\ UNCHANGED s2m
    \/ s2m # <<>> /\ s2m' = Tail(s2m) /\ UNCHANGED s2w
    \/ UNCHANGED <<s2w, s2m>>

SchedulerStep ==
    \/ HandOut /\ out' = out \cup InstancesOf(NextJob)
    \/ \E inst \in out, solved \in BOOLEAN :
           ProcessDoneProcessing(inst[1], solved) /\ out' = out \ {inst}
    \/ UNCHANGED out /\ ToServer
    \/ UNCHANGED out /\ UNCHANGED server_vars /\ Taking

(* Such a step is one of Scheduler as its proofs take it.                  *)
LEMMA StepOfSchedProofs ==
    SchedulerStep => [SchedProofs!Next]_(SchedProofs!vars)
<1>1. SchedProofs!Connected = Connected
  BY DEF Connected, SchedProofs!Connected, ToSet, SchedProofs!ToSet
<1>2. SchedProofs!NextRound = NextRound
  BY DEF NextRound, SchedProofs!NextRound
<1>3. \A ws, msg : SchedProofs!Broadcast(ws, msg) = Broadcast(ws, msg)
  BY DEF Broadcast, SchedProofs!Broadcast
<1>4. SchedProofs!SendTermination <=> SendTermination
  BY <1>1, <1>3 DEF SendTermination, SchedProofs!SendTermination,
     TerminateWorker,
             SchedProofs!TerminateWorker
<1>5. \A tasks_ : SchedProofs!Statistics(tasks_) = Statistics(tasks_)
  BY DEF Statistics, SchedProofs!Statistics, Worked,
             SchedProofs!Worked, Nth, SchedProofs!Nth, Statistic,
             SchedProofs!Statistic, Cardinality, SchedProofs!Cardinality,
             IsFiniteSet, SchedProofs!IsFiniteSet
<1>6. \A n : SchedProofs!ProcessAddFile(n) <=> ProcessAddFile(n)
  BY <1>1, <1>2, <1>3 DEF ProcessAddFile, SchedProofs!ProcessAddFile, AtProbe,
             SchedProofs!AtProbe, NewTask, SchedProofs!NewTask, Cons,
             SchedProofs!Cons, ActivateWorker, SchedProofs!ActivateWorker
<1>7. SchedProofs!ProcessAddWorkers <=> ProcessAddWorkers
  BY DEF ProcessAddWorkers, SchedProofs!ProcessAddWorkers, AtProbe,
             SchedProofs!AtProbe
<1>8. \A w : SchedProofs!AcceptWorker(w) <=> AcceptWorker(w)
  BY <1>1, <1>3 DEF AcceptWorker, SchedProofs!AcceptWorker, ActivateWorker,
             SchedProofs!ActivateWorker
<1>9. SchedProofs!PassManagerBarrier <=> PassManagerBarrier
  BY <1>2 DEF PassManagerBarrier, SchedProofs!PassManagerBarrier
<1>10. SchedProofs!ProcessTerminate <=> ProcessTerminate
  BY <1>2, <1>4 DEF ProcessTerminate, SchedProofs!ProcessTerminate, AtProbe,
             SchedProofs!AtProbe
<1>11. SchedProofs!NoManagerCommand <=> NoManagerCommand
  BY <1>2 DEF NoManagerCommand, SchedProofs!NoManagerCommand
<1>12. \A w, num : SchedProofs!ProcessGetInstances(w, num)
                      <=> ProcessGetInstances(w, num)
  BY DEF ProcessGetInstances, SchedProofs!ProcessGetInstances, Served,
             SchedProofs!Served
<1>13. SchedProofs!NextJob = NextJob
  BY DEF NextJob, SchedProofs!NextJob, Job, SchedProofs!Job, SmallerOf,
             SchedProofs!SmallerOf, InstancesAvailable,
             SchedProofs!InstancesAvailable, try_once, SchedProofs!try_once
<1>14. \A job : SchedProofs!InstancesOf(job) = InstancesOf(job)
  BY DEF InstancesOf, SchedProofs!InstancesOf
<1>15. SchedProofs!MoreToHandOut <=> MoreToHandOut
  BY DEF MoreToHandOut, SchedProofs!MoreToHandOut
<1>16. SchedProofs!HandOut <=> HandOut
  BY <1>13, <1>15 DEF HandOut, SchedProofs!HandOut, GivenOut,
     SchedProofs!GivenOut,
             Exhausted, SchedProofs!Exhausted, InstancesAvailable,
             SchedProofs!InstancesAvailable, try_once, SchedProofs!try_once
<1>17. SchedProofs!SendReply <=> SendReply
  BY <1>3, <1>15 DEF SendReply, SchedProofs!SendReply, NoReply,
             SchedProofs!NoReply, SendInstances, SchedProofs!SendInstances
<1>18. \A t : SchedProofs!ProcessFoundSolution(t) <=> ProcessFoundSolution(t)
  BY <1>4 DEF ProcessFoundSolution, SchedProofs!ProcessFoundSolution,
             SolutionNotice, SchedProofs!SolutionNotice
<1>19. \A t, solved : SchedProofs!ProcessDoneProcessing(t, solved)
                         <=> ProcessDoneProcessing(t, solved)
  BY <1>4, <1>5 DEF ProcessDoneProcessing, SchedProofs!ProcessDoneProcessing,
             Counted, SchedProofs!Counted, Count, SchedProofs!Count,
             Reschedule, SchedProofs!Reschedule, Finished,
             SchedProofs!Finished, try_once, SchedProofs!try_once
<1>20. \A index : SchedProofs!ProcessDisconnect(index) <=> ProcessDisconnect(index)
  BY DEF ProcessDisconnect, SchedProofs!ProcessDisconnect, MayStop,
             SchedProofs!MayStop, RemoveAt, SchedProofs!RemoveAt
<1>21. SchedProofs!Leave <=> Leave
  BY DEF Leave, SchedProofs!Leave, DisconnectServer,
             SchedProofs!DisconnectServer
<1>22. ASSUME SchedulerStep
       PROVE  [SchedProofs!Next]_(SchedProofs!vars)
  <2>1. CASE HandOut /\ out' = out \cup InstancesOf(NextJob)
    <3>1. SchedProofs!Give
      BY <1>13, <1>14, <1>16, <2>1 DEF SchedProofs!Give
    <3>. QED  BY <3>1 DEF SchedProofs!Next
  <2>2. ASSUME NEW inst \in out, NEW solved \in BOOLEAN,
               ProcessDoneProcessing(inst[1], solved), out' = out \ {inst}
        PROVE  SchedProofs!Next
    <3>1. SchedProofs!Return(inst, solved)
      BY <1>19, <2>2 DEF SchedProofs!Return
    <3>. QED  BY <3>1 DEF SchedProofs!Next
  <2>3. CASE UNCHANGED out /\ ToServer
    <3>1. ManagerTold => SchedProofs!ManagerCommand
      BY <1>6, <1>7, <1>8, <1>9, <1>10, <1>11 DEF ManagerTold,
         SchedProofs!ManagerCommand
    <3>2. WorkerTold => SchedProofs!WorkerCommand
      BY <1>1, <1>12, <1>18, <1>20
      DEF WorkerTold, NoAnswer, SchedProofs!WorkerCommand, SchedProofs!Answered
    <3>3. \/ SchedProofs!ManagerCommand \/ SchedProofs!WorkerCommand
          \/ SchedProofs!SendReply \/ SchedProofs!Leave
      BY <2>3, <3>1, <3>2, <1>17, <1>21 DEF ToServer
    <3>. QED  BY <2>3, <3>3 DEF SchedProofs!Next
  <2>4. CASE UNCHANGED out /\ UNCHANGED server_vars /\ Taking
    BY <2>4 DEF Taking, SchedProofs!Next, SchedProofs!Receive,
       SchedProofs!vars, SchedProofs!server_vars, server_vars
  <2>. QED  BY <1>22, <2>1, <2>2, <2>3, <2>4 DEF SchedulerStep
<1>. QED  BY <1>22

(* No request on its way asks for a negative number.                       *)
NaturalRequests ==
    \A w \in Worker : \A i \in DOMAIN w2s[w] :
        w2s[w][i].tag = "GET_INSTANCES" => w2s[w][i].num \in Nat

(* Commands on their way to the server are finitely many.                  *)
LEMMA FilesToldFinite ==
    ASSUME ChannelTypes
    PROVE  IsFiniteSet(FilesTold) /\ Cardinality(FilesTold) \in Nat
<1>1. DOMAIN m2s = 1 .. Len(m2s) /\ Len(m2s) \in Nat
  BY LenProperties DEF ChannelTypes
<1>2. IsFiniteSet(1 .. Len(m2s))
  BY <1>1, FS_Interval
<1>3. FilesTold \subseteq 1 .. Len(m2s)
  BY <1>1 DEF FilesTold
<1>. QED  BY <1>2, <1>3, FS_Subset, FS_CardinalityType

(* ADD_FILE: the server has room for another file, and it is one of the    *)
(* input's.                                                                *)
LEMMA RoomForFile ==
    ASSUME SchedProofs!IInv, ChannelTypes, ManagerTypes, Files, m2s # <<>>,
           Head(m2s).tag = "ADD_FILE"
    PROVE  /\ Len(available_tasks) < 2 * Max({Len(script) : script \in Scripts})
           /\ Head(m2s).n \in UNION {FileSizesOf(script) : script \in Scripts}
<1>1. 1 \in FilesTold /\ m2s[1] = Head(m2s)
  BY FirstOfSeq DEF FilesTold, ChannelTypes
<1>2. Cardinality(FilesTold) \in Nat \ {0}
  BY <1>1, FilesToldFinite, FS_EmptySet
<1>3. /\ Len(available_tasks) \in Nat /\ Len(m_input) \in Nat
      /\ Len(m_script) \in Nat /\ m_script \in Scripts
  BY ServerTypes, LenProperties, ManagerAssumption DEF ManagerTypes
<1>4. /\ Len(m_script) <= Max({Len(script) : script \in Scripts})
      /\ Max({Len(script) : script \in Scripts}) \in Nat
  BY <1>3, SchedulerParameters
<1>5. Len(available_tasks) + Cardinality(FilesTold) + Len(m_input)
          + (IF m_once THEN Len(m_script) ELSE 0) <= 2 * Len(m_script)
  BY DEF Files
<1>6. Len(available_tasks) < 2 * Len(m_script)
  BY <1>2, <1>3, <1>5
<1>. QED  BY <1>1, <1>3, <1>4, <1>6 DEF Files

(* What a worker sends the server makes it do what Scheduler allows.       *)
LEMMA ServeWorkerStep ==
    ASSUME SchedProofs!IInv, SchedProofs!SchedulerAssumption, Control, Flow,
           Next, NaturalRequests, NEW w \in Worker, ServeWorker(w)
    PROVE  SchedulerStep
<1>. DEFINE msg == Head(w2s[w])
<1>1. /\ w \in Connected /\ w2s[w] # <<>>
      /\ 1 \in DOMAIN w2s[w] /\ w2s[w][1] = msg
      /\ msg \in FromWorker
  BY FirstOfSeq DEF ServeWorker, Ready, Control, ChannelTypes
<1>2. CASE msg.tag = "GET_INSTANCES"
  <2>1. ProcessGetInstances(w, msg.num) /\ UNCHANGED out
    BY <1>2 DEF ServeWorker
  <2>2. NoAnswer(w) /\ msg.num \in Nat
    BY <1>1, <1>2 DEF NaturalRequests, Control, Requesting
  <2>3. WorkerTold
    BY <1>1, <2>1, <2>2 DEF WorkerTold
  <2>. QED  BY <2>1, <2>3 DEF SchedulerStep, ToServer
<1>3. CASE msg.tag = "FOUND_SOLUTION"
  <2>1. ProcessFoundSolution(msg.task) /\ UNCHANGED out
    BY <1>3 DEF ServeWorker
  <2>2. msg.task \in DOMAIN available_tasks
    BY <1>1, <1>3 DEF Flow, SolvedTasks
  <2>3. WorkerTold
    BY <2>1, <2>2 DEF WorkerTold
  <2>. QED  BY <2>1, <2>3 DEF SchedulerStep, ToServer
<1>4. CASE msg.tag = "DONE_PROCESSING"
  <2>1. ProcessDoneProcessing(msg.inst[1], msg.solved) /\ out' = out \ {msg.inst}
    BY <1>4 DEF ServeWorker
  <2>2. msg.inst \in out
    <3>1. msg.inst \in Returned(w)
      BY <1>1, <1>4 DEF Returned
    <3>2. Places[w]["returned"] \subseteq out
      BY DEF Flow, Accounted, Kind
    <3>3. Places[w]["returned"] = Returned(w)
      BY PlacesByKind DEF Returned, ReturnedIn
    <3>. QED  BY <3>1, <3>2, <3>3
  <2>3. msg.solved \in BOOLEAN
    BY <1>1, <1>4, WorkerMessage
  <2>. QED  BY <2>1, <2>2, <2>3 DEF SchedulerStep
<1>5. CASE msg.tag = "DISCONNECT"
  <2>1. ProcessDisconnect(IndexOf(w)) /\ UNCHANGED out
    BY <1>5 DEF ServeWorker
  <2>2. IndexOf(w) \in DOMAIN work_units
    <3>1. \E i \in DOMAIN work_units : work_units[i] = w
      BY <1>1 DEF Connected, ToSet
    <3>. QED  BY <3>1 DEF IndexOf
  <2>3. WorkerTold
    BY <2>1, <2>2 DEF WorkerTold
  <2>. QED  BY <2>1, <2>3 DEF SchedulerStep, ToServer
<1>. QED  BY <1>2, <1>3, <1>4, <1>5 DEF ServeWorker

(* The manager's commands, and whatever the server does by itself.         *)
LEMMA OtherServerStep ==
    ASSUME SchedProofs!IInv, ChannelTypes, ManagerTypes, Files,
           ServeManager \/ ServerAlone \/ ServerBarrier
    PROVE  SchedulerStep
<1>1. CASE ServeManager
  <2>1. /\ UNCHANGED out /\ m2s # <<>>
        /\ \/ Head(m2s).tag = "ADD_FILE" /\ ProcessAddFile(Head(m2s).n)
           \/ ProcessAddWorkers
           \/ ProcessTerminate
    BY <1>1 DEF ServeManager
  <2>2. ManagerTold
    BY <2>1, RoomForFile DEF ManagerTold
  <2>. QED  BY <2>1, <2>2 DEF SchedulerStep, ToServer
<1>2. CASE ServerAlone
  BY <1>2 DEF ServerAlone, SchedulerStep, ToServer, ManagerTold
<1>3. CASE ServerBarrier
  BY <1>3 DEF ServerBarrier, SchedulerStep, ToServer, ManagerTold
<1>. QED  BY <1>1, <1>2, <1>3

(* Whatever a worker does without the server, but for connecting.           *)
LEMMA ClientStep ==
    ASSUME NEW w \in Worker,
           \/ Connect(w) \/ LookupFails(w) \/ Spawn(w) \/ WorkerBarrier(w)
           \/ MainAlone(w)
           \/ \E i \in Thread : ThreadAlone(w, i)
    PROVE  SchedulerStep
<1>1. CASE Connect(w)
  BY <1>1 DEF Connect, SchedulerStep, ToServer, ManagerTold
<1>2. CASE LookupFails(w) \/ Spawn(w) \/ WorkerBarrier(w)
  <2>1. UNCHANGED <<server_vars, out, s2w, s2m>>
    BY <1>2 DEF LookupFails, Spawn, SpawnWorker, WorkerBarrier,
                PassWorkerBarrier
  <2>. QED  BY <2>1 DEF SchedulerStep, Taking
<1>3. CASE MainAlone(w)
  <2>1. UNCHANGED <<server_vars, out>>
    BY <1>3 DEF MainAlone
  <2>2. /\ UNCHANGED s2m
        /\ \/ UNCHANGED s2w
           \/ s2w[w] # <<>> /\ s2w' = [s2w EXCEPT ![w] = Tail(@)]
    BY <1>3 DEF MainAlone, MainThread, Activate, ReturnTask, NothingToReturn,
                Probe, Await, CreateTasks, UnreadableFormula, StoreCounter,
                Join, Disconnect, ReceiveFromServer
  <2>3. Taking
    BY <2>2 DEF Taking
  <2>. QED  BY <2>1, <2>3 DEF SchedulerStep
<1>4. CASE \E i \in Thread : ThreadAlone(w, i)
  <2>1. UNCHANGED <<server_vars, out, s2w, s2m>>
    BY <1>4, SolverLeaves DEF ThreadAlone
  <2>. QED  BY <2>1 DEF SchedulerStep, Taking
<1>. QED  BY <1>1, <1>2, <1>3, <1>4

(* Every step of the program is one of Scheduler.                          *)
LEMMA ProgramStep ==
    ASSUME SchedProofs!IInv, SchedProofs!SchedulerAssumption, Control, Flow,
           Files, Next, NaturalRequests
    PROVE  SchedulerStep
<1>1. ASSUME NEW w \in Worker, ServeWorker(w)
      PROVE  SchedulerStep
  BY <1>1, ServeWorkerStep
<1>2. CASE ServeManager \/ ServerAlone \/ ServerBarrier
  BY <1>2, OtherServerStep DEF Control
<1>3. CASE ManagerAlone
  <2>1. UNCHANGED <<server_vars, out>>
    BY <1>3 DEF ManagerAlone
  <2>2. /\ UNCHANGED s2w
        /\ UNCHANGED s2m \/ (s2m # <<>> /\ s2m' = Tail(s2m))
    BY <1>3 DEF ManagerAlone, NextCommand, AddNextWorker, Rewind, Poll,
                WaitForServer, ProcessServerCommand
  <2>3. Taking
    BY <2>2 DEF Taking
  <2>. QED  BY <2>1, <2>3 DEF SchedulerStep
<1>4. ASSUME NEW w \in Worker,
             \/ Connect(w) \/ LookupFails(w) \/ Spawn(w) \/ WorkerBarrier(w)
             \/ MainAlone(w)
             \/ \E i \in Thread : ThreadAlone(w, i)
      PROVE  SchedulerStep
  BY <1>4, ClientStep
<1>. QED  BY <1>1, <1>2, <1>3, <1>4 DEF Next

-----------------------------------------------------------------------------
(* Hence Scheduler's invariant stays ...                                   *)
LEMMA SchedulerKept ==
    ASSUME SchedProofs!IInv, Control, Flow, Files, NaturalRequests, Next
    PROVE  SchedProofs!SchedulerAssumption /\ SchedProofs!IInv'
<1>1. SchedProofs!SchedulerAssumption
  BY SchedulerParameters DEF Control, ManagerTypes
<1>2. [SchedProofs!Next]_(SchedProofs!vars)
  <2>1. SchedulerStep
    BY <1>1, ProgramStep
  <2>. QED  BY <2>1, StepOfSchedProofs
<1>. QED  BY <1>1, <1>2, SchedProofs!StepInv

(* ... and with it everything said about where the processes are.          *)
LEMMA ControlKept ==
    ASSUME SchedProofs!IInv, Control, Flow, Files, NaturalRequests, Next
    PROVE  Control'
<1>1. SchedProofs!SchedulerAssumption /\ SchedProofs!IInv'
  BY SchedulerKept
<1>. USE DEF Control
<1>2. WorkerTypes' /\ ChannelTypes' /\ ManagerTypes'
  BY <1>1, WorkerTypesKept, ChannelTypesKept, ManagerTypesKept
<1>3. Threads' /\ Stopping' /\ Requesting' /\ Serving' /\ Farewell'
  BY ThreadsKept, StoppingKept, RequestingKept, ServingKept, FarewellKept
<1>4. Handshake' /\ Connections' /\ Leaving' /\ Unused'
  BY HandshakeKept, ConnectionsKept, LeavingKept, UnusedKept
<1>5. Solutions'
  BY <1>1, SolutionsKept
<1>. QED  BY <1>2, <1>3, <1>4, <1>5

-----------------------------------------------------------------------------
(* Files: the input is finite and read at most twice.                      *)
ToldIn(channel) == {i \in DOMAIN channel : channel[i].tag = "ADD_FILE"}

(* A command appended, or the first one taken: one file more or less.      *)
LEMMA ToldInAppended ==
    ASSUME NEW s \in Seq(FromManager), NEW msg \in FromManager
    PROVE  Cardinality(ToldIn(Append(s, msg))) =
               Cardinality(ToldIn(s)) + (IF msg.tag = "ADD_FILE" THEN 1 ELSE 0)
<1>1. /\ Len(s) \in Nat /\ DOMAIN s = 1 .. Len(s)
      /\ DOMAIN Append(s, msg) = 1 .. Len(s) + 1
      /\ Append(s, msg)[Len(s) + 1] = msg
      /\ \A i \in DOMAIN s : Append(s, msg)[i] = s[i]
  BY LastOfAppend
<1>2. IsFiniteSet(ToldIn(s)) /\ Cardinality(ToldIn(s)) \in Nat
  <2>1. IsFiniteSet(1 .. Len(s)) /\ ToldIn(s) \subseteq 1 .. Len(s)
    BY <1>1, FS_Interval DEF ToldIn
  <2>. QED  BY <2>1, FS_Subset, FS_CardinalityType
<1>. DEFINE n == Len(s) + 1
<1>3. n \notin ToldIn(s)
  BY <1>1 DEF ToldIn
<1>4. ToldIn(Append(s, msg)) =
          IF msg.tag = "ADD_FILE" THEN ToldIn(s) \cup {n} ELSE ToldIn(s)
  BY <1>1 DEF ToldIn
<1>. HIDE DEF n
<1>5. Cardinality(ToldIn(s) \cup {n}) = Cardinality(ToldIn(s)) + 1
  BY <1>2, <1>3, FS_AddElement
<1>. QED  BY <1>2, <1>4, <1>5

(* The server takes one command: one ADD_FILE less is on its way if it was *)
(* one (process_m2s_ADD_FILE).                                             *)
LEMMA ToldInTaken ==
    ASSUME NEW s \in Seq(FromManager), s # <<>>
    PROVE  Cardinality(ToldIn(s)) = Cardinality(ToldIn(Tail(s)))
               + (IF Head(s).tag = "ADD_FILE" THEN 1 ELSE 0)
<1>1. /\ Len(s) \in Nat \ {0} /\ DOMAIN s = 1 .. Len(s)
      /\ Head(s) = s[1] /\ DOMAIN Tail(s) = 1 .. Len(s) - 1
      /\ \A i \in DOMAIN Tail(s) : i + 1 \in DOMAIN s /\ Tail(s)[i] = s[i + 1]
  BY FirstOfSeq
<1>. DEFINE T == ToldIn(Tail(s))
            U == ToldIn(s) \ {1}
            up == [i \in T |-> i + 1]
<1>2. IsFiniteSet(T) /\ Cardinality(T) \in Nat
  <2>1. IsFiniteSet(1 .. Len(s) - 1) /\ T \subseteq 1 .. Len(s) - 1
    BY <1>1, FS_Interval DEF ToldIn
  <2>. QED  BY <2>1, FS_Subset, FS_CardinalityType
<1>3. Cardinality(U) = Cardinality(T) /\ IsFiniteSet(U)
  <2>1. up \in [T -> U] /\ \A i, j \in T : up[i] = up[j] => i = j
    BY <1>1 DEF ToldIn
  <2>2. \A u \in U : \E i \in T : up[i] = u
    <3>1. ASSUME NEW u \in U
          PROVE  u - 1 \in T /\ up[u - 1] = u
      <4>1. u \in 2 .. Len(s)
        BY <1>1 DEF ToldIn
      <4>2. u - 1 \in 1 .. Len(s) - 1 /\ (u - 1) + 1 = u
        BY <1>1, <4>1
      <4>. QED  BY <1>1, <4>2 DEF ToldIn
    <3>. QED  BY <3>1
  <2>3. up \in Bijection(T, U)
    BY <2>1, <2>2, Fun_IsBij
  <2>. QED  BY <1>2, <2>3, Fun_ExistsBij, FS_Bijection
<1>4. ToldIn(s) = IF Head(s).tag = "ADD_FILE" THEN U \cup {1} ELSE U
  BY <1>1 DEF ToldIn
<1>5. 1 \notin U
  OBVIOUS
<1>. HIDE DEF T, U
<1>6. Cardinality(U \cup {1}) = Cardinality(U) + 1
  BY <1>3, <1>5, FS_AddElement
<1>. QED  BY <1>2, <1>3, <1>4, <1>6 DEF T

(* How the input is read.                                                  *)
LEMMA InputForms ==
    ASSUME Next
    PROVE  /\ m_script' = m_script
           /\ \/ UNCHANGED <<m_input, m_once>>
              \/ /\ NextCommand /\ m_input # <<>> /\ m_input' = Tail(m_input)
                 /\ m_once' = m_once
              \/ /\ Rewind /\ m_input = <<>> /\ m_once
                 /\ m_input' = m_script /\ ~m_once'
<1>1. CASE ManagerAlone
  <2>1. CASE NextCommand
    BY <2>1 DEF NextCommand
  <2>2. CASE AddNextWorker \/ Poll \/ WaitForServer
    BY <2>2 DEF AddNextWorker, Poll, WaitForServer, input_vars
  <2>3. CASE Rewind
    BY <2>3 DEF Rewind
  <2>. QED  BY <1>1, <2>1, <2>2, <2>3 DEF ManagerAlone
<1>2. ASSUME ~ManagerAlone
      PROVE  UNCHANGED input_vars
  <2>1. ASSUME NEW w \in Worker,
               \/ ServeWorker(w) \/ Connect(w) \/ LookupFails(w) \/ Spawn(w)
               \/ WorkerBarrier(w) \/ MainAlone(w)
               \/ \E i \in Thread : ThreadAlone(w, i)
        PROVE  UNCHANGED input_vars
    BY <2>1 DEF ServeWorker, Connect, LookupFails, Spawn, SpawnWorker,
                WorkerBarrier, PassWorkerBarrier, MainAlone, ThreadAlone,
                manager_vars
  <2>2. CASE ServeManager \/ ServerAlone \/ ServerBarrier
    BY <2>2 DEF ServeManager, ServerAlone, ServerBarrier, PassServerBarrier,
                manager_vars
  <2>. QED  BY <1>2, <2>1, <2>2 DEF Next
<1>. QED  BY <1>1, <1>2 DEF input_vars

(* There is room for every file that is still to come.                     *)
LEMMA FilesKept ==
    ASSUME SchedProofs!IInv, ChannelTypes, ManagerTypes, Files, Next
    PROVE  Files'
<1>. DEFINE told(channel) == Cardinality(ToldIn(channel))
            twice == IF m_once THEN Len(m_script) ELSE 0
<1>1. /\ m2s \in Seq(FromManager) /\ m_script \in Scripts
      /\ m_input \in Seq(ToSet(m_script)) /\ Len(m_input) \in Nat
      /\ Len(m_script) \in Nat /\ m_once \in BOOLEAN
      /\ available_tasks \in Seq(TaskInfo) /\ Len(available_tasks) \in Nat
      /\ told(m2s) \in Nat
  <2>1. told(m2s) \in Nat
    BY FilesToldFinite DEF FilesTold, ToldIn
  <2>. QED
    BY <2>1, ServerTypes, LenProperties, ManagerAssumption DEF ChannelTypes,
       ManagerTypes
<1>2. m_script' = m_script
  BY InputForms
<1>3. Len(available_tasks) + told(m2s) + Len(m_input) + twice <= 2 * Len(m_script)
  BY <1>1 DEF Files, FilesTold, ToldIn
<1>4. \A i \in DOMAIN m2s : m2s[i].tag = "ADD_FILE" =>
          m2s[i].n \in FileSizesOf(m_script)
  BY DEF Files, FilesTold
<1>5. SUFFICES
          /\ \A i \in DOMAIN m2s' : m2s'[i].tag = "ADD_FILE" =>
                 m2s'[i].n \in FileSizesOf(m_script)
          /\ Len(available_tasks') + told(m2s') + Len(m_input') + twice'
                 <= 2 * Len(m_script)
  BY <1>2 DEF Files, FilesTold, ToldIn
<1>6. CASE ServeManager
  <2>1. /\ m2s # <<>> /\ m2s' = Tail(m2s) /\ Head(m2s) \in FromManager
        /\ m_input' = m_input /\ m_once' = m_once
    BY <1>1, <1>6, FirstOfSeq DEF ServeManager, input_vars
  <2>2. Len(available_tasks') = Len(available_tasks)
            + (IF Head(m2s).tag = "ADD_FILE" THEN 1 ELSE 0)
    <3>1. CASE Head(m2s).tag = "ADD_FILE"
      <4>1. available_tasks' = Append(available_tasks, NewTask(Head(m2s).n))
        BY <1>6, <3>1 DEF ServeManager, ProcessAddFile
      <4>. QED  BY <1>1, <3>1, <4>1
    <3>2. CASE Head(m2s).tag # "ADD_FILE"
      BY <1>1, <1>6, <3>2 DEF ServeManager, ProcessAddWorkers, ProcessTerminate
    <3>. QED  BY <3>1, <3>2
  <2>3. told(m2s) = told(m2s') + (IF Head(m2s).tag = "ADD_FILE" THEN 1 ELSE 0)
    BY <1>1, <2>1, ToldInTaken
  <2>4. told(m2s') \in Nat
    <3>1. ToldIn(m2s') \subseteq 1 .. Len(m2s')
      BY <1>1, <2>1, FirstOfSeq, LenProperties DEF ToldIn
    <3>2. IsFiniteSet(1 .. Len(m2s'))
      BY <1>1, <2>1, FirstOfSeq, LenProperties, FS_Interval
    <3>. QED  BY <3>1, <3>2, FS_Subset, FS_CardinalityType
  <2>5. twice' = twice
    BY <1>2, <2>1
  <2>6. Len(available_tasks') + told(m2s') + Len(m_input') + twice' <= 2 * Len(m_script)
    <3>. HIDE DEF told, twice
    <3>. QED  BY <1>1, <1>3, <2>1, <2>2, <2>3, <2>4, <2>5
  <2>7. \A i \in DOMAIN m2s' : m2s'[i].tag = "ADD_FILE" =>
                 m2s'[i].n \in FileSizesOf(m_script)
    BY <1>1, <1>4, <2>1, FirstOfSeq
  <2>. QED  BY <2>6, <2>7
<1>7. CASE ~ServeManager
  <2>1. Len(available_tasks') = Len(available_tasks)
    <3>1. CASE available_tasks' = available_tasks
      BY <3>1
    <3>2. CASE HandOut
      <4>1. PICK t, task : available_tasks' = [available_tasks EXCEPT ![t] = task]
        BY <3>2 DEF HandOut
      <4>. QED  BY <1>1, <4>1
    <3>3. ASSUME NEW t, NEW solved, ProcessDoneProcessing(t, solved)
          PROVE  Len(available_tasks') = Len(available_tasks)
      <4>1. PICK task : available_tasks' = [available_tasks EXCEPT ![t] = task]
        BY <3>3 DEF ProcessDoneProcessing
      <4>. QED  BY <1>1, <4>1
    <3>. QED  BY <1>7, <3>1, <3>2, <3>3, TaskForms
  <2>2. /\ Len(m_input') \in Nat /\ twice \in Nat /\ twice' \in Nat
        /\ Len(m_input') + twice' <= Len(m_input) + twice
    <3>1. CASE m_input' = m_input /\ m_once' = m_once
      BY <1>1, <1>2, <3>1
    <3>2. CASE m_input # <<>> /\ m_input' = Tail(m_input) /\ m_once' = m_once
      <4>1. Len(m_input') = Len(m_input) - 1 /\ Len(m_input) \in Nat \ {0}
        BY <1>1, <3>2, FirstOfSeq
      <4>. QED  BY <1>1, <1>2, <3>2, <4>1
    <3>3. CASE m_input = <<>> /\ m_once /\ m_input' = m_script /\ ~m_once'
      BY <1>1, <1>2, <3>3, EmptySeq
    <3>. QED  BY <3>1, <3>2, <3>3, InputForms
  <2>3. CASE m2s' = m2s
    <3>1. told(m2s') = told(m2s)
      BY <2>3
    <3>2. Len(available_tasks') + told(m2s') + Len(m_input') + twice' <= 2 * Len(m_script)
      <4>. HIDE DEF told, twice
      <4>. QED  BY <1>1, <1>3, <2>1, <2>2, <3>1
    <3>. QED  BY <1>4, <2>3, <3>2
  <2>4. ASSUME NEW msg \in FromManager, m2s' = Append(m2s, msg), ManagerAlone,
               msg.tag = "ADD_FILE" =>
                   /\ NextCommand /\ default_cmds = <<>>
                   /\ m_input # <<>> /\ Head(m_input).cmd = "add_file"
                   /\ msg.n = Head(m_input).n
        PROVE  /\ \A i \in DOMAIN m2s' : m2s'[i].tag = "ADD_FILE" =>
                      m2s'[i].n \in FileSizesOf(m_script)
               /\ Len(available_tasks') + told(m2s') + Len(m_input') + twice'
                      <= 2 * Len(m_script)
    <3>1. told(m2s') = told(m2s) + (IF msg.tag = "ADD_FILE" THEN 1 ELSE 0)
      BY <1>1, <2>4, ToldInAppended
    <3>2. msg.tag = "ADD_FILE" => /\ Len(m_input') = Len(m_input) - 1
                                  /\ twice' = twice
      <4>1. msg.tag = "ADD_FILE" => /\ m_input # <<>> /\ m_input' = Tail(m_input)
                                    /\ m_once' = m_once
        BY <2>4 DEF NextCommand
      <4>. QED  BY <1>1, <1>2, <4>1, FirstOfSeq
    <3>3. Len(available_tasks') + told(m2s') + Len(m_input') + twice' <= 2 * Len(m_script)
      <4>. HIDE DEF told, twice
      <4>1. CASE msg.tag = "ADD_FILE"
        BY <1>1, <1>3, <2>1, <2>2, <3>1, <3>2, <4>1
      <4>2. CASE msg.tag # "ADD_FILE"
        BY <1>1, <1>3, <2>1, <2>2, <3>1, <4>2
      <4>. QED  BY <4>1, <4>2
    <3>4. msg.tag = "ADD_FILE" => msg.n \in FileSizesOf(m_script)
      <4>1. m_input # <<>> => Head(m_input) \in ToSet(m_script)
        BY <1>1, FirstOfSeq
      <4>. QED  BY <2>4, <4>1 DEF FileSizesOf
    <3>5. /\ DOMAIN m2s' = 1 .. Len(m2s) + 1 /\ DOMAIN m2s = 1 .. Len(m2s)
          /\ Len(m2s) \in Nat /\ m2s'[Len(m2s) + 1] = msg
          /\ \A i \in DOMAIN m2s : m2s'[i] = m2s[i]
      BY <1>1, <2>4, LastOfAppend
    <3>6. ASSUME NEW i \in DOMAIN m2s', m2s'[i].tag = "ADD_FILE"
          PROVE  m2s'[i].n \in FileSizesOf(m_script)
      <4>1. i \in DOMAIN m2s \/ i = Len(m2s) + 1
        BY <3>5
      <4>. QED  BY <1>4, <3>4, <3>5, <3>6, <4>1
    <3>. QED  BY <3>3, <3>6
  <2>. QED  BY <1>7, <2>3, <2>4, ManagerSays
<1>. QED  BY <1>6, <1>7

-----------------------------------------------------------------------------
(* The counter of a worker.  A step of somebody else leaves it alone, and  *)
(* what it stands for, but for the place of the main thread when that      *)
(* connects or leaves.                                                     *)
Alone(w) ==
    /\ w_running'[w] = w_running[w]
    /\ instances_to_get'[w] = instances_to_get[w]
    /\ w_loaded'[w] = w_loaded[w] /\ w_jobs'[w] = w_jobs[w]
    /\ tasks'[w] = tasks[w] /\ thread'[w] = thread[w]
    /\ \/ w_pc'[w] = w_pc[w]
       \/ /\ w_pc[w] \in {"absent", "connect"}
          /\ w_pc'[w] \in {"connect", "activate", "aborted"}
       \/ w_pc[w] \in {"barrier", "bye"} /\ w_pc'[w] \in {"bye", "gone"}

(* From a worker's side a step is of its main thread, of one of its solver *)
(* threads or of another process.                                          *)
LEMMA LocalForms ==
    ASSUME WorkerTypes, ChannelTypes, Stopping, Farewell, Next, NEW w \in Worker
    PROVE  \/ MainAlone(w)
           \/ \E i \in Thread : ThreadAlone(w, i)
           \/ Alone(w)
<1>1. \/ MainAlone(w)
      \/ w_pc'[w] = w_pc[w]
      \/ /\ w_pc[w] \in {"absent", "connect"}
         /\ w_pc'[w] \in {"connect", "activate", "aborted"}
      \/ w_pc[w] \in {"barrier", "bye"} /\ w_pc'[w] \in {"bye", "gone"}
  BY WhereNext
<1>2. ASSUME NEW v \in Worker \ {w}, MainAlone(v)
      PROVE  /\ w_running'[w] = w_running[w]
             /\ instances_to_get'[w] = instances_to_get[w]
             /\ w_loaded'[w] = w_loaded[w]
  BY <1>2 DEF MainAlone, MainThread, Activate, ReturnTask, NothingToReturn,
      Probe, Await, CreateTasks, UnreadableFormula, StoreCounter, Join,
      Disconnect, Runs, WorkerTypes
<1>3. ASSUME NEW v \in Worker \ {w}, NEW i \in Thread, ThreadAlone(v, i)
      PROVE  /\ w_running'[w] = w_running[w]
             /\ instances_to_get'[w] = instances_to_get[w]
             /\ w_loaded'[w] = w_loaded[w]
  BY <1>3 DEF ThreadAlone, SolverThread, PopTask, StopPolling, StartTask,
      FinishTask, StoreIncremented, OnlyThread, WorkerTypes
<1>4. CASE \E v \in Worker \ {w} : \/ MainAlone(v)
                                   \/ \E i \in Thread : ThreadAlone(v, i)
  <2>1. SameAt(w)
    BY <1>4, Elsewhere
  <2>. QED  BY <1>1, <1>2, <1>3, <1>4, <2>1 DEF Alone, SameAt
<1>5. CASE UNCHANGED <<w_running, tasks, tasks_done, instances_to_get, w_jobs,
                       w_loaded, thread>>
  BY <1>1, <1>5 DEF Alone
<1>. QED  BY <1>4, <1>5, OtherSteps

(* The parts of Counter: the counter and the two threads that may be       *)
(* updating it, ...                                                        *)
Updating(w) ==
    /\ \A i, j \in Thread :
           thread[w][i].pc = "store" /\ thread[w][j].pc = "store" => i = j
    /\ \A i \in Thread : thread[w][i].pc = "store" =>
           thread[w][i].loaded >= instances_to_get[w]
    /\ w_pc[w] = "store" => w_loaded[w] <= instances_to_get[w]
    /\ Covers(IF w_pc[w] = "store" THEN w_loaded[w] ELSE instances_to_get[w],
              w_jobs[w], 0)

(* ... and what was asked and answered with it.                            *)
Asking(w) ==
    /\ reply.to = w => Covers(instances_to_get[w], reply.jobs, reply.left)
    /\ \A i \in DOMAIN s2w[w] : s2w[w][i].tag = "SEND_INSTANCES" =>
           Covers(instances_to_get[w], s2w[w][i].jobs, 0)
    /\ \A i \in DOMAIN w2s[w] : w2s[w][i].tag = "GET_INSTANCES" =>
           w2s[w][i].num \in 0 .. instances_to_get[w]

(* Counter, worker by worker.                                              *)
LEMMA CounterParts ==
    /\ Counter <=> \A w \in Worker : Updating(w) /\ Asking(w)
    /\ Counter' <=> \A w \in Worker : Updating(w)' /\ Asking(w)'
BY DEF Counter, Updating, Asking

(* Jobs of so many instances.                                              *)
LEMMA JobSize ==
    ASSUME SchedProofs!SchedulerAssumption, NEW job \in JobType
    PROVE  /\ IsFiniteSet(InstancesOf(job))
           /\ Cardinality(InstancesOf(job)) = job.num
<1>1. /\ job.task \in Nat /\ job.first \in Int /\ job.num \in Nat
      /\ job = [task |-> job.task, first |-> job.first, num |-> job.num]
  BY DEF JobType
<1>2. SchedProofs!InstancesOf(SchedProofs!Job(job.task, job.first, job.num))
          = InstancesOf(job)
  BY <1>1 DEF SchedProofs!InstancesOf, SchedProofs!Job, InstancesOf
<1>3. /\ SchedProofs!IsFiniteSet(InstancesOf(job))
      /\ SchedProofs!Cardinality(InstancesOf(job)) = job.num
  BY <1>1, <1>2, SchedProofs!JobCardinality
<1>. QED  BY <1>3 DEF SchedProofs!IsFiniteSet, IsFiniteSet,
                      SchedProofs!Cardinality, Cardinality

(* create_tasks takes the first job: instances_to_get covers the rest      *)
(* without it.                                                             *)
LEMMA JobsTakenSize ==
    ASSUME SchedProofs!SchedulerAssumption, NEW jobs \in Seq(JobType), jobs # <<>>,
           JobsApart(jobs), NEW counter \in Int, Covers(counter, jobs, 0)
    PROVE  Covers(counter - Head(jobs).num, Tail(jobs), 0)
<1>. DEFINE H == InstancesOf(Head(jobs))
            T == InstancesOfJobs(Tail(jobs))
<1>1. /\ InstancesOfJobs(jobs) = H \cup T /\ H \cap T = {}
      /\ Head(jobs) \in JobType
  BY JobsTaken
<1>2. /\ IsFiniteSet(H \cup T) /\ Cardinality(H \cup T) + 0 <= counter
  BY <1>1 DEF Covers
<1>3. IsFiniteSet(H) /\ Cardinality(H) = Head(jobs).num /\ Head(jobs).num \in Nat
  BY <1>1, JobSize DEF JobType
<1>4. IsFiniteSet(T) /\ Cardinality(T) \in Nat
  <2>1. T \subseteq H \cup T
    OBVIOUS
  <2>. QED  BY <1>2, <2>1, FS_Subset, FS_CardinalityType
<1>5. Cardinality(H \cup T) = Head(jobs).num + Cardinality(T)
  <2>. HIDE DEF H, T
  <2>1. Cardinality(H \cup T) = Cardinality(H) + Cardinality(T) - Cardinality(H \cap T)
    BY <1>3, <1>4, FS_Union
  <2>2. Cardinality(H \cap T) = 0
    BY <1>1, FS_EmptySet
  <2>. QED  BY <1>3, <1>4, <2>1, <2>2
<1>. HIDE DEF H
<1>6. Cardinality(T) + 0 <= counter - Head(jobs).num
  <2>. HIDE DEF T
  <2>. QED  BY <1>2, <1>3, <1>4, <1>5
<1>. QED  BY <1>4, <1>6 DEF Covers

(* A round of the loop in process_w2s_GET_INSTANCES adds a job whose       *)
(* instances are no longer asked for.                                      *)
LEMMA JobsAppendedSize ==
    ASSUME SchedProofs!SchedulerAssumption, NEW jobs \in Seq(JobType),
           NEW job \in JobType, InstancesOfJobs(jobs) \cap InstancesOf(job) = {},
           NEW left \in Int, NEW counter \in Int, Covers(counter, jobs, left)
    PROVE  Covers(counter, Append(jobs, job), left - job.num)
<1>. DEFINE H == InstancesOfJobs(jobs)
            T == InstancesOf(job)
<1>1. InstancesOfJobs(Append(jobs, job)) = H \cup T
  BY JobsAppended
<1>2. IsFiniteSet(H) /\ Cardinality(H) \in Nat /\ Cardinality(H) + left <= counter
  BY FS_CardinalityType DEF Covers
<1>3. IsFiniteSet(T) /\ Cardinality(T) = job.num /\ job.num \in Nat
  BY JobSize DEF JobType
<1>4. IsFiniteSet(H \cup T) /\ Cardinality(H \cup T) = Cardinality(H) + job.num
  <2>. HIDE DEF H, T
  <2>1. /\ Cardinality(H \cup T) = Cardinality(H) + Cardinality(T) - Cardinality(H \cap T)
        /\ IsFiniteSet(H \cup T)
    BY <1>2, <1>3, FS_Union
  <2>2. Cardinality(H \cap T) = 0
    BY FS_EmptySet DEF H, T
  <2>. QED  BY <1>2, <1>3, <2>1, <2>2
<1>5. Cardinality(H \cup T) + (left - job.num) <= counter
  <2>. HIDE DEF H, T
  <2>. QED  BY <1>2, <1>3, <1>4
<1>. QED  BY <1>1, <1>4, <1>5 DEF Covers

(* A counter that grows, or less to be given, covers no less.              *)
LEMMA CoversMore ==
    ASSUME NEW c \in Int, NEW d \in Int, c <= d, NEW jobs, NEW l \in Int,
           NEW m \in Int, m <= l, Covers(c, jobs, l)
    PROVE  Covers(d, jobs, m)
<1>1. IsFiniteSet(InstancesOfJobs(jobs)) /\ Cardinality(InstancesOfJobs(jobs)) \in Nat
  BY FS_CardinalityType DEF Covers
<1>. DEFINE n == Cardinality(InstancesOfJobs(jobs))
<1>2. n + l <= c
  BY DEF Covers
<1>3. n + m <= d
  <2>. HIDE DEF n
  <2>. QED  BY <1>1, <1>2 DEF n
<1>. QED  BY <1>1, <1>3 DEF Covers

(* Without jobs the counter has to cover what is asked for; with jobs it   *)
(* is never negative.                                                      *)
LEMMA CoversNothing ==
    ASSUME NEW c \in Int, NEW l \in Int
    PROVE  /\ Covers(c, <<>>, l) <=> l <= c
           /\ \A jobs : Covers(c, jobs, 0) => c >= 0
<1>1. InstancesOfJobs(<<>>) = {} /\ IsFiniteSet({}) /\ Cardinality({}) = 0
  BY NoJobs, FS_EmptySet
<1>2. ASSUME NEW jobs, Covers(c, jobs, 0)
      PROVE  c >= 0
  <2>1. IsFiniteSet(InstancesOfJobs(jobs)) /\ Cardinality(InstancesOfJobs(jobs)) \in Nat
    BY <1>2, FS_CardinalityType DEF Covers
  <2>2. Cardinality(InstancesOfJobs(jobs)) + 0 <= c
    BY <1>2 DEF Covers
  <2>. QED  BY <2>1, <2>2
<1>3. Covers(c, <<>>, l) <=> 0 + l <= c
  BY <1>1, Zenon DEF Covers
<1>4. 0 + l <= c <=> l <= c
  OBVIOUS
<1>. QED  BY <1>2, <1>3, <1>4

(* The counter of a worker that waits for an answer only grows.            *)
LEMMA CounterGrows ==
    ASSUME WorkerTypes, ChannelTypes, Stopping, Farewell, Next, NEW w \in Worker,
           Updating(w), w_pc[w] = "await"
    PROVE  instances_to_get'[w] >= instances_to_get[w]
<1>0. /\ instances_to_get \in [Worker -> Int]
      /\ thread \in [Worker -> [Thread -> ThreadType]]
  BY DEF WorkerTypes
<1>1. CASE MainAlone(w)
  <2>1. Await(w)
    BY <1>1 DEF MainAlone, MainThread, Activate, ReturnTask, NothingToReturn,
                Probe, CreateTasks, UnreadableFormula, StoreCounter, Join,
                Disconnect, At
  <2>. QED  BY <1>0, <2>1 DEF Await
<1>2. ASSUME NEW i \in Thread, ThreadAlone(w, i)
      PROVE  instances_to_get'[w] >= instances_to_get[w]
  <2>1. CASE PopTask(w, i) \/ StopPolling(w, i) \/ StartTask(w, i)
    BY <1>0, <2>1 DEF PopTask, StopPolling, StartTask
  <2>2. ASSUME NEW outcome \in Outcomes, FinishTask(w, i, outcome)
        PROVE  instances_to_get'[w] >= instances_to_get[w]
    BY <1>0, <2>2 DEF FinishTask
  <2>3. CASE StoreIncremented(w, i)
    <3>1. thread[w][i].pc = "store" /\ thread[w][i].loaded \in Int
      BY <1>0, <2>3 DEF StoreIncremented, ThreadType
    <3>2. thread[w][i].loaded >= instances_to_get[w]
      BY <3>1 DEF Updating
    <3>. QED  BY <1>0, <2>3, <3>1, <3>2 DEF StoreIncremented
  <2>. QED  BY <1>2, <2>1, <2>2, <2>3 DEF ThreadAlone, SolverThread
<1>3. CASE Alone(w)
  BY <1>0, <1>3 DEF Alone
<1>. QED  BY <1>1, <1>2, <1>3, LocalForms

(* Updates of the solver threads.                                          *)
LEMMA ThreadUpdates ==
    ASSUME WorkerTypes, NEW w \in Worker, NEW i \in Thread, ThreadAlone(w, i),
           Updating(w)
    PROVE  Updating(w)'
<1>0. /\ instances_to_get \in [Worker -> Int] /\ w_loaded \in [Worker -> Int]
      /\ thread \in [Worker -> [Thread -> ThreadType]]
      /\ \A j \in Thread : thread[w][j].loaded \in Int
  BY DEF WorkerTypes, ThreadType
<1>1. UNCHANGED <<w_pc, w_jobs, w_loaded>>
  BY SolverLeaves DEF ThreadAlone
<1>. DEFINE cover(n) == IF w_pc[w] = "store" THEN w_loaded[w] ELSE n
            n == instances_to_get[w]
            m == instances_to_get'[w]
<1>2. ASSUME m \in Int, n <= m
      PROVE  /\ w_pc'[w] = "store" => w_loaded'[w] <= m
             /\ Covers(IF w_pc'[w] = "store" THEN w_loaded'[w] ELSE m, w_jobs'[w], 0)
  <2>1. CASE w_pc[w] = "store"
    BY <1>0, <1>1, <1>2, <2>1 DEF Updating
  <2>2. CASE w_pc[w] # "store"
    <3>1. Covers(n, w_jobs[w], 0)
      BY <2>2 DEF Updating
    <3>2. Covers(m, w_jobs[w], 0)
      <4>. HIDE DEF m
      <4>. QED  BY <1>0, <1>2, <3>1, CoversMore
    <3>. QED  BY <1>1, <2>2, <3>2
  <2>. QED  BY <2>1, <2>2
<1>3. CASE PopTask(w, i) \/ StopPolling(w, i) \/ StartTask(w, i)
  <2>1. m = n
    BY <1>3 DEF PopTask, StopPolling, StartTask
  <2>2. \A j \in Thread : thread'[w][j].pc = "store" => thread'[w][j] = thread[w][j]
    <3>1. /\ \A j \in Thread \ {i} : thread'[w][j] = thread[w][j]
          /\ \/ thread'[w][i].pc = "got"
             \/ thread'[w][i] = IdleThread("exit")
             \/ thread'[w][i] = [thread[w][i] EXCEPT !.pc = "exec"]
      BY <1>0, <1>3 DEF PopTask, StopPolling, StartTask, SetThread
    <3>2. thread[w][i] \in ThreadType
      BY <1>0
    <3>3. thread'[w][i].pc # "store"
      BY <3>1, <3>2 DEF IdleThread, ThreadType
    <3>. QED  BY <3>1, <3>3
  <2>. QED  BY <1>0, <1>2, <2>1, <2>2 DEF Updating
<1>4. ASSUME NEW outcome \in Outcomes, FinishTask(w, i, outcome)
      PROVE  Updating(w)'
  <2>1. \A j \in Thread : thread[w][j].pc # "store"
    BY <1>4 DEF FinishTask, TasksDoneMutexFree
  <2>2. m = n
    BY <1>4 DEF FinishTask
  <2>3. /\ thread'[w][i].loaded = n
        /\ \A j \in Thread \ {i} : thread'[w][j] = thread[w][j]
    BY <1>0, <1>4 DEF FinishTask, SetThread
  <2>4. \A j \in Thread : thread'[w][j].pc = "store" => j = i
    BY <2>1, <2>3
  <2>5. m >= n /\ m \in Int /\ n <= m
    BY <1>0, <2>2
  <2>. QED  BY <1>0, <1>2, <2>2, <2>3, <2>4, <2>5 DEF Updating
<1>5. CASE StoreIncremented(w, i)
  <2>1. thread[w][i].pc = "store" /\ m = thread[w][i].loaded + 1
    BY <1>0, <1>5 DEF StoreIncremented
  <2>2. m \in Int /\ n <= m
    BY <1>0, <2>1 DEF Updating
  <2>3. \A j \in Thread : thread'[w][j].pc # "store"
    <3>1. thread'[w][i].pc # "store"
      BY <1>0, <1>5 DEF StoreIncremented, SetThread, IdleThread, PollOrExit
    <3>2. \A j \in Thread \ {i} : thread'[w][j] = thread[w][j]
      BY <1>0, <1>5 DEF StoreIncremented, SetThread
    <3>. QED  BY <2>1, <3>1, <3>2 DEF Updating
  <2>. QED  BY <1>2, <2>2, <2>3 DEF Updating
<1>. QED  BY <1>3, <1>4, <1>5 DEF ThreadAlone, SolverThread

(* Updates of the main thread: the tasks it made come off the counter.     *)
LEMMA MainUpdates ==
    ASSUME SchedProofs!SchedulerAssumption, WorkerTypes, ChannelTypes, Threads,
           Once, NEW w \in Worker, MainAlone(w), Updating(w), Asking(w)
    PROVE  Updating(w)'
<1>0. /\ instances_to_get \in [Worker -> Int] /\ w_loaded \in [Worker -> Int]
      /\ w_jobs \in [Worker -> Seq(JobType)] /\ w_pc \in [Worker -> WorkerPc]
      /\ thread \in [Worker -> [Thread -> ThreadType]]
      /\ \A j \in Thread : thread[w][j].loaded \in Int
      /\ instances_to_get[w] \in Int /\ w_loaded[w] \in Int
      /\ NumThreads \in Nat
  BY WorkerAssumption DEF WorkerTypes, ThreadType
<1>1. CASE Activate(w)
  <2>1. w_jobs'[w] = <<>> /\ w_pc[w] = "activate"
    BY <1>1 DEF Activate, At, Threads
  <2>2. CASE Head(s2w[w]).tag = "ACTIVATE_WORKER"
    <3>1. /\ instances_to_get'[w] = NumThreads /\ w_pc'[w] # "store"
          /\ \A j \in Thread : thread'[w][j] = IdleThread(PollOrExit(w_running[w]))
      BY <1>0, <1>1, <2>2 DEF Activate, Goto, LoopOrJoin
    <3>2. \A j \in Thread : thread'[w][j].pc # "store"
      BY <3>1 DEF IdleThread, PollOrExit
    <3>3. Covers(NumThreads, <<>>, 0)
      BY <1>0, CoversNothing
    <3>. QED  BY <2>1, <3>1, <3>2, <3>3 DEF Updating
  <2>3. CASE Head(s2w[w]).tag # "ACTIVATE_WORKER"
    BY <1>1, <2>3 DEF Activate, Updating
  <2>. QED  BY <2>2, <2>3
<1>2. CASE \/ ReturnTask(w) \/ NothingToReturn(w) \/ Probe(w)
           \/ UnreadableFormula(w) \/ Join(w) \/ Disconnect(w)
  <2>1. /\ UNCHANGED <<instances_to_get, w_jobs, w_loaded, thread>>
        /\ w_pc[w] # "store" /\ w_pc'[w] # "store"
    BY <1>0, <1>2 DEF ReturnTask, NothingToReturn, Probe, UnreadableFormula,
       Join,
                      Disconnect, At, Goto, LoopOrJoin
  <2>. QED  BY <2>1 DEF Updating
<1>3. CASE Await(w)
  <2>1. /\ UNCHANGED <<instances_to_get, w_loaded, thread>>
        /\ w_pc[w] = "await" /\ w_pc'[w] # "store"
        /\ s2w[w] # <<>>
        /\ \/ w_jobs'[w] = <<>>
           \/ /\ Head(s2w[w]).tag = "SEND_INSTANCES"
              /\ w_jobs'[w] = Head(s2w[w]).jobs
    BY <1>0, <1>3 DEF Await, At, Goto, LoopOrJoin, ReceiveFromServer
  <2>2. Covers(instances_to_get[w], w_jobs[w], 0)
    BY <2>1 DEF Updating
  <2>3. Covers(instances_to_get[w], <<>>, 0)
    BY <1>0, <2>2, CoversNothing
  <2>4. Head(s2w[w]).tag = "SEND_INSTANCES" =>
            Covers(instances_to_get[w], Head(s2w[w]).jobs, 0)
    BY <2>1, FirstOfSeq DEF Asking, ChannelTypes
  <2>. QED  BY <2>1, <2>3, <2>4 DEF Updating
<1>4. CASE CreateTasks(w) \/ StoreCounter(w)
  <2>. DEFINE c == IF w_pc[w] = "store" THEN w_loaded[w] ELSE instances_to_get[w]
              num == Head(w_jobs[w]).num
  <2>1. /\ w_pc[w] \in {"create", "store"} /\ w_jobs[w] # <<>>
        /\ JobsApart(w_jobs[w]) /\ w_jobs[w] \in Seq(JobType)
    BY <1>0, <1>4 DEF CreateTasks, StoreCounter, At, Threads, Once
  <2>2. c \in Int /\ num \in Nat
    <3>1. Head(w_jobs[w]) \in JobType
      BY <2>1, JobsTaken
    <3>. QED  BY <1>0, <3>1 DEF JobType
  <2>3. Covers(c, w_jobs[w], 0) /\ c <= instances_to_get[w]
    BY <1>0 DEF Updating
  <2>4. Covers(c - num, Tail(w_jobs[w]), 0)
    <3>. HIDE DEF c
    <3>. QED  BY <2>1, <2>2, <2>3, JobsTakenSize
  <2>5. CASE CreateTasks(w)
    <3>1. /\ UNCHANGED <<instances_to_get, w_jobs, thread>>
          /\ w_loaded'[w] = instances_to_get[w]
          /\ w_pc'[w] = "store" /\ w_pc[w] = "create"
      BY <1>0, <2>5 DEF CreateTasks, Goto, At
    <3>. QED  BY <1>0, <2>3, <3>1 DEF Updating
  <2>6. CASE StoreCounter(w)
    <3>1. /\ instances_to_get'[w] = c - num
          /\ w_jobs'[w] = Tail(w_jobs[w]) /\ w_pc'[w] # "store"
          /\ UNCHANGED thread
      BY <1>0, <2>6 DEF StoreCounter, Goto, At, Taken, NextJobOrLoop
    <3>2. c - num <= instances_to_get[w] /\ c - num \in Int
      <4>. HIDE DEF c, num
      <4>. QED  BY <1>0, <2>2, <2>3
    <3>3. \A j \in Thread : thread[w][j].pc = "store" =>
              thread[w][j].loaded >= c - num
      <4>. HIDE DEF c, num
      <4>. QED  BY <1>0, <3>2 DEF Updating
    <3>. QED  BY <2>4, <3>1, <3>3 DEF Updating
  <2>. QED  BY <1>4, <2>5, <2>6
<1>. QED  BY <1>1, <1>2, <1>3, <1>4 DEF MainAlone, MainThread

(* A main thread that is changing instances_to_get has read what it will   *)
(* write from (create_tasks).                                              *)
LEMMA UpdatingKept ==
    ASSUME SchedProofs!SchedulerAssumption, Control, Once, Next,
           NEW w \in Worker, Updating(w), Asking(w)
    PROVE  Updating(w)'
<1>1. CASE MainAlone(w)
  BY <1>1, MainUpdates DEF Control
<1>2. CASE \E i \in Thread : ThreadAlone(w, i)
  BY <1>2, ThreadUpdates DEF Control
<1>3. CASE Alone(w)
  BY <1>3 DEF Alone, Updating
<1>. QED  BY <1>1, <1>2, <1>3, LocalForms DEF Control

(* The answer to a worker promises it no more than its counter covers.     *)
LEMMA AnswerCovered ==
    ASSUME SchedProofs!IInv, SchedProofs!SchedulerAssumption, Control, Accounted,
           Next, NEW w \in Worker, Updating(w), Asking(w), reply'.to = w
    PROVE  Covers(instances_to_get'[w], reply'.jobs, reply'.left)
<1>0. /\ instances_to_get \in [Worker -> Int] /\ instances_to_get' \in [Worker -> Int]
      /\ reply \in [to : Worker \cup {"nobody"}, left : Int, jobs : Seq(JobType)]
  BY WorkerTypesKept DEF Control, WorkerTypes, ChannelTypes
<1>1. ASSUME reply.to = w
      PROVE  /\ w_pc[w] = "await"
             /\ instances_to_get'[w] >= instances_to_get[w]
             /\ Covers(instances_to_get[w], reply.jobs, reply.left)
  <2>1. w_pc[w] = "await"
    BY <1>1 DEF Control, Requesting
  <2>. QED  BY <1>1, <2>1, CounterGrows DEF Control, Asking
<1>2. CASE UNCHANGED reply
  <2>1. reply.to = w /\ reply.left \in Int
    BY <1>0, <1>2
  <2>2. Covers(instances_to_get'[w], reply.jobs, reply.left)
    BY <1>0, <1>1, <2>1, CoversMore
  <2>. QED  BY <1>2, <2>2
<1>3. ASSUME NEW v \in Worker, ServeWorker(v), Head(w2s[v]).tag = "GET_INSTANCES",
             reply' = [to |-> v, left |-> Served(Head(w2s[v]).num), jobs |-> <<>>]
      PROVE  Covers(instances_to_get'[w], reply'.jobs, reply'.left)
  <2>1. v = w /\ reply'.jobs = <<>> /\ reply'.left = Served(Head(w2s[w]).num)
    BY <1>3
  <2>2. /\ w2s[w] # <<>> /\ 1 \in DOMAIN w2s[w] /\ w2s[w][1] = Head(w2s[w])
        /\ instances_to_get' = instances_to_get
    BY <1>3, <2>1, FirstOfSeq DEF ServeWorker, Ready, Control, ChannelTypes
  <2>3. Head(w2s[w]).num \in 0 .. instances_to_get[w]
    BY <1>3, <2>1, <2>2 DEF Asking
  <2>4. reply'.left \in Int /\ reply'.left <= instances_to_get[w]
    BY <1>0, <2>1, <2>3 DEF Served
  <2>5. Covers(instances_to_get[w], <<>>, reply'.left)
    BY <1>0, <2>4, CoversNothing
  <2>. QED  BY <2>1, <2>2, <2>5
<1>4. CASE /\ ServerAlone /\ HandOut
           /\ reply' = [to |-> reply.to, left |-> reply.left - NextJob.num,
                        jobs |-> Append(reply.jobs, NextJob)]
  <2>1. reply.to = w /\ reply'.jobs = Append(reply.jobs, NextJob)
        /\ reply'.left = reply.left - NextJob.num
        /\ instances_to_get' = instances_to_get
    BY <1>4 DEF ServerAlone, worker_vars
  <2>2. /\ NextJob \in JobType /\ InstancesOf(NextJob) \cap out = {}
    BY <1>4, NextJobNew DEF HandOut, JobType
  <2>3. InstancesOfJobs(reply.jobs) \subseteq out
    <3>1. Places[w]["reply"] \subseteq out
      BY DEF Accounted, Kind
    <3>. QED  BY <2>1, <3>1, PlacesByKind DEF Replied
  <2>4. Covers(instances_to_get[w], reply.jobs, reply.left)
    BY <1>1, <2>1
  <2>5. reply.jobs \in Seq(JobType) /\ reply.left \in Int /\ instances_to_get[w] \in Int
    BY <1>0
  <2>6. InstancesOfJobs(reply.jobs) \cap InstancesOf(NextJob) = {}
    BY <2>2, <2>3
  <2>7. Covers(instances_to_get[w], Append(reply.jobs, NextJob), reply.left - NextJob.num)
    BY <2>2, <2>4, <2>5, <2>6, JobsAppendedSize
  <2>. QED  BY <2>1, <2>7
<1>5. reply' # NoReply
  BY ClusterAssumption DEF NoReply
<1>. QED  BY <1>2, <1>3, <1>4, <1>5, ReplyForms

(* Nor does an answer on its way, ...                                      *)
LEMMA SentCovered ==
    ASSUME SchedProofs!IInv, SchedProofs!SchedulerAssumption, Control, Next,
           NEW w \in Worker, Updating(w), Asking(w),
           NEW i \in DOMAIN s2w'[w], s2w'[w][i].tag = "SEND_INSTANCES"
    PROVE  Covers(instances_to_get'[w], s2w'[w][i].jobs, 0)
<1>0. /\ instances_to_get \in [Worker -> Int] /\ instances_to_get' \in [Worker -> Int]
      /\ reply \in [to : Worker \cup {"nobody"}, left : Int, jobs : Seq(JobType)]
      /\ s2w[w] \in Seq(FromServer)
  BY WorkerTypesKept DEF Control, WorkerTypes, ChannelTypes
<1>1. ASSUME NEW j \in DOMAIN s2w[w], s2w[w][j].tag = "SEND_INSTANCES"
      PROVE  Covers(instances_to_get'[w], s2w[w][j].jobs, 0)
  <2>1. w_pc[w] = "await"
    BY <1>1 DEF Control, Requesting
  <2>2. instances_to_get[w] <= instances_to_get'[w]
    BY <1>0, <2>1, CounterGrows DEF Control
  <2>3. Covers(instances_to_get[w], s2w[w][j].jobs, 0)
    BY <1>1 DEF Asking
  <2>. QED  BY <1>0, <2>2, <2>3, CoversMore
<1>2. CASE s2w'[w] = s2w[w]
  BY <1>1, <1>2
<1>3. CASE s2w[w] # <<>> /\ s2w'[w] = Tail(s2w[w])
  <2>1. i + 1 \in DOMAIN s2w[w] /\ s2w'[w][i] = s2w[w][i + 1]
    BY <1>0, <1>3, FirstOfSeq
  <2>. QED  BY <1>1, <2>1
<1>4. ASSUME NEW msg \in FromServer, s2w'[w] = Append(s2w[w], msg),
             msg.tag = "SEND_INSTANCES" =>
                 Covers(instances_to_get'[w], msg.jobs, 0)
      PROVE  Covers(instances_to_get'[w], s2w'[w][i].jobs, 0)
  <2>1. /\ Len(s2w[w]) \in Nat /\ DOMAIN s2w[w] = 1 .. Len(s2w[w])
        /\ DOMAIN s2w'[w] = 1 .. Len(s2w[w]) + 1
        /\ s2w'[w][Len(s2w[w]) + 1] = msg
        /\ \A j \in DOMAIN s2w[w] : s2w'[w][j] = s2w[w][j]
    BY <1>0, <1>4, LastOfAppend
  <2>2. i \in DOMAIN s2w[w] \/ i = Len(s2w[w]) + 1
    BY <2>1
  <2>. QED  BY <1>1, <1>4, <2>1, <2>2
<1>5. ASSUME reply.to = w
      PROVE  Covers(instances_to_get'[w], reply.jobs, 0)
  <2>1. w_pc[w] = "await"
    BY <1>5 DEF Control, Requesting
  <2>2. instances_to_get[w] <= instances_to_get'[w]
    BY <1>0, <2>1, CounterGrows DEF Control
  <2>3. reply.left \in Nat
    BY DEF SchedProofs!IInv, SchedProofs!TypeOK
  <2>4. Covers(instances_to_get[w], reply.jobs, reply.left)
    BY <1>5 DEF Asking
  <2>. QED  BY <1>0, <2>2, <2>3, <2>4, CoversMore
<1>6. /\ ActivateWorker \in FromServer /\ ActivateWorker.tag # "SEND_INSTANCES"
      /\ TerminateWorker \in FromServer /\ TerminateWorker.tag # "SEND_INSTANCES"
      /\ SendInstances(reply.jobs) \in FromServer
      /\ SendInstances(reply.jobs).jobs = reply.jobs
  BY <1>0 DEF FromServer, ActivateWorker, TerminateWorker, SendInstances
<1>. QED  BY <1>2, <1>3, <1>4, <1>5, <1>6, ToWorkers DEF Control

(* ... and a request is for no more than that.                             *)
LEMMA RequestCovered ==
    ASSUME Control, Next, NEW w \in Worker, Updating(w), Asking(w),
           NEW i \in DOMAIN w2s'[w], w2s'[w][i].tag = "GET_INSTANCES"
    PROVE  w2s'[w][i].num \in 0 .. instances_to_get'[w]
<1>0. /\ instances_to_get \in [Worker -> Int] /\ instances_to_get' \in [Worker -> Int]
      /\ w2s[w] \in Seq(FromWorker)
  BY WorkerTypesKept DEF Control, WorkerTypes, ChannelTypes
<1>1. ASSUME NEW j \in DOMAIN w2s[w], w2s[w][j].tag = "GET_INSTANCES"
      PROVE  w2s[w][j].num \in 0 .. instances_to_get'[w]
  <2>1. w_pc[w] = "await"
    BY <1>1 DEF Control, Requesting
  <2>2. instances_to_get[w] <= instances_to_get'[w]
    BY <1>0, <2>1, CounterGrows DEF Control
  <2>3. w2s[w][j].num \in 0 .. instances_to_get[w]
    BY <1>1 DEF Asking
  <2>. QED  BY <1>0, <2>2, <2>3
<1>2. CASE w2s'[w] = w2s[w]
  BY <1>1, <1>2
<1>3. CASE w2s[w] # <<>> /\ w2s'[w] = Tail(w2s[w])
  <2>1. i + 1 \in DOMAIN w2s[w] /\ w2s'[w][i] = w2s[w][i + 1]
    BY <1>0, <1>3, FirstOfSeq
  <2>. QED  BY <1>1, <2>1
<1>4. CASE MainAlone(w) /\ (ReturnTask(w) \/ Probe(w) \/ Disconnect(w))
  <2>. DEFINE n == Len(w2s[w])
              last == w2s'[w][n + 1]
  <2>1. /\ n \in Nat /\ DOMAIN w2s[w] = 1 .. n
        /\ \A j \in 1 .. n : w2s'[w][j] = w2s[w][j]
        /\ \/ DOMAIN w2s'[w] = 1 .. n
           \/ /\ DOMAIN w2s'[w] = 1 .. n + 2
              /\ w2s'[w][n + 1].tag = "FOUND_SOLUTION"
              /\ w2s'[w][n + 2].tag = "DONE_PROCESSING"
           \/ /\ DOMAIN w2s'[w] = 1 .. n + 1
              /\ last.tag # "GET_INSTANCES"
           \/ /\ Probe(w) /\ instances_to_get[w] > 0
              /\ DOMAIN w2s'[w] = 1 .. n + 1
              /\ last.num = instances_to_get[w]
    BY <1>4, WorkerSends DEF Control
  <2>2. CASE i \in DOMAIN w2s[w]
    BY <1>1, <2>1, <2>2
  <2>3. CASE i \notin DOMAIN w2s[w]
    <3>1. \/ i = n + 1 /\ Probe(w) /\ last.num = instances_to_get[w]
             /\ instances_to_get[w] > 0
      <4>. HIDE DEF last
      <4>. QED  BY <2>1, <2>3 DEF last
    <3>2. instances_to_get' = instances_to_get
      BY <3>1 DEF Probe
    <3>. QED  BY <1>0, <3>1, <3>2
  <2>. QED  BY <2>2, <2>3
<1>. QED  BY <1>2, <1>3, <1>4, FromWorkers DEF Control

(* The counter covers what it should after every step.                     *)
LEMMA CounterKept ==
    ASSUME SchedProofs!IInv, SchedProofs!SchedulerAssumption, Control, Flow,
           Counter, Next
    PROVE  Counter'
<1>1. ASSUME NEW w \in Worker
      PROVE  Updating(w)' /\ Asking(w)'
  <2>1. Updating(w) /\ Asking(w)
    BY CounterParts
  <2>2. Updating(w)'
    BY <2>1, UpdatingKept DEF Flow
  <2>3. Asking(w)'
    BY <2>1, AnswerCovered, SentCovered, RequestCovered DEF Flow, Asking
  <2>. QED  BY <2>2, <2>3
<1>. QED  BY <1>1, CounterParts

(* Requests are for natural numbers, then.                                 *)
LEMMA RequestsAreNatural ==
    ASSUME WorkerTypes, Counter
    PROVE  NaturalRequests
BY DEF Counter, NaturalRequests, WorkerTypes

-----------------------------------------------------------------------------
(* instances_to_get, as the worker's counter covers the jobs it works on.  *)
LEMMA CounterNatural ==
    ASSUME WorkerTypes, Counter, NEW w \in Worker
    PROVE  instances_to_get[w] \in Nat
<1>1. instances_to_get[w] \in Int /\ w_loaded[w] \in Int
  BY DEF WorkerTypes
<1>2. CASE w_pc[w] = "store"
  <2>1. Covers(w_loaded[w], w_jobs[w], 0) /\ w_loaded[w] <= instances_to_get[w]
    BY <1>2 DEF Counter
  <2>2. w_loaded[w] >= 0
    BY <1>1, <2>1, CoversNothing
  <2>. QED  BY <1>1, <2>1, <2>2
<1>3. CASE w_pc[w] # "store"
  <2>1. Covers(instances_to_get[w], w_jobs[w], 0)
    BY <1>3 DEF Counter
  <2>2. instances_to_get[w] >= 0
    BY <1>1, <2>1, CoversNothing
  <2>. QED  BY <1>1, <2>2
<1>. QED  BY <1>2, <1>3

(* Provided, worker by worker.                                             *)
Feeds(w) == (w_pc[w] = "store" => tasks[w] # <<>>) /\ ~Starving(w)

(* A solver thread leaves the queue only with a task of it, which it keeps *)
(* unless the worker stops, and not while the main thread locks it; when   *)
(* it is done with the task it leaves the counter above 0 (worker_func).   *)
LEMMA ThreadProvides ==
    ASSUME WorkerTypes, Counter, NEW w \in Worker, NEW i \in Thread,
           ThreadAlone(w, i), Feeds(w)
    PROVE  Feeds(w)'
<1>0. /\ instances_to_get \in [Worker -> Int] /\ tasks \in [Worker -> Seq(Instance)]
      /\ thread \in [Worker -> [Thread -> ThreadType]]
      /\ thread[w][i] \in ThreadType
  BY DEF WorkerTypes
<1>1. w_pc' = w_pc /\ w_running' = w_running
  BY SolverLeaves DEF ThreadAlone
<1>2. CASE PopTask(w, i)
  <2>1. w_pc[w] # "store" /\ thread'[w][i].pc = "got"
    BY <1>0, <1>2 DEF PopTask, TaskMutexFree, At, SetThread
  <2>. QED  BY <1>1, <2>1 DEF Feeds, Starving
<1>3. CASE StopPolling(w, i)
  BY <1>1, <1>3 DEF StopPolling, Feeds, Starving
<1>4. CASE StartTask(w, i)
  <2>1. tasks' = tasks /\ (w_running[w] => thread'[w][i].pc = "exec")
    BY <1>0, <1>4 DEF StartTask, SetThread, ThreadType
  <2>. QED  BY <1>1, <2>1 DEF Feeds, Starving
<1>5. ASSUME NEW outcome \in Outcomes, FinishTask(w, i, outcome)
      PROVE  Feeds(w)'
  <2>1. tasks' = tasks /\ thread'[w][i].pc = "store"
    BY <1>0, <1>5 DEF FinishTask, SetThread
  <2>. QED  BY <1>1, <2>1 DEF Feeds, Starving
<1>6. CASE StoreIncremented(w, i)
  <2>1. /\ tasks' = tasks /\ thread[w][i].pc = "store"
        /\ instances_to_get'[w] = thread[w][i].loaded + 1
    BY <1>0, <1>6 DEF StoreIncremented
  <2>2. /\ thread[w][i].loaded \in Int
        /\ thread[w][i].loaded >= instances_to_get[w]
        /\ instances_to_get[w] \in Nat
    BY <1>0, <2>1, CounterNatural DEF Counter, ThreadType
  <2>3. instances_to_get'[w] # 0
    BY <2>1, <2>2
  <2>. QED  BY <1>1, <2>1, <2>3 DEF Feeds, Starving
<1>. QED  BY <1>2, <1>3, <1>4, <1>5, <1>6 DEF ThreadAlone, SolverThread

(* The main thread takes off the counter only what it has put into the     *)
(* queue, which stays locked until the counter is stored (create_tasks).   *)
LEMMA MainProvides ==
    ASSUME WorkerTypes, Threads, Stopping, NEW w \in Worker, MainAlone(w),
           Feeds(w)
    PROVE  Feeds(w)'
<1>0. /\ instances_to_get \in [Worker -> Int] /\ tasks \in [Worker -> Seq(Instance)]
      /\ w_pc \in [Worker -> WorkerPc] /\ w_running \in [Worker -> BOOLEAN]
      /\ w_jobs \in [Worker -> Seq(JobType)] /\ tasks[w] \in Seq(Instance)
      /\ NumThreads \in Nat \ {0}
  BY WorkerAssumption DEF WorkerTypes
<1>1. CASE Activate(w)
  <2>1. CASE Head(s2w[w]).tag = "ACTIVATE_WORKER"
    <3>1. instances_to_get'[w] = NumThreads /\ w_pc'[w] # "store"
      BY <1>0, <1>1, <2>1 DEF Activate, Goto, LoopOrJoin
    <3>. QED  BY <1>0, <3>1 DEF Feeds, Starving
  <2>2. CASE Head(s2w[w]).tag # "ACTIVATE_WORKER"
    <3>1. w_pc'[w] = "activate"
      BY <1>1, <2>2 DEF Activate, At
    <3>. QED  BY <3>1 DEF Feeds, Starving
  <2>. QED  BY <2>1, <2>2
<1>2. CASE \/ ReturnTask(w) \/ NothingToReturn(w) \/ Probe(w) \/ Await(w)
           \/ UnreadableFormula(w) \/ Join(w) \/ Disconnect(w)
  <2>1. /\ UNCHANGED <<instances_to_get, tasks, thread>>
        /\ w_pc'[w] # "store"
        /\ w_pc'[w] \in {"loop", "probe", "await", "create"} =>
               w_pc[w] \in {"loop", "probe", "await"}
    BY <1>0, <1>2 DEF ReturnTask, NothingToReturn, Probe, UnreadableFormula,
       Join, Disconnect, Await, At, Goto, LoopOrJoin
  <2>2. w_running'[w] /\ w_pc[w] \in {"loop", "probe", "await"} => w_running[w]
    BY <1>0, <1>2 DEF ReturnTask, NothingToReturn, Probe, UnreadableFormula,
       Join, Disconnect, Await, At, Runs, RunsAfter, Stopping
  <2>. QED  BY <2>1, <2>2 DEF Feeds, Starving
<1>3. CASE CreateTasks(w)
  <2>. DEFINE job == Head(w_jobs[w])
  <2>1. w_pc[w] = "create" /\ tasks'[w] = tasks[w] \o TasksOfJob(job)
    BY <1>0, <1>3 DEF CreateTasks, At
  <2>2. job \in JobType
    BY <2>1, JobsTaken DEF Threads, WorkerTypes
  <2>3. /\ job.num \in Nat \ {0} /\ TasksOfJob(job) \in Seq(Instance)
        /\ Len(TasksOfJob(job)) = job.num
    BY <2>2, TasksOfJobType DEF JobType
  <2>4. tasks'[w] # <<>>
    <3>. HIDE DEF job
    <3>1. Len(tasks[w] \o TasksOfJob(job)) = Len(tasks[w]) + Len(TasksOfJob(job))
      <4>1. tasks[w] \in Seq(Instance) /\ TasksOfJob(job) \in Seq(Instance)
        BY <1>0, <2>3
      <4>. QED  BY <4>1, PartsOfConcat
    <3>2. Len(tasks[w]) \in Nat /\ Len(<<>>) = 0
      BY <1>0, LenProperties, EmptySeq
    <3>. QED  BY <2>1, <2>3, <3>1, <3>2
  <2>. QED  BY <2>4 DEF Feeds, Starving
<1>4. CASE StoreCounter(w)
  <2>1. tasks' = tasks /\ w_pc[w] = "store" /\ w_pc'[w] # "store"
    BY <1>0, <1>4 DEF StoreCounter, At, Goto, NextJobOrLoop
  <2>. QED  BY <2>1 DEF Feeds, Starving
<1>. QED  BY <1>1, <1>2, <1>3, <1>4 DEF MainAlone, MainThread

(* No step leaves a running worker without work and without a request.     *)
LEMMA ProvidedKept ==
    ASSUME Control, Counter, Provided, Next
    PROVE  Provided'
<1>. SUFFICES ASSUME NEW w \in Worker
              PROVE  Feeds(w)'
  BY DEF Provided, Feeds
<1>1. Feeds(w)
  BY DEF Provided, Feeds
<1>2. CASE MainAlone(w)
  BY <1>1, <1>2, MainProvides DEF Control
<1>3. CASE \E i \in Thread : ThreadAlone(w, i)
  BY <1>1, <1>3, ThreadProvides DEF Control
<1>4. CASE Alone(w)
  BY <1>1, <1>4 DEF Alone, Feeds, Starving
<1>. QED  BY <1>2, <1>3, <1>4, LocalForms DEF Control

-----------------------------------------------------------------------------
(* The initial state, variable by variable.                                *)
LEMMA Start ==
    ASSUME Init
    PROVE  /\ available_tasks = <<>> /\ task_order = <<>> /\ work_units = <<>>
           /\ num_instances_in_processing = 0 /\ solution_found = FALSE
           /\ terminated_workers = FALSE /\ statistic_send = FALSE
           /\ running = TRUE /\ srv_pc = "testany" /\ reply = NoReply
           /\ s2m = <<>> /\ m2s = <<>> /\ out = {}
           /\ \A w \in Worker :
                  /\ s2w[w] = <<>> /\ w2s[w] = <<>> /\ w_pc[w] = "absent"
                  /\ w_running[w] = TRUE /\ tasks[w] = <<>>
                  /\ tasks_done[w] = <<>> /\ w_jobs[w] = <<>>
                  /\ instances_to_get[w] = 0 /\ w_loaded[w] = 0
                  /\ \A i \in Thread : thread[w][i] = IdleThread("exit")
           /\ DOMAIN <<>> = {} /\ IdleThread("exit").pc = "exit"
           /\ IdleThread("exit").inst = NoInstance
           /\ m_pc = "cmd" /\ m_script \in Scripts /\ m_input = m_script
           /\ m_once = TRUE /\ default_cmds = <<>> /\ m_toadd = 0
           /\ m_running = TRUE /\ m_solution_found = FALSE
           /\ statistic = [started |-> 0, solved |-> 0] /\ workers = <<>>
BY DEF Init, ServerInit, WorkerInit, ManagerInit, IdleThread

(* The program starts with the manager alone and its script unread.        *)
LEMMA InitTypes ==
    ASSUME Init
    PROVE  WorkerTypes /\ ChannelTypes /\ ManagerTypes
<1>. USE DEF Init, ServerInit, WorkerInit, ManagerInit
<1>1. /\ IdleThread("exit") \in ThreadType
      /\ \A S : <<>> \in Seq(S)
  BY EmptySeq DEF IdleThread, NoInstance, ThreadType, Instance
<1>2. WorkerTypes
  BY <1>1 DEF WorkerTypes, WorkerPc
<1>3. ChannelTypes
  BY <1>1 DEF ChannelTypes, NoReply
<1>4. m_input \in Seq(ToSet(m_script))
  BY ManagerAssumption DEF ToSet
<1>5. ManagerTypes
  BY <1>1, <1>4 DEF ManagerTypes
<1>. QED  BY <1>2, <1>3, <1>5

(* No message, no job and no thread at work: control is where it should be. *)
LEMMA InitControl ==
    ASSUME Init
    PROVE  Control
<1>. USE Start
<1>1. WorkerTypes /\ ChannelTypes /\ ManagerTypes
  BY InitTypes
<1>2. Threads /\ Stopping /\ Requesting /\ Serving /\ Farewell
  <2>1. Threads
    BY DEF Threads, IdleThread
  <2>2. Stopping
    BY DEF Stopping
  <2>3. Requesting
    <3>1. reply.to = "nobody"
      BY DEF NoReply
    <3>2. \A w \in Worker : reply.to # w
      BY <3>1, ClusterAssumption
    <3>. QED  BY <3>2 DEF Requesting
  <2>4. Serving /\ Farewell
    BY DEF Serving, Farewell
  <2>. QED  BY <2>1, <2>2, <2>3, <2>4
<1>3. Handshake /\ Connections /\ Leaving /\ Unused /\ Solutions
  <2>1. Handshake
    BY DEF Handshake
  <2>2. Connections
    BY DEF Connections, Connected, ToSet
  <2>3. Leaving /\ Unused
    BY DEF Leaving, Unused
  <2>4. Solutions
    <3>1. ~(statistic.solved > 0)
      OBVIOUS
    <3>. QED  BY <3>1 DEF Solutions
  <2>. QED  BY <2>1, <2>2, <2>3, <2>4
<1>. QED  BY <1>1, <1>2, <1>3 DEF Control

(* There is no instance anywhere.                                          *)
LEMMA InitFlow ==
    ASSUME Init
    PROVE  Flow
<1>. USE Start
<1>1. ASSUME NEW w \in Worker, NEW k \in Kind
      PROVE  Places[w][k] = {}
  <2>1. Replied(w) = {}
    BY ClusterAssumption DEF Replied, NoReply
  <2>2. SentIn(s2w[w]) = {} /\ DoneIn(tasks_done[w]) = {} /\ ReturnedIn(w2s[w]) = {}
    BY DEF SentIn, DoneIn, ReturnedIn
  <2>3. Unqueued(w) = {}
    BY NoJobs DEF Unqueued, At
  <2>4. ToSet(tasks[w]) = {} /\ SolvingIn(thread[w]) = {}
    BY DEF ToSet, SolvingIn, IdleThread
  <2>. QED  BY <2>1, <2>2, <2>3, <2>4, PlacesByKind DEF Kind
<1>2. Apart
  BY <1>1 DEF Apart, ApartIn
<1>3. Accounted
  BY <1>1 DEF Accounted
<1>4. Once
  <2>1. JobsApart(<<>>)
    BY NoJobs
  <2>2. reply.jobs = <<>>
    BY DEF NoReply
  <2>. QED  BY <2>1, <2>2 DEF Once, IdleThread
<1>5. Working /\ SolvedTasks
  BY DEF Working, SolvedTasks, IdleThread
<1>. QED  BY <1>2, <1>3, <1>4, <1>5 DEF Flow

(* At the start no file, no instance and no task is anywhere.              *)
LEMMA InitRest ==
    ASSUME Init
    PROVE  Files /\ Counter /\ Provided
<1>. USE Start
<1>1. Files
  <2>1. FilesTold = {} /\ Cardinality({}) = 0
    BY FS_EmptySet DEF FilesTold
  <2>2. Len(m_script) \in Nat /\ Len(available_tasks) = 0
    BY ManagerAssumption, LenProperties, EmptySeq
  <2>3. /\ \A i \in FilesTold : m2s[i].n \in FileSizesOf(m_script)
        /\ 0 + 0 + Len(m_script) + Len(m_script) <= 2 * Len(m_script)
    BY <2>1, <2>2
  <2>. QED  BY <2>1, <2>2, <2>3 DEF Files
<1>2. Counter
  <2>1. Covers(0, <<>>, 0)
    <3>1. ASSUME NEW c \in Int, NEW l \in Int, l <= c
          PROVE  Covers(c, <<>>, l)
      BY <3>1, CoversNothing
    <3>2. 0 \in Int /\ 0 <= 0
      OBVIOUS
    <3>. QED  BY <3>1, <3>2, Zenon
  <2>2. reply.to = "nobody"
    BY DEF NoReply
  <2>3. \A w \in Worker : reply.to # w
    BY <2>2, ClusterAssumption
  <2>. QED  BY <2>1, <2>3 DEF Counter
<1>3. Provided
  BY DEF Provided, Starving
<1>. QED  BY <1>1, <1>2, <1>3

(* The initial state is one of Scheduler, and everything said so far of    *)
(* the program holds in it.                                                *)
LEMMA InitInvariant ==
    ASSUME Init
    PROVE  /\ SchedProofs!SchedulerAssumption
           /\ SchedProofs!Init
           /\ ClusterInvariant
<1>1. SchedProofs!SchedulerAssumption
  BY Start, SchedulerParameters
<1>2. SchedProofs!Init
  BY DEF Init, ServerInit, SchedProofs!Init, SchedProofs!ServerInit, NoReply,
         SchedProofs!NoReply
<1>3. SchedProofs!IInv
  BY <1>1, <1>2, SchedProofs!InitInv
<1>. QED
  BY <1>1, <1>2, <1>3, InitControl, InitFlow, InitRest
     DEF ClusterInvariant

(* ClusterInvariant is inductive.                                          *)
LEMMA StepInvariant ==
    ASSUME ClusterInvariant, [Next]_vars
    PROVE  ClusterInvariant'
<1>1. CASE Next
  <2>. USE DEF ClusterInvariant
  <2>1. NaturalRequests
    BY RequestsAreNatural DEF Control
  <2>2. SchedProofs!SchedulerAssumption /\ SchedProofs!IInv'
    BY <1>1, <2>1, SchedulerKept
  <2>3. Control'
    BY <1>1, <2>1, ControlKept
  <2>4. Flow'
    BY <1>1, <2>2, FlowKept
  <2>5. Files'
    BY <1>1, FilesKept DEF Control
  <2>6. Counter'
    BY <1>1, <2>2, CounterKept
  <2>7. Provided'
    BY <1>1, ProvidedKept
  <2>. QED  BY <2>2, <2>3, <2>4, <2>5, <2>6, <2>7
<1>2. CASE UNCHANGED vars
  <2>1. /\ UNCHANGED <<s2w, s2m, out, w2s, w_pc, w_running, tasks, tasks_done,
                       instances_to_get, w_jobs, w_loaded, thread>>
        /\ UNCHANGED <<m2s, m_pc, m_script, m_input, m_once, default_cmds, m_toadd,
                       m_running, m_solution_found, statistic, workers>>
        /\ UNCHANGED <<available_tasks, task_order, num_instances_in_processing,
                       solution_found, terminated_workers, statistic_send,
                       running, work_units, srv_pc, reply>>
    BY <1>2 DEF vars, server_vars, worker_vars, manager_vars, input_vars
  <2>2. WorkerTypes' /\ ChannelTypes' /\ ManagerTypes'
    BY <2>1 DEF ClusterInvariant, Control, WorkerTypes, ChannelTypes,
       ManagerTypes
  <2>3. Threads' /\ Stopping' /\ Requesting' /\ Serving' /\ Farewell'
    <3>1. Threads' /\ Stopping' /\ Serving'
      BY <2>1 DEF ClusterInvariant, Control, Threads, Stopping, Serving,
         Connected
    <3>2. Requesting' /\ Farewell'
      BY <2>1 DEF ClusterInvariant, Control, Requesting, Farewell, NoAnswer
    <3>. QED  BY <3>1, <3>2
  <2>4. Handshake' /\ Connections' /\ Leaving' /\ Unused' /\ Solutions'
    BY <2>1 DEF ClusterInvariant, Control, Handshake, Connections, Leaving,
                Unused, Solutions, NeverTold, Connected, FoundBefore
  <2>5. Files'
    BY <2>1 DEF ClusterInvariant, Files, FilesTold
  <2>6. Counter' /\ Provided'
    BY <2>1 DEF ClusterInvariant, Counter, Covers, Provided, Starving
  <2>7. Flow'
    <3>1. Once' /\ Working' /\ SolvedTasks'
      BY <2>1 DEF ClusterInvariant, Flow, Once, JobsApart, Working, SolvedTasks
    <3>2. ASSUME NEW w \in Worker, NEW k \in Kind
          PROVE  Places'[w][k] = Places[w][k]
      BY <2>1, PlacesStay DEF Kind
    <3>3. Apart' /\ Accounted'
      BY <2>1, <3>2 DEF ClusterInvariant, Flow, Apart, ApartIn, Accounted, Lost
    <3>. QED  BY <3>1, <3>3 DEF Flow
  <2>8. SchedProofs!IInv'
    <3>1. SchedProofs!SchedulerAssumption
      BY SchedulerParameters DEF ClusterInvariant, Control, ManagerTypes
    <3>2. UNCHANGED SchedProofs!vars
      BY <2>1 DEF SchedProofs!vars, SchedProofs!server_vars
    <3>. QED  BY <3>1, <3>2, SchedProofs!StepInv DEF ClusterInvariant
  <2>. QED
    BY <2>2, <2>3, <2>4, <2>5, <2>6, <2>7, <2>8 DEF ClusterInvariant, Control
<1>. QED  BY <1>1, <1>2

-----------------------------------------------------------------------------
(* The processes keep to ClusterInvariant: what main of manager.cpp,       *)
(* server.cpp and worker.cpp rely on of one another is true at every step, *)
(* whatever updates of instances_to_get overwrite one another.             *)
THEOREM ProgramInvariant == Spec => []ClusterInvariant
<1>1. Init => ClusterInvariant
  BY InitInvariant
<1>2. ClusterInvariant /\ [Next]_vars => ClusterInvariant'
  BY StepInvariant
<1>. QED  BY <1>1, <1>2, PTL DEF Spec

(* A worker's threads and the processes are at the points of their code    *)
(* that the model knows, and instances_to_get, which the code keeps in an  *)
(* unsigned int, is never below 0, even where updates of it get lost.      *)
THEOREM ProgramTypes == Spec => []TypeOK
<1>1. ClusterInvariant => TypeOK
  <2>. SUFFICES ASSUME ClusterInvariant PROVE TypeOK
    OBVIOUS
  <2>. USE DEF ClusterInvariant, Control
  <2>1. \A w \in Worker : instances_to_get[w] \in Nat
    BY CounterNatural
  <2>2. /\ w_pc \in [Worker -> WorkerPc]
        /\ w_running \in [Worker -> BOOLEAN]
        /\ instances_to_get \in [Worker -> Nat]
        /\ \A w \in Worker, i \in Thread :
               thread[w][i].pc \in {"poll", "got", "exec", "store", "exit"}
    <3>1. WorkerTypes
      OBVIOUS
    <3>. QED  BY <2>1, <3>1 DEF WorkerTypes, ThreadType
  <2>3. ToSet(workers) \subseteq Worker
    BY DEF ManagerTypes, ToSet
  <2>. QED  BY <2>2, <2>3 DEF TypeOK, ManagerTypes, WorkerPc
<1>. QED  BY <1>1, ProgramInvariant, PTL

(* An instance the server has given out is in an answer, a queue, a solver *)
(* thread or a result, until DONE_PROCESSING, and nothing else is: no      *)
(* instance is lost before its worker is told to stop, none counted twice. *)
THEOREM ProgramLosesNothing == Spec => []NothingLost
<1>1. ClusterInvariant => NothingLost
  <2>. SUFFICES ASSUME ClusterInvariant PROVE NothingLost
    OBVIOUS
  <2>. USE DEF ClusterInvariant, Control, Flow
  <2>1. InstancesOfJobs(reply.jobs) = UNION {Replied(w) : w \in Worker}
    <3>1. CASE srv_pc = "handout"
      <4>1. reply.to \in Worker
        BY <3>1 DEF Serving, Connected, SchedProofs!IInv, SchedProofs!TypeOK,
           ToSet
      <4>. QED  BY <4>1 DEF Replied
    <3>2. CASE srv_pc # "handout"
      <4>1. reply.jobs = <<>> /\ reply.to = "nobody"
        BY <3>2 DEF Serving, NoReply
      <4>2. InstancesOfJobs(reply.jobs) = {}
        BY <4>1, NoJobs
      <4>. QED  BY <4>1, <4>2, ClusterAssumption DEF Replied
    <3>. QED  BY <3>1, <3>2
  <2>2. ASSUME NEW w \in Worker
        PROVE  AtWorker(w) \cup Replied(w) = UNION {Places[w][k] : k \in Kind}
    <3>1. /\ Places[w]["reply"] = Replied(w) /\ Places[w]["sent"] = Sent(w)
          /\ Places[w]["jobs"] = Unqueued(w)
          /\ Places[w]["queue"] = ToSet(tasks[w])
          /\ Places[w]["thread"] = Solving(w) /\ Places[w]["done"] = Done(w)
          /\ Places[w]["returned"] = Returned(w)
      BY DEF Places, Held, Kind
    <3>. QED  BY <3>1 DEF AtWorker, Done, Kind
  <2>3. \A inst : inst \in Traceable <=>
                      \E w \in Worker, k \in Kind : inst \in Places[w][k]
    BY <2>1, <2>2 DEF Traceable
  <2>4. Traceable \subseteq out
    BY <2>3 DEF Accounted
  <2>5. ~Lost => out \subseteq Traceable
    BY <2>3 DEF Accounted
  <2>. QED  BY <2>4, <2>5 DEF NothingLost, Lost, At
<1>. QED  BY <1>1, ProgramInvariant, PTL

(* Every step of the three programs is one the server expects of its       *)
(* clients, so that what Scheduler_proofs shows holds in this program.     *)
THEOREM ProgramSchedules == Spec => SchedProofs!Spec
<1>1. Init => SchedProofs!Init
  BY InitInvariant
<1>2. ClusterInvariant /\ [Next]_vars => [SchedProofs!Next]_(SchedProofs!vars)
  <2>. SUFFICES ASSUME ClusterInvariant, [Next]_vars
                PROVE  [SchedProofs!Next]_(SchedProofs!vars)
    OBVIOUS
  <2>1. CASE Next
    <3>1. SchedProofs!SchedulerAssumption
      BY SchedulerParameters DEF ClusterInvariant, Control, ManagerTypes
    <3>2. NaturalRequests
      BY RequestsAreNatural DEF ClusterInvariant, Control
    <3>. QED
      BY <2>1, <3>1, <3>2, ProgramStep, StepOfSchedProofs DEF ClusterInvariant
  <2>2. CASE UNCHANGED vars
    BY <2>2 DEF vars, server_vars, SchedProofs!vars, SchedProofs!server_vars
  <2>. QED  BY <2>1, <2>2
<1>. QED  BY <1>1, <1>2, ProgramInvariant, PTL DEF Spec, SchedProofs!Spec

(* The counters and the deque of the server are right in this program: the *)
(* assertions of server.hpp:273 and 357 never fail and nothing wraps.      *)
THEOREM ProgramCountsRight ==
    Spec => [](SchedProofs!Accounting /\ SchedProofs!QueueExact
                   /\ SchedProofs!Startable)
<1>1. ClusterInvariant => /\ SchedProofs!Accounting /\ SchedProofs!QueueExact
                          /\ SchedProofs!Startable
  <2>. SUFFICES ASSUME ClusterInvariant
                PROVE  /\ SchedProofs!Accounting /\ SchedProofs!QueueExact
                       /\ SchedProofs!Startable
    OBVIOUS
  <2>1. SchedProofs!SchedulerAssumption
    BY SchedulerParameters DEF ClusterInvariant, Control, ManagerTypes
  <2>2. SchedProofs!IInv
    BY DEF ClusterInvariant
  <2>. QED  BY <2>1, <2>2, SchedProofs!NextJobProperties
            DEF SchedProofs!IInv, SchedProofs!Startable
<1>. QED  BY <1>1, ProgramInvariant, PTL

(* Though updates of instances_to_get get lost (worker_task.hpp:244, 311), *)
(* a running worker always has a task in its queue or in a thread, or a    *)
(* counter above 0, which makes it ask for one.                            *)
THEOREM WorkersNeverStarve == Spec => []NeverStarved
<1>1. ClusterInvariant => NeverStarved
  BY DEF ClusterInvariant, Provided, NeverStarved
<1>. QED  BY <1>1, ProgramInvariant, PTL

(* FOUND_SOLUTION reaches the manager before any statistic that counts a   *)
(* solution, and only when the server knows of it.                         *)
THEOREM SolutionComesFirst == Spec => []SolutionBeforeStatistics
<1>1. ClusterInvariant => SolutionBeforeStatistics
  BY DEF ClusterInvariant, Control, Solutions, SolutionBeforeStatistics
<1>. QED  BY <1>1, ProgramInvariant, PTL

(* The server leaves its main loop only when every worker it accepted has  *)
(* disconnected, or was accepted after the others had been told to stop.   *)
THEOREM ServerLeavesLast == Spec => []LastToLeave
<1>1. ClusterInvariant => LastToLeave
  BY DEF ClusterInvariant, Control, Leaving, Connections, LastToLeave
<1>. QED  BY <1>1, ProgramInvariant, PTL

(* send_termination_to_workers aborts the server (server.hpp:136) only if  *)
(* there never was a worker and nothing was given out.                     *)
THEOREM AbortsOnlyUnused == Spec => []AbortsUnused
<1>1. ClusterInvariant => AbortsUnused
  BY DEF ClusterInvariant, Control, Unused, AbortsUnused, At
<1>. QED  BY <1>1, ProgramInvariant, PTL

(* A worker sends DISCONNECT when all its solver threads have been joined. *)
THEOREM WorkersLeaveClean == Spec => []LeavesClean
<1>1. ClusterInvariant => LeavesClean
  BY DEF ClusterInvariant, Control, Threads, LeavesClean
<1>. QED  BY <1>1, ProgramInvariant, PTL

-----------------------------------------------------------------------------
(* The statistics and the manager's totals, for any tables and channel.    *)
StatisticsIn(channel) ==
    {i \in DOMAIN channel : channel[i].tag = "SEND_STATISTICS"}

ToldOf(channel) == {channel[i].task : i \in StatisticsIn(channel)}

TotalOf(T, S) == [started |-> SumFunction([t \in S |-> T[t].started]),
                  solved  |-> SumFunction([t \in S |-> T[t].times_solved])]

ToldRight(T, channel) ==
    /\ \A i \in StatisticsIn(channel) :
           /\ channel[i].task \in DOMAIN T
           /\ channel[i].started = T[channel[i].task].started
           /\ channel[i].solved = T[channel[i].task].times_solved
    /\ \A i, j \in StatisticsIn(channel) :
           channel[i].task = channel[j].task => i = j

Adding(T, channel, total) ==
    /\ ToldRight(T, channel)
    /\ total = TotalOf(T, DOMAIN T \ ToldOf(channel))

(* Totalled speaks of the program's own tables, in a state and in the next.*)
LEMMA TotalledIs ==
    /\ Totalled <=> Adding(available_tasks, s2m, statistic)
    /\ Totalled' <=> Adding(available_tasks', s2m', statistic')
BY DEF Totalled, Adding, ToldRight, ToldOf, TotalOf, StatisticsIn, Statistical,
       Unreported, StartedIn, SolvedIn

(* The counts of tasks can be added up.                                    *)
LEMMA Summable ==
    ASSUME NEW T \in Seq(TaskInfo), NEW S \in SUBSET DOMAIN T
    PROVE  /\ IsFiniteSet(S)
           /\ [t \in S |-> T[t].started] \in [S -> Nat]
           /\ [t \in S |-> T[t].times_solved] \in [S -> Nat]
<1>1. IsFiniteSet(DOMAIN T)
  BY LenProperties, FS_Interval
<1>2. \A t \in DOMAIN T : T[t] \in TaskInfo
  BY LenProperties, ElementOfSeq
<1>3. \A t \in DOMAIN T : T[t].started \in Nat /\ T[t].times_solved \in Nat
  BY <1>2 DEF TaskInfo
<1>. QED  BY <1>1, <1>3, FS_Subset

(* One task more: its counts are added (process_s2m_SEND_STATISTICS).      *)
LEMMA TotalOfMore ==
    ASSUME NEW T \in Seq(TaskInfo), NEW S \in SUBSET DOMAIN T, NEW x \in S
    PROVE  TotalOf(T, S) =
               [started |-> TotalOf(T, S \ {x}).started + T[x].started,
                solved  |-> TotalOf(T, S \ {x}).solved + T[x].times_solved]
<1>. DEFINE R == S \ {x}
            f == [t \in S |-> T[t].started]
            g == [t \in S |-> T[t].times_solved]
            f1 == [t \in R |-> T[t].started]
            g1 == [t \in R |-> T[t].times_solved]
<1>1. IsFiniteSet(S) /\ f \in [S -> Nat] /\ g \in [S -> Nat]
  BY Summable
<1>2. IsFiniteSet(R) /\ f1 \in [R -> Nat] /\ g1 \in [R -> Nat]
  <2>1. R \in SUBSET DOMAIN T
    OBVIOUS
  <2>. HIDE DEF R
  <2>. QED  BY <2>1, Summable
<1>3. /\ [y \in S \ {x} |-> f[y]] = f1 /\ f[x] = T[x].started
      /\ [y \in S \ {x} |-> g[y]] = g1 /\ g[x] = T[x].times_solved
  OBVIOUS
<1>4. f[x] \in Nat /\ g[x] \in Nat
  BY <1>1
<1>. HIDE DEF f, g, f1, g1, R
<1>5. /\ SumFunction(f) = f[x] + SumFunction(f1)
      /\ SumFunction(g) = g[x] + SumFunction(g1)
  <2>1. SumFunction(f) = f[x] + SumFunction([y \in S \ {x} |-> f[y]])
    BY <1>1, SumWithout
  <2>2. SumFunction(g) = g[x] + SumFunction([y \in S \ {x} |-> g[y]])
    BY <1>1, SumWithout
  <2>. QED  BY <1>3, <2>1, <2>2, Zenon
<1>6. SumFunction(f1) \in Nat /\ SumFunction(g1) \in Nat
  BY <1>2, SumOfNaturals
<1>7. /\ SumFunction(f) = SumFunction(f1) + T[x].started
      /\ SumFunction(g) = SumFunction(g1) + T[x].times_solved
  BY <1>3, <1>4, <1>5, <1>6
<1>. QED  BY <1>7, Zenon DEF TotalOf, f, g, f1, g1, R

(* Only the counts matter.                                                 *)
LEMMA TotalOfSame ==
    ASSUME NEW T, NEW U, NEW S,
           \A t \in S : /\ U[t].started = T[t].started
                        /\ U[t].times_solved = T[t].times_solved
    PROVE  TotalOf(U, S) = TotalOf(T, S)
<1>1. /\ [t \in S |-> U[t].started] = [t \in S |-> T[t].started]
      /\ [t \in S |-> U[t].times_solved] = [t \in S |-> T[t].times_solved]
  OBVIOUS
<1>. QED  BY <1>1 DEF TotalOf

(* Tasks without a result add nothing.                                     *)
LEMMA TotalOfNothing ==
    ASSUME NEW T \in Seq(TaskInfo), NEW S \in SUBSET DOMAIN T,
           \A t \in S : T[t].started = 0 /\ T[t].times_solved = 0
    PROVE  TotalOf(T, S) = [started |-> 0, solved |-> 0]
<1>. DEFINE f == [t \in S |-> T[t].started]
            g == [t \in S |-> T[t].times_solved]
<1>1. IsFiniteSet(S) /\ f \in [S -> Nat] /\ g \in [S -> Nat]
  BY Summable
<1>2. \A t \in S : f[t] = 0 /\ g[t] = 0
  OBVIOUS
<1>. HIDE DEF f, g
<1>3. SumFunction(f) = 0 /\ SumFunction(g) = 0
  BY <1>1, <1>2, SumOfZeros
<1>. QED  BY <1>3 DEF TotalOf, f, g

(* send_statistic_to_manager tells of every task that has a result, when   *)
(* the manager has heard of none.                                          *)
LEMMA AddingBegins ==
    ASSUME NEW T \in Seq(TaskInfo), NEW channel \in Seq(ToManager),
           StatisticsIn(channel) = {},
           \A t \in DOMAIN T : T[t].started = 0 => T[t].times_solved = 0
    PROVE  Adding(T, channel \o Statistics(T), [started |-> 0, solved |-> 0])
<1>. DEFINE st   == Statistics(T)
            both == channel \o st
            n    == Len(channel)
<1>1. /\ st \in Seq(ToManager)
      /\ \A i \in DOMAIN st : \E t \in DOMAIN T :
             st[i] = Statistic(t, T[t].started, T[t].times_solved)
      /\ \A i, j \in DOMAIN st : st[i].task = st[j].task => i = j
      /\ {st[i].task : i \in DOMAIN st} = Worked(T)
  BY StatisticsType
<1>2. \A i \in DOMAIN st :
          /\ st[i].tag = "SEND_STATISTICS" /\ st[i].task \in DOMAIN T
          /\ st[i].started = T[st[i].task].started
          /\ st[i].solved = T[st[i].task].times_solved
  BY <1>1 DEF Statistic
<1>. HIDE DEF st
<1>3. /\ n \in Nat /\ Len(st) \in Nat
      /\ DOMAIN channel = 1 .. n /\ DOMAIN st = 1 .. Len(st)
      /\ DOMAIN both = 1 .. n + Len(st)
      /\ \A i \in DOMAIN channel : both[i] = channel[i]
      /\ \A i \in DOMAIN st : both[n + i] = st[i]
  BY <1>1, PartsOfConcat
<1>. HIDE DEF both, n
<1>4. \A i \in DOMAIN both : i \in DOMAIN channel
                             \/ \E k \in DOMAIN st : i = n + k
  <2>1. ASSUME NEW i \in DOMAIN both, i \notin DOMAIN channel
        PROVE  i - n \in DOMAIN st /\ i = n + (i - n)
    BY <1>3, <2>1
  <2>. QED  BY <2>1
<1>5. StatisticsIn(both) = {n + k : k \in DOMAIN st}
  <2>1. \A k \in DOMAIN st : n + k \in DOMAIN both
    BY <1>3
  <2>. QED  BY <1>2, <1>3, <1>4, <2>1 DEF StatisticsIn
<1>6. ToldRight(T, both)
  <2>1. \A i \in StatisticsIn(both) : \E k \in DOMAIN st : i = n + k /\ both[i] = st[k]
    BY <1>3, <1>5
  <2>. QED  BY <1>1, <1>2, <2>1 DEF ToldRight
<1>7. ToldOf(both) = Worked(T)
  <2>1. ToldOf(both) = {st[k].task : k \in DOMAIN st}
    BY <1>3, <1>5 DEF ToldOf
  <2>. QED  BY <1>1, <2>1
<1>8. TotalOf(T, DOMAIN T \ Worked(T)) = [started |-> 0, solved |-> 0]
  <2>1. \A t \in DOMAIN T : T[t].started \in Nat
    <3>1. \A t \in DOMAIN T : T[t] \in TaskInfo
      BY LenProperties, ElementOfSeq
    <3>. QED  BY <3>1 DEF TaskInfo
  <2>2. \A t \in DOMAIN T \ Worked(T) : T[t].started = 0 /\ T[t].times_solved = 0
    BY <2>1 DEF Worked
  <2>. QED  BY <2>2, TotalOfNothing
<1>. QED  BY <1>6, <1>7, <1>8 DEF Adding, both, st

(* News that are no statistics.                                            *)
LEMMA AddingTold ==
    ASSUME NEW T, NEW channel \in Seq(ToManager), NEW total,
           Adding(T, channel, total),
           NEW msg \in ToManager, msg.tag # "SEND_STATISTICS"
    PROVE  Adding(T, Append(channel, msg), total)
<1>. DEFINE more == Append(channel, msg)
            n    == Len(channel)
<1>1. /\ n \in Nat /\ DOMAIN channel = 1 .. n /\ DOMAIN more = 1 .. n + 1
      /\ more[n + 1] = msg
      /\ \A i \in DOMAIN channel : more[i] = channel[i]
  BY LastOfAppend
<1>. HIDE DEF more, n
<1>2. StatisticsIn(more) = StatisticsIn(channel)
  <2>1. \A i \in DOMAIN more : i \in DOMAIN channel \/ i = n + 1
    BY <1>1
  <2>2. \A i \in DOMAIN channel : i \in DOMAIN more
    BY <1>1
  <2>. QED  BY <1>1, <2>1, <2>2 DEF StatisticsIn
<1>3. \A i \in StatisticsIn(more) : more[i] = channel[i]
  BY <1>1, <1>2 DEF StatisticsIn
<1>4. ToldOf(more) = ToldOf(channel)
  BY <1>2, <1>3 DEF ToldOf
<1>5. ToldRight(T, more)
  BY <1>2, <1>3 DEF ToldRight, Adding
<1>. QED  BY <1>4, <1>5 DEF Adding, more

(* The manager reads one command; a statistic is added to its totals.      *)
LEMMA AddingRead ==
    ASSUME NEW T \in Seq(TaskInfo), NEW channel \in Seq(ToManager),
           channel # <<>>, NEW total, Adding(T, channel, total)
    PROVE  Adding(T, Tail(channel),
                  IF Head(channel).tag = "SEND_STATISTICS"
                  THEN [started |-> total.started + Head(channel).started,
                        solved  |-> total.solved + Head(channel).solved]
                  ELSE total)
<1>. DEFINE rest == Tail(channel)
            msg  == Head(channel)
            n    == Len(channel)
            S    == DOMAIN T \ ToldOf(channel)
<1>1. /\ n \in Nat \ {0} /\ DOMAIN channel = 1 .. n /\ DOMAIN rest = 1 .. n - 1
      /\ 1 \in DOMAIN channel /\ channel[1] = msg
      /\ \A i \in DOMAIN rest : i + 1 \in DOMAIN channel /\ rest[i] = channel[i + 1]
  BY FirstOfSeq
<1>. HIDE DEF rest, msg, n
<1>2. \A i \in StatisticsIn(rest) :
          i + 1 \in StatisticsIn(channel) /\ rest[i] = channel[i + 1]
  BY <1>1 DEF StatisticsIn
<1>3. \A i \in StatisticsIn(channel) : i = 1 \/ \E k \in StatisticsIn(rest) :
                                                  i = k + 1 /\ rest[k] = channel[i]
  <2>1. ASSUME NEW i \in StatisticsIn(channel), i # 1
        PROVE  /\ i - 1 \in DOMAIN rest /\ i = (i - 1) + 1
               /\ channel[i].tag = "SEND_STATISTICS"
    BY <1>1, <2>1 DEF StatisticsIn
  <2>2. ASSUME NEW i \in StatisticsIn(channel), i # 1
        PROVE  i - 1 \in StatisticsIn(rest) /\ rest[i - 1] = channel[i]
    BY <1>1, <2>1, <2>2 DEF StatisticsIn
  <2>. QED  BY <2>1, <2>2
<1>4. /\ ToldRight(T, channel) /\ total = TotalOf(T, S)
  BY DEF Adding
<1>5. ToldRight(T, rest)
  <2>1. \A i \in StatisticsIn(rest) : i \in Int
    BY <1>1 DEF StatisticsIn
  <2>2. ASSUME NEW i \in StatisticsIn(rest), NEW j \in StatisticsIn(rest),
               rest[i].task = rest[j].task
        PROVE  i = j
    <3>1. i + 1 = j + 1
      BY <1>2, <1>4, <2>2 DEF ToldRight
    <3>. QED  BY <2>1, <3>1
  <2>3. ASSUME NEW i \in StatisticsIn(rest)
        PROVE  /\ rest[i].task \in DOMAIN T
               /\ rest[i].started = T[rest[i].task].started
               /\ rest[i].solved = T[rest[i].task].times_solved
    BY <1>2, <1>4 DEF ToldRight
  <2>. QED  BY <2>2, <2>3 DEF ToldRight
<1>6. CASE msg.tag = "SEND_STATISTICS"
  <2>. DEFINE x == msg.task
              R == DOMAIN T \ ToldOf(rest)
  <2>1. 1 \in StatisticsIn(channel)
    BY <1>1, <1>6 DEF StatisticsIn
  <2>2. /\ x \in DOMAIN T
        /\ msg.started = T[x].started /\ msg.solved = T[x].times_solved
    BY <1>1, <1>4, <2>1 DEF ToldRight
  <2>3. x \notin ToldOf(rest)
    <3>1. ASSUME NEW i \in StatisticsIn(rest), rest[i].task = x
          PROVE  FALSE
      <4>1. i + 1 = 1
        BY <1>1, <1>2, <1>4, <2>1, <3>1 DEF ToldRight
      <4>2. i \in Nat \ {0}
        BY <1>1 DEF StatisticsIn
      <4>. QED  BY <4>1, <4>2
    <3>. QED  BY <3>1 DEF ToldOf
  <2>4. ToldOf(channel) = ToldOf(rest) \cup {x}
    <3>1. ToldOf(channel) \subseteq ToldOf(rest) \cup {x}
      BY <1>1, <1>3 DEF ToldOf
    <3>2. ToldOf(rest) \subseteq ToldOf(channel)
      BY <1>2 DEF ToldOf
    <3>3. x \in ToldOf(channel)
      BY <1>1, <2>1 DEF ToldOf
    <3>. QED  BY <3>1, <3>2, <3>3
  <2>5. S = R \ {x} /\ x \in R /\ R \in SUBSET DOMAIN T
    BY <2>2, <2>3, <2>4
  <2>. HIDE DEF x, R, S
  <2>6. TotalOf(T, R) = [started |-> TotalOf(T, S).started + T[x].started,
                         solved  |-> TotalOf(T, S).solved + T[x].times_solved]
    BY <2>5, TotalOfMore
  <2>7. TotalOf(T, R) = [started |-> total.started + msg.started,
                         solved  |-> total.solved + msg.solved]
    BY <1>4, <2>2, <2>6
  <2>8. Adding(T, rest, [started |-> total.started + msg.started,
                         solved  |-> total.solved + msg.solved])
    BY <1>5, <2>7 DEF Adding, R
  <2>. QED  BY <1>6, <2>8 DEF rest, msg
<1>7. CASE msg.tag # "SEND_STATISTICS"
  <2>1. 1 \notin StatisticsIn(channel)
    BY <1>1, <1>7 DEF StatisticsIn
  <2>2. ToldOf(rest) = ToldOf(channel)
    <3>1. ToldOf(channel) \subseteq ToldOf(rest)
      BY <1>3, <2>1 DEF ToldOf
    <3>2. ToldOf(rest) \subseteq ToldOf(channel)
      BY <1>2 DEF ToldOf
    <3>. QED  BY <3>1, <3>2
  <2>3. Adding(T, rest, total)
    BY <1>4, <1>5, <2>2 DEF Adding
  <2>. QED  BY <1>7, <2>3 DEF rest, msg
<1>. QED  BY <1>6, <1>7

(* A file that is added has no results yet (process_m2s_ADD_FILE).         *)
LEMMA AddingFile ==
    ASSUME NEW T \in Seq(TaskInfo), NEW channel, NEW total,
           Adding(T, channel, total), NEW n \in Nat
    PROVE  Adding(Append(T, NewTask(n)), channel, total)
<1>. DEFINE U == Append(T, NewTask(n))
            x == Len(T) + 1
            S == DOMAIN T \ ToldOf(channel)
            R == DOMAIN U \ ToldOf(channel)
<1>1. NewTask(n) \in TaskInfo
  BY DEF NewTask, TaskInfo
<1>2. /\ U \in Seq(TaskInfo) /\ U[x] = NewTask(n)
      /\ DOMAIN U = DOMAIN T \cup {x} /\ x \notin DOMAIN T
      /\ \A t \in DOMAIN T : U[t] = T[t]
  <2>1. /\ U \in Seq(TaskInfo) /\ Len(T) \in Nat /\ DOMAIN T = 1 .. Len(T)
        /\ DOMAIN U = 1 .. Len(T) + 1 /\ U[x] = NewTask(n)
        /\ \A t \in DOMAIN T : U[t] = T[t]
    BY <1>1, LastOfAppend
  <2>. HIDE DEF U
  <2>. QED  BY <2>1
<1>. HIDE DEF U, x
<1>3. ToldRight(T, channel) /\ total = TotalOf(T, S)
  BY DEF Adding
<1>4. ToldRight(U, channel)
  BY <1>2, <1>3 DEF ToldRight
<1>5. ToldOf(channel) \subseteq DOMAIN T
  BY <1>3 DEF ToldOf, ToldRight
<1>6. R \in SUBSET DOMAIN U /\ x \in R /\ S = R \ {x}
  BY <1>2, <1>5
<1>7. U[x].started = 0 /\ U[x].times_solved = 0
  BY <1>2 DEF NewTask
<1>8. TotalOf(U, S) = TotalOf(T, S)
  BY <1>2, TotalOfSame
<1>9. S \in SUBSET DOMAIN U
  BY <1>6
<1>. HIDE DEF S, R
<1>10. TotalOf(U, R) = [started |-> TotalOf(U, S).started + 0,
                        solved  |-> TotalOf(U, S).solved + 0]
  BY <1>2, <1>6, <1>7, TotalOfMore
<1>11. TotalOf(U, R) = TotalOf(T, S)
  <2>. DEFINE a == SumFunction([t \in S |-> U[t].started])
              b == SumFunction([t \in S |-> U[t].times_solved])
  <2>1. a \in Nat /\ b \in Nat
    BY <1>2, <1>9, Summable, SumOfNaturals
  <2>2. TotalOf(U, S) = [started |-> a, solved |-> b]
    BY DEF TotalOf
  <2>. HIDE DEF a, b
  <2>3. TotalOf(U, S).started = a /\ TotalOf(U, S).solved = b
    BY <2>2
  <2>4. a + 0 = a /\ b + 0 = b
    BY <2>1
  <2>. QED  BY <1>8, <1>10, <2>2, <2>3, <2>4
<1>. QED  BY <1>3, <1>4, <1>11 DEF Adding, U, R

(* What is given out changes no count of results.                          *)
LEMMA AddingSame ==
    ASSUME NEW T, NEW U, NEW channel, NEW total, Adding(T, channel, total),
           DOMAIN U = DOMAIN T,
           \A t \in DOMAIN T : /\ U[t].started = T[t].started
                               /\ U[t].times_solved = T[t].times_solved
    PROVE  Adding(U, channel, total)
<1>1. ToldRight(U, channel)
  BY DEF Adding, ToldRight
<1>2. TotalOf(U, DOMAIN U \ ToldOf(channel)) = TotalOf(T, DOMAIN T \ ToldOf(channel))
  BY TotalOfSame
<1>. QED  BY <1>1, <1>2 DEF Adding

-----------------------------------------------------------------------------
(* A worker that will return nothing stays so.                             *)
LEMMA StaysEmpty ==
    ASSUME FlowStep, NEW w \in Worker, Emptied(w),
           Places'[w]["sent"] = Places[w]["sent"],
           Places'[w]["reply"] = Places[w]["reply"]
    PROVE  Emptied(w)'
<1>. DEFINE P == Places[w]
            Q == Places'[w]
<1>1. \A k \in Within : P[k] = {} /\ k \in Kind
  BY DEF Emptied, Within, Kind
<1>2. \A k \in Kind : k \in Within \/ Q[k] = P[k]
  BY DEF Kind, Within
<1>3. ASSUME NEW v \in Worker, NEW a, NEW b, NEW X, Moved(v, a, b, X)
      PROVE  \A k \in Kind : Q[k] = IF v = w /\ k = a THEN P[k] \ X
                                    ELSE IF v = w /\ k = b THEN P[k] \cup X
                                    ELSE P[k]
  BY <1>3 DEF Moved
<1>4. "returned" \in Kind /\ "reply" \in Kind /\ "reply" \notin Within
  BY DEF Kind, Within
<1>. HIDE DEF P, Q
<1>5. \A k \in Within : Q[k] = {}
  <2>1. CASE Kept
    <3>1. \A k \in Kind : Q[k] = P[k]
      BY <2>1 DEF Kept, P, Q
    <3>. QED  BY <1>1, <3>1
  <2>2. ASSUME NEW v \in Worker, NEW a \in Kind, NEW b \in Kind, NEW X,
               a # b, X \subseteq Places[v][a], Moved(v, a, b, X)
        PROVE  \A k \in Within : Q[k] = {}
    <3>1. CASE v # w
      BY <1>1, <1>3, <2>2, <3>1
    <3>2. CASE v = w
      <4>1. X \subseteq P[a] /\ Q[a] = P[a] \ X
        BY <1>3, <2>2, <3>2 DEF P
      <4>2. X = {}
        BY <1>1, <1>2, <4>1
      <4>3. \A k \in Kind : Q[k] = IF k = a THEN P[k] \ X
                                   ELSE IF k = b THEN P[k] \cup X ELSE P[k]
        BY <1>3, <2>2, <3>2
      <4>4. \A k \in Kind : Q[k] = P[k]
        BY <4>2, <4>3
      <4>. QED  BY <1>1, <4>4
    <3>. QED  BY <3>1, <3>2
  <2>3. ASSUME NEW v \in Worker, NEW a \in Kind, NEW X, Moved(v, a, a, X)
        PROVE  \A k \in Within : Q[k] = {}
    <3>1. \A k \in Kind : Q[k] = IF v = w /\ k = a THEN P[k] \ X
                              ELSE IF v = w /\ k = a THEN P[k] \cup X
                              ELSE P[k]
      BY <1>3, <2>3
    <3>2. \A k \in Kind : Q[k] \subseteq P[k]
      BY <3>1
    <3>. QED  BY <1>1, <3>2
  <2>4. ASSUME NEW v \in Worker, NEW X, Moved(v, "nowhere", "reply", X)
        PROVE  \A k \in Within : Q[k] = {}
    <3>1. \A k \in Kind \ {"reply"} : Q[k] = P[k]
      <4>1. "nowhere" \notin Kind
        BY DEF Kind
      <4>2. \A k \in Kind : Q[k] = IF v = w /\ k = "nowhere" THEN P[k] \ X
                                ELSE IF v = w /\ k = "reply" THEN P[k] \cup X
                                ELSE P[k]
        BY <1>3, <2>4
      <4>. QED  BY <4>1, <4>2
    <3>. QED  BY <1>1, <1>4, <3>1
  <2>. QED  BY <1>4, <2>1, <2>2, <2>3, <2>4 DEF FlowStep
<1>. QED  BY <1>5 DEF Emptied, Q

(* Nothing gets into a worker that has nothing, unless it is sent before   *)
(* the order to stop.                                                      *)
LEMMA EmptiedKept ==
    ASSUME SchedProofs!IInv, SchedProofs!SchedulerAssumption, Control, Flow,
           Next, NEW w \in Worker, Silent(w)
    PROVE  Emptied(w)'
<1>. USE DEF Control, Flow
<1>1. FlowStep
  BY FlowMoves
<1>2. Emptied(w) /\ (w_running[w] => TerminateFirst(w))
  BY DEF Silent
<1>3. CASE s2w'[w] = s2w[w] /\ reply' = reply
  BY <1>1, <1>2, <1>3, StaysEmpty, PlacesStay
<1>4. ASSUME MainAlone(w), s2w[w] # <<>>, s2w'[w] = Tail(s2w[w])
      PROVE  Emptied(w)'
  <2>. DEFINE msg == Head(s2w[w])
  <2>1. reply' = reply
    BY <1>4 DEF MainAlone, server_vars
  <2>2. /\ s2w[w] \in Seq(FromServer) /\ 1 \in DOMAIN s2w[w] /\ msg = s2w[w][1]
        /\ \A j \in DOMAIN s2w[w] : ~(j < 1)
    <3>1. s2w[w] \in Seq(FromServer)
      BY DEF ChannelTypes
    <3>. QED  BY <1>4, <3>1, FirstOfSeq
  <2>3. SentIn(Tail(s2w[w])) = SentIn(s2w[w]) \ Carried(msg)
    BY <1>4, <2>2, SentTaken DEF Requesting
  <2>4. CASE Carried(msg) = {}
    <3>1. Places'[w]["sent"] = Places[w]["sent"]
      BY <1>4, <2>3, <2>4, PlacesByKind
    <3>. QED  BY <1>1, <1>2, <2>1, <3>1, StaysEmpty, PlacesStay
  <2>5. CASE Carried(msg) # {}
    <3>1. msg.tag = "SEND_INSTANCES" /\ InstancesOfJobs(msg.jobs) # {}
      BY <2>5 DEF Carried
    <3>2. ~w_running[w]
      BY <1>2, <2>2, <3>1 DEF TerminateFirst
    <3>3. w_pc[w] = "await"
      BY <2>2, <3>1 DEF Requesting
    <3>4. Await(w)
      BY <1>4, <3>3 DEF MainAlone, MainThread, Activate, ReturnTask,
         NothingToReturn, Probe, CreateTasks, UnreadableFormula, StoreCounter,
         Join, Disconnect, At
    <3>5. /\ UNCHANGED <<w2s, tasks, tasks_done, thread>>
          /\ w_jobs'[w] = <<>>
      BY <3>2, <3>4 DEF Await, WorkerTypes
    <3>6. Unqueued(w)' = {}
      BY <3>5, NoJobs DEF Unqueued, At, Await, Goto
    <3>. QED  BY <1>2, <3>5, <3>6, PlacesByKind, PlacesStay DEF Emptied, Within
  <2>. QED  BY <2>4, <2>5
<1>5. ASSUME NEW v \in Worker, MainAlone(v)
      PROVE  Emptied(w)'
  <2>1. reply' = reply
    BY <1>5 DEF MainAlone, server_vars
  <2>2. CASE v = w
    <3>1. \/ s2w'[w] = s2w[w]
          \/ s2w[w] # <<>> /\ s2w'[w] = Tail(s2w[w])
      <4>1. \/ UNCHANGED s2w
            \/ s2w[w] # <<>> /\ s2w' = [s2w EXCEPT ![w] = Tail(@)]
        BY <1>5, <2>2 DEF MainAlone, MainThread, Activate, ReturnTask,
           NothingToReturn, Probe, Await, CreateTasks, UnreadableFormula,
           StoreCounter, Join, Disconnect, ReceiveFromServer
      <4>. QED  BY <4>1 DEF ChannelTypes
    <3>. QED  BY <1>3, <1>4, <1>5, <2>1, <2>2, <3>1
  <2>3. CASE v # w
    <3>1. s2w'[w] = s2w[w]
      BY <1>5, <2>3, Elsewhere DEF SameAt
    <3>. QED  BY <1>3, <2>1, <3>1
  <2>. QED  BY <2>2, <2>3
<1>6. ASSUME NEW v \in Worker, NEW i \in Thread, ThreadAlone(v, i)
      PROVE  Emptied(w)'
  BY <1>3, <1>6, SolverLeaves DEF ThreadAlone, server_vars
<1>7. ASSUME \A v \in Worker : ~MainAlone(v),
             \A v \in Worker, i \in Thread : ~ThreadAlone(v, i)
      PROVE  Emptied(w)'
  <2>1. FlowOfOther
    BY <1>7, LostStays DEF FlowOfOther
  <2>2. Places[w]["returned"] = {}
    BY <1>2 DEF Emptied, Within
  <2>3. ~(ServeWorker(w) /\ Head(w2s[w]).tag = "DONE_PROCESSING")
    BY <2>1, <2>2, DoneFlow
  <2>4. Places'[w]["returned"] = {}
    BY <2>1, <2>2, <2>3, ReturnedUntouched, PlacesByKind
  <2>. QED  BY <1>2, <2>1, <2>4, InsideUntouched DEF Emptied, Within, InWorker
<1>. QED  BY <1>5, <1>6, <1>7

(* Nobody who was told to stop goes on, and what is sent to a worker after *)
(* that order stands behind it.                                            *)
LEMMA TerminateFirstKept ==
    ASSUME SchedProofs!IInv, Control, Next, NEW w \in Worker, Silent(w),
           ~NeverTold(w), w_running'[w]
    PROVE  TerminateFirst(w)'
<1>. USE DEF Control
<1>1. /\ w_running[w]
      /\ MainAlone(w) => ~(s2w[w] # <<>> /\ Head(s2w[w]).tag = "TERMINATE")
                         \/ s2w'[w] = s2w[w]
  <2>1. ASSUME NEW v \in Worker, MainThread(v)
        PROVE  w_running[w]
    BY <2>1, MainStops
  <2>2. w_running[w]
    BY <2>1, OtherSteps, SolverLeaves DEF MainAlone, ThreadAlone
  <2>3. ASSUME MainAlone(w), s2w[w] # <<>>, Head(s2w[w]).tag = "TERMINATE"
        PROVE  s2w'[w] = s2w[w]
    <3>1. ~RunsAfter(w, Head(s2w[w]))
      BY <2>3 DEF RunsAfter
    <3>2. ~(Activate(w) \/ Await(w))
      BY <2>3, <3>1 DEF Activate, Await, Runs, WorkerTypes
    <3>. QED  BY <2>3, <3>2 DEF MainAlone, MainThread, ReturnTask,
         NothingToReturn, Probe, CreateTasks, UnreadableFormula, StoreCounter,
         Join, Disconnect
  <2>. QED  BY <2>2, <2>3
<1>2. TerminateFirst(w) /\ s2w[w] \in Seq(FromServer)
  BY <1>1 DEF Silent, ChannelTypes
<1>3. CASE s2w'[w] = s2w[w]
  BY <1>2, <1>3 DEF TerminateFirst
<1>4. ASSUME s2w[w] # <<>>, s2w'[w] = Tail(s2w[w]), s2w'[w] # s2w[w], MainAlone(w)
      PROVE  TerminateFirst(w)'
  <2>. DEFINE n == Len(s2w[w])
  <2>1. /\ n \in Nat \ {0} /\ DOMAIN s2w[w] = 1 .. n /\ DOMAIN s2w'[w] = 1 .. n - 1
        /\ 1 \in DOMAIN s2w[w] /\ Head(s2w[w]) = s2w[w][1]
        /\ \A i \in DOMAIN s2w'[w] : /\ i + 1 \in DOMAIN s2w[w]
                                     /\ s2w'[w][i] = s2w[w][i + 1]
    BY <1>2, <1>4, FirstOfSeq
  <2>2. s2w[w][1].tag # "TERMINATE"
    BY <1>1, <1>4, <2>1
  <2>. HIDE DEF n
  <2>3. ASSUME NEW i \in DOMAIN s2w'[w], s2w'[w][i].tag = "SEND_INSTANCES",
               InstancesOfJobs(s2w'[w][i].jobs) # {}
        PROVE  \E j \in DOMAIN s2w'[w] : j < i /\ s2w'[w][j].tag = "TERMINATE"
    <3>1. PICK k \in DOMAIN s2w[w] : k < i + 1 /\ s2w[w][k].tag = "TERMINATE"
      BY <1>2, <2>1, <2>3 DEF TerminateFirst
    <3>2. k # 1
      BY <2>2, <3>1
    <3>3. k - 1 \in DOMAIN s2w'[w] /\ k - 1 < i
      BY <2>1, <3>1, <3>2
    <3>4. s2w'[w][k - 1] = s2w[w][k]
      <4>1. (k - 1) + 1 = k
        BY <2>1
      <4>. QED  BY <2>1, <3>3, <4>1
    <3>. QED  BY <3>1, <3>3, <3>4
  <2>. QED  BY <2>3 DEF TerminateFirst
<1>5. ASSUME NEW msg \in FromServer, s2w'[w] = Append(s2w[w], msg),
             msg.tag # "SEND_INSTANCES" \/ TerminateWorker \in ToSet(s2w[w])
      PROVE  TerminateFirst(w)'
  <2>. DEFINE n == Len(s2w[w])
  <2>1. /\ n \in Nat /\ DOMAIN s2w[w] = 1 .. n /\ DOMAIN s2w'[w] = 1 .. n + 1
        /\ s2w'[w][n + 1] = msg
        /\ \A i \in DOMAIN s2w[w] : s2w'[w][i] = s2w[w][i]
    BY <1>2, <1>5, LastOfAppend
  <2>. HIDE DEF n
  <2>2. \A i \in DOMAIN s2w'[w] : i \in DOMAIN s2w[w] \/ i = n + 1
    BY <2>1
  <2>3. \A i \in DOMAIN s2w[w] : i \in DOMAIN s2w'[w] /\ i < n + 1
    BY <2>1
  <2>4. TerminateWorker \in ToSet(s2w[w]) =>
            \E j \in DOMAIN s2w[w] : s2w[w][j].tag = "TERMINATE"
    BY DEF ToSet, TerminateWorker
  <2>5. ASSUME NEW i \in DOMAIN s2w'[w], s2w'[w][i].tag = "SEND_INSTANCES"
        PROVE  \/ InstancesOfJobs(s2w'[w][i].jobs) = {}
               \/ \E j \in DOMAIN s2w'[w] :
                      j < i /\ s2w'[w][j].tag = "TERMINATE"
    <3>1. CASE i \in DOMAIN s2w[w]
      <4>1. \/ InstancesOfJobs(s2w[w][i].jobs) = {}
            \/ \E j \in DOMAIN s2w[w] : j < i /\ s2w[w][j].tag = "TERMINATE"
        BY <1>2, <2>1, <2>5, <3>1 DEF TerminateFirst
      <4>. QED  BY <2>1, <2>3, <3>1, <4>1
    <3>2. CASE i = n + 1
      <4>1. \E j \in DOMAIN s2w[w] : s2w[w][j].tag = "TERMINATE"
        BY <1>5, <2>1, <2>4, <2>5, <3>2
      <4>. QED  BY <2>1, <2>3, <3>2, <4>1
    <3>. QED  BY <2>2, <2>5, <3>1, <3>2
  <2>. QED  BY <2>5 DEF TerminateFirst
<1>6. CASE /\ srv_pc = "handout" /\ w = reply.to
           /\ s2w'[w] = Append(s2w[w], SendInstances(reply.jobs))
  <2>1. TerminateWorker \in ToSet(s2w[w])
    BY <1>1, <1>6 DEF Serving, NeverTold
  <2>2. SendInstances(reply.jobs) \in FromServer
    <3>1. reply.jobs \in Seq(JobType)
      BY DEF ChannelTypes
    <3>. QED  BY <3>1, Zenon DEF FromServer
  <2>. QED  BY <1>5, <1>6, <2>1, <2>2
<1>7. /\ ActivateWorker \in FromServer /\ ActivateWorker.tag # "SEND_INSTANCES"
      /\ TerminateWorker \in FromServer /\ TerminateWorker.tag # "SEND_INSTANCES"
  BY DEF FromServer, ActivateWorker, TerminateWorker
<1>. QED  BY <1>3, <1>4, <1>5, <1>6, <1>7, ToWorkers

(* Once the others were told to stop, a worker is silent for good or is    *)
(* never told.                                                             *)
LEMMA SilenceKept ==
    ASSUME SchedProofs!IInv, SchedProofs!SchedulerAssumption, Control, Flow,
           Next, terminated_workers, NEW w \in Worker, NeverTold(w) \/ Silent(w)
    PROVE  NeverTold(w)' \/ Silent(w)'
<1>1. CASE NeverTold(w)
  <2>1. w \in Connected'
    BY <1>1, NeverToldConnected DEF Control
  <2>. QED  BY <1>1, <2>1, NeverToldStays DEF Control
<1>2. CASE Silent(w) /\ ~NeverTold(w)
  BY <1>2, EmptiedKept, TerminateFirstKept DEF Silent
<1>. QED  BY <1>1, <1>2

(* When nothing is out, every worker is silent.                            *)
LEMMA SilenceBegins ==
    ASSUME Flow', out' = {}, NEW w \in Worker
    PROVE  Silent(w)'
<1>1. \A k \in Kind : Places'[w][k] = {}
  BY DEF Flow, Accounted
<1>2. Emptied(w)'
  BY <1>1 DEF Emptied, Within, Kind
<1>3. SentIn(s2w'[w]) = {}
  BY <1>1, PlacesByKind DEF Kind
<1>4. TerminateFirst(w)'
  <2>1. \A i \in DOMAIN s2w'[w] : s2w'[w][i].tag = "SEND_INSTANCES" =>
            InstancesOfJobs(s2w'[w][i].jobs) = {}
    BY <1>3 DEF SentIn
  <2>. QED  BY <2>1 DEF TerminateFirst
<1>. QED  BY <1>2, <1>4 DEF Silent

-----------------------------------------------------------------------------
(* The counts of results: a new file has none, and a task that a solution  *)
(* is counted for has been started.                                        *)
LEMMA CountsForms ==
    ASSUME SchedProofs!IInv, ManagerTypes, ChannelTypes, Next
    PROVE  \/ available_tasks' = available_tasks
           \/ /\ UNCHANGED <<s2m, statistic>>
              /\ \E n \in Nat : available_tasks' = Append(available_tasks, NewTask(n))
           \/ /\ UNCHANGED <<s2m, statistic>>
              /\ DOMAIN available_tasks' = DOMAIN available_tasks
              /\ \A t \in DOMAIN available_tasks :
                     /\ available_tasks'[t].started = available_tasks[t].started
                     /\ available_tasks'[t].times_solved =
                            available_tasks[t].times_solved
           \/ \E w \in Worker :
                  /\ ServeWorker(w) /\ Head(w2s[w]).tag = "DONE_PROCESSING"
                  /\ DOMAIN available_tasks' = DOMAIN available_tasks
                  /\ \A t \in DOMAIN available_tasks :
                         \/ available_tasks'[t] = available_tasks[t]
                         \/ available_tasks'[t].started =
                                available_tasks[t].started + 1
<1>1. \A t \in DOMAIN available_tasks : available_tasks[t] \in TaskInfo
  BY ServerTypes
<1>2. CASE ServeManager /\ Head(m2s).tag = "ADD_FILE"
           /\ available_tasks' = Append(available_tasks, NewTask(Head(m2s).n))
  <2>1. UNCHANGED <<s2m, statistic>>
    BY <1>2 DEF ServeManager, ProcessAddFile, ProcessAddWorkers, ProcessTerminate
  <2>2. m2s # <<>> /\ m2s \in Seq(FromManager)
    BY <1>2 DEF ServeManager, ChannelTypes
  <2>3. Head(m2s) \in FromManager
    BY <2>2, FirstOfSeq, ElementOfSeq
  <2>4. Head(m2s).n \in Nat
    BY <1>2, <2>3, ManagerMessage
  <2>. QED  BY <1>2, <2>1, <2>4
<1>3. CASE ServerAlone /\ HandOut
  <2>1. UNCHANGED <<s2m, statistic>>
    BY <1>3 DEF ServerAlone, HandOut, manager_vars
  <2>2. PICK t0, a, b :
            available_tasks' = [available_tasks EXCEPT
                                   ![t0] = GivenOut(available_tasks[t0], a, b)]
    BY <1>3 DEF HandOut
  <2>3. ASSUME NEW task \in TaskInfo
        PROVE  /\ GivenOut(task, a, b).started = task.started
               /\ GivenOut(task, a, b).times_solved = task.times_solved
    BY DEF GivenOut, TaskInfo
  <2>. QED  BY <1>1, <2>1, <2>2, <2>3
<1>4. ASSUME NEW w \in Worker, ServeWorker(w),
             Head(w2s[w]).tag = "DONE_PROCESSING",
             ProcessDoneProcessing(Head(w2s[w]).inst[1], Head(w2s[w]).solved)
      PROVE  /\ DOMAIN available_tasks' = DOMAIN available_tasks
             /\ \A t \in DOMAIN available_tasks :
                    \/ available_tasks'[t] = available_tasks[t]
                    \/ available_tasks'[t].started = available_tasks[t].started + 1
  <2>. DEFINE t0 == Head(w2s[w]).inst[1]
              counted == Counted(available_tasks[t0], Head(w2s[w]).solved)
  <2>1. PICK s : available_tasks' = [available_tasks EXCEPT
                                        ![t0] = [counted EXCEPT !.is_scheduled = s]]
    BY <1>4 DEF ProcessDoneProcessing
  <2>2. ASSUME NEW task \in TaskInfo, NEW solved
        PROVE  [Counted(task, solved) EXCEPT !.is_scheduled = s].started
                   = task.started + 1
    BY DEF Counted, TaskInfo
  <2>. QED  BY <1>1, <2>1, <2>2
<1>. QED  BY <1>2, <1>3, <1>4, TaskForms

(* What the manager hears: the statistics, when nothing is out, and after  *)
(* them none.                                                              *)
LEMMA StatisticsForms ==
    ASSUME SchedProofs!IInv, ChannelTypes, Next
    PROVE  \/ /\ ~statistic_send /\ statistic_send'
              /\ s2m' = s2m \o Statistics(available_tasks')
              /\ UNCHANGED statistic
              /\ num_instances_in_processing' = 0
           \/ /\ statistic_send' = statistic_send
              /\ \/ UNCHANGED <<s2m, statistic>>
                 \/ /\ \E msg \in ToManager : /\ msg.tag # "SEND_STATISTICS"
                                              /\ s2m' = Append(s2m, msg)
                    /\ UNCHANGED statistic
                 \/ /\ s2m # <<>> /\ s2m' = Tail(s2m)
                    /\ statistic' =
                           IF Head(s2m).tag = "SEND_STATISTICS"
                           THEN [started |-> statistic.started + Head(s2m).started,
                                 solved  |-> statistic.solved + Head(s2m).solved]
                           ELSE statistic
<1>1. statistic_send \in BOOLEAN
  BY ServerTypes
<1>2. ASSUME NEW w \in Worker, ServeWorker(w),
             Head(w2s[w]).tag = "DONE_PROCESSING"
      PROVE  \/ /\ ~statistic_send /\ statistic_send'
                /\ s2m' = s2m \o Statistics(available_tasks')
                /\ UNCHANGED statistic
                /\ num_instances_in_processing' = 0
             \/ /\ statistic_send' = statistic_send
                /\ UNCHANGED <<s2m, statistic>>
  <2>1. ProcessDoneProcessing(Head(w2s[w]).inst[1], Head(w2s[w]).solved)
    BY <1>2 DEF ServeWorker
  <2>2. UNCHANGED statistic
    BY <1>2 DEF ServeWorker, manager_vars
  <2>3. CASE Finished(task_order', num_instances_in_processing')
    BY <1>1, <2>1, <2>2, <2>3 DEF ProcessDoneProcessing, Finished
  <2>4. CASE ~Finished(task_order', num_instances_in_processing')
    BY <2>1, <2>2, <2>4 DEF ProcessDoneProcessing
  <2>. QED  BY <2>3, <2>4
<1>3. \/ statistic_send' = statistic_send
      \/ \E w \in Worker : ServeWorker(w) /\ Head(w2s[w]).tag = "DONE_PROCESSING"
  BY DEF Next, ServeWorker, ProcessGetInstances, ProcessFoundSolution,
    ProcessDisconnect, MainAlone, ThreadAlone, ManagerAlone, LookupFails, Spawn,
    WorkerBarrier, server_vars, Connect, AcceptWorker, ServerBarrier,
    PassManagerBarrier, ServerAlone, HandOut, SendReply, Leave,
    NoManagerCommand, ServeManager, ProcessAddFile, ProcessAddWorkers,
    ProcessTerminate
<1>4. ASSUME NEW w \in Worker, ServeWorker(w), Head(w2s[w]).tag = "FOUND_SOLUTION"
      PROVE  /\ SolutionNotice(Head(w2s[w]).task) \in ToManager
             /\ SolutionNotice(Head(w2s[w]).task).tag # "SEND_STATISTICS"
  <2>1. w2s[w] # <<>> /\ w2s[w] \in Seq(FromWorker)
    BY <1>4 DEF ServeWorker, Ready, ChannelTypes
  <2>2. Head(w2s[w]) \in FromWorker
    BY <2>1, FirstOfSeq, ElementOfSeq
  <2>3. Head(w2s[w]).task \in Nat
    BY <1>4, <2>2, WorkerMessage
  <2>. QED  BY <2>3 DEF ToManager, SolutionNotice
<1>5. DisconnectServer \in ToManager /\ DisconnectServer.tag # "SEND_STATISTICS"
  BY DEF ToManager, DisconnectServer
<1>. QED  BY <1>2, <1>3, <1>4, <1>5, ToManagerForms DEF ProcessServerCommand

-----------------------------------------------------------------------------
(* The totals stay right when no count of results changes.                 *)
LEMMA AddingGoesOn ==
    ASSUME NEW T \in Seq(TaskInfo), NEW U, NEW c \in Seq(ToManager), NEW d,
           NEW old, NEW new, Adding(T, c, old),
           \/ U = T
           \/ d = c /\ new = old /\ \E n \in Nat : U = Append(T, NewTask(n))
           \/ /\ d = c /\ new = old /\ DOMAIN U = DOMAIN T
              /\ \A t \in DOMAIN T : /\ U[t].started = T[t].started
                                     /\ U[t].times_solved = T[t].times_solved,
           \/ d = c /\ new = old
           \/ /\ \E msg \in ToManager : /\ msg.tag # "SEND_STATISTICS"
                                        /\ d = Append(c, msg)
              /\ new = old
           \/ /\ c # <<>> /\ d = Tail(c)
              /\ new = IF Head(c).tag = "SEND_STATISTICS"
                       THEN [started |-> old.started + Head(c).started,
                             solved  |-> old.solved + Head(c).solved]
                       ELSE old
    PROVE  Adding(U, d, new)
<1>1. CASE U = T
  <2>1. CASE d = c /\ new = old
    BY <1>1, <2>1
  <2>2. ASSUME NEW msg \in ToManager, msg.tag # "SEND_STATISTICS",
               d = Append(c, msg), new = old
        PROVE  Adding(U, d, new)
    BY <1>1, <2>2, AddingTold
  <2>3. CASE c # <<>> /\ d = Tail(c)
             /\ new = IF Head(c).tag = "SEND_STATISTICS"
                      THEN [started |-> old.started + Head(c).started,
                            solved  |-> old.solved + Head(c).solved]
                      ELSE old
    <3>1. Adding(T, Tail(c), IF Head(c).tag = "SEND_STATISTICS"
                             THEN [started |-> old.started + Head(c).started,
                                   solved  |-> old.solved + Head(c).solved]
                             ELSE old)
      BY <2>3, AddingRead
    <3>. QED  BY <1>1, <2>3, <3>1, Zenon
  <2>. QED  BY <2>1, <2>2, <2>3
<1>2. ASSUME d = c, new = old, NEW n \in Nat, U = Append(T, NewTask(n))
      PROVE  Adding(U, d, new)
  BY <1>2, AddingFile
<1>3. CASE /\ d = c /\ new = old /\ DOMAIN U = DOMAIN T
           /\ \A t \in DOMAIN T : /\ U[t].started = T[t].started
                                  /\ U[t].times_solved = T[t].times_solved
  <2>1. Adding(U, c, old)
    BY <1>3, AddingSame
  <2>. QED  BY <1>3, <2>1
<1>. QED  BY <1>1, <1>2, <1>3

(* They do when nothing that is out comes back.                            *)
LEMMA TotalledKept ==
    ASSUME SchedProofs!IInv, ManagerTypes, ChannelTypes, Next, Totalled,
           statistic_send,
           \A w \in Worker : ~(/\ ServeWorker(w)
                               /\ Head(w2s[w]).tag = "DONE_PROCESSING")
    PROVE  Totalled'
<1>1. /\ Adding(available_tasks, s2m, statistic)
      /\ available_tasks \in Seq(TaskInfo) /\ s2m \in Seq(ToManager)
  BY TotalledIs, ServerTypes DEF ChannelTypes
<1>2. \/ available_tasks' = available_tasks
      \/ /\ s2m' = s2m /\ statistic' = statistic
         /\ \E n \in Nat : available_tasks' = Append(available_tasks, NewTask(n))
      \/ /\ s2m' = s2m /\ statistic' = statistic
         /\ DOMAIN available_tasks' = DOMAIN available_tasks
         /\ \A t \in DOMAIN available_tasks :
                /\ available_tasks'[t].started = available_tasks[t].started
                /\ available_tasks'[t].times_solved = available_tasks[t].times_solved
  BY CountsForms
<1>3. \/ s2m' = s2m /\ statistic' = statistic
      \/ /\ \E msg \in ToManager : /\ msg.tag # "SEND_STATISTICS"
                                   /\ s2m' = Append(s2m, msg)
         /\ statistic' = statistic
      \/ /\ s2m # <<>> /\ s2m' = Tail(s2m)
         /\ statistic' = IF Head(s2m).tag = "SEND_STATISTICS"
                         THEN [started |-> statistic.started + Head(s2m).started,
                               solved  |-> statistic.solved + Head(s2m).solved]
                         ELSE statistic
  BY StatisticsForms
<1>4. Adding(available_tasks', s2m', statistic')
  BY <1>1, <1>2, <1>3, AddingGoesOn
<1>. QED  BY <1>4, TotalledIs

(* Nothing is out when the server counts nothing.                          *)
LEMMA NothingOut ==
    ASSUME SchedProofs!IInv', num_instances_in_processing' = 0
    PROVE  out' = {}
<1>1. /\ SchedProofs!Cardinality(out') = Cardinality(out')
      /\ SchedProofs!IsFiniteSet(out') <=> IsFiniteSet(out')
  BY DEF SchedProofs!Cardinality, Cardinality, SchedProofs!IsFiniteSet, IsFiniteSet
<1>2. SchedProofs!OutNumbered' /\ SchedProofs!Accounting'
  BY DEF SchedProofs!IInv
<1>3. IsFiniteSet(out') /\ Cardinality(out') = 0
  BY <1>1, <1>2, Zenon DEF SchedProofs!OutNumbered, SchedProofs!Accounting
<1>. QED  BY <1>3, FS_EmptySet

(* Reporting holds along with ClusterInvariant.                            *)
LEMMA ReportingKept ==
    ASSUME ClusterInvariant, ClusterInvariant', SchedProofs!SchedulerAssumption,
           Reporting, Next
    PROVE  Reporting'
<1>. USE DEF ClusterInvariant, Control, Flow
<1>0. /\ statistic_send => terminated_workers
      /\ statistic_send' => terminated_workers'
      /\ {statistic_send, running} \subseteq BOOLEAN
      /\ {statistic_send', running'} \subseteq BOOLEAN
  BY ServerTypes DEF Leaving, SchedProofs!IInv, SchedProofs!TypeOK
<1>1. srv_pc' \in {"testany", "handout"} => running'
  <2>1. ASSUME NEW w \in Worker, ServeWorker(w), srv_pc' \in {"testany", "handout"}
        PROVE  running' /\ running' = running
    <3>1. ProcessGetInstances(w, Head(w2s[w]).num)
      BY <2>1 DEF ServeWorker, ProcessFoundSolution, ProcessDoneProcessing,
        ProcessDisconnect
    <3>. QED  BY <3>1 DEF ProcessGetInstances, Reporting
  <2>2. NextRound \in {"testany", "handout"} => running
    BY DEF NextRound
  <2>3. ServeManager => srv_pc' \in {"enter", "aborted", NextRound} /\ running' = running
    BY DEF ServeManager, ProcessAddFile, ProcessAddWorkers, ProcessTerminate
  <2>4. ServerAlone => /\ running' = running
                       /\ \/ srv_pc' \in {"iprobe", "disconnecting", NextRound}
                          \/ srv_pc = "handout"
    BY DEF ServerAlone, HandOut, MoreToHandOut, SendReply, Leave,
           NoManagerCommand
  <2>5. ServerBarrier => /\ running' = running
                         /\ srv_pc' \in {"accept", "gone", NextRound}
    BY DEF ServerBarrier, PassManagerBarrier
  <2>6. ASSUME NEW w \in Worker, Connect(w)
        PROVE  srv_pc' = "leave"
    BY <2>6 DEF Connect, AcceptWorker
  <2>7. srv_pc \in {"testany", "handout"} => running
    BY DEF Reporting
  <2>. QED  BY <2>1, <2>2, <2>3, <2>4, <2>5, <2>6, <2>7
            DEF Next, MainAlone, ThreadAlone, ManagerAlone, LookupFails, Spawn,
      WorkerBarrier, server_vars
<1>2. \/ running' = running
      \/ \E w \in Worker : /\ ServeWorker(w) /\ running' = FALSE
                           /\ statistic_send /\ Connected' = {}
  BY RunningEnds
<1>3. statistic_send => statistic_send'
  BY StatisticsForms
<1>4. ~running' => statistic_send'
  BY <1>0, <1>2, <1>3 DEF Reporting
<1>5. \A t \in DOMAIN available_tasks' :
          available_tasks'[t].started = 0 => available_tasks'[t].times_solved = 0
  <2>1. \A t \in DOMAIN available_tasks :
            available_tasks[t].started = 0 => available_tasks[t].times_solved = 0
    BY DEF Reporting
  <2>2. \A t \in DOMAIN available_tasks : available_tasks[t].started \in Nat
    BY ServerTypes DEF TaskInfo
  <2>3. ASSUME NEW n \in Nat, available_tasks' = Append(available_tasks, NewTask(n)),
               NEW t \in DOMAIN available_tasks'
        PROVE  \/ /\ t \in DOMAIN available_tasks
                  /\ available_tasks'[t] = available_tasks[t]
               \/ available_tasks'[t].times_solved = 0
    <3>1. available_tasks \in Seq(TaskInfo) /\ NewTask(n) \in TaskInfo
      BY ServerTypes DEF NewTask, TaskInfo
    <3>2. NewTask(n).times_solved = 0
      BY DEF NewTask
    <3>. QED  BY <2>3, <3>1, <3>2, LastOfAppend
  <2>. QED  BY <2>1, <2>2, <2>3, CountsForms
<1>6. ~statistic_send' => /\ Statistical' = {}
                          /\ statistic' = [started |-> 0, solved |-> 0]
  <2>. SUFFICES ASSUME ~statistic_send' PROVE  /\ Statistical' = {}
                          /\ statistic' = [started |-> 0, solved |-> 0]
    OBVIOUS
  <2>1. /\ ~statistic_send /\ Statistical = {}
        /\ statistic = [started |-> 0, solved |-> 0]
        /\ s2m \in Seq(ToManager)
    BY <1>3 DEF Reporting, ChannelTypes
  <2>2. CASE UNCHANGED <<s2m, statistic>>
    BY <2>1, <2>2 DEF Statistical
  <2>3. ASSUME NEW msg \in ToManager, msg.tag # "SEND_STATISTICS",
               s2m' = Append(s2m, msg), UNCHANGED statistic
        PROVE  Statistical' = {} /\ statistic' = [started |-> 0, solved |-> 0]
    <3>1. \A i \in DOMAIN s2m' : s2m'[i].tag # "SEND_STATISTICS"
      <4>1. /\ Len(s2m) \in Nat /\ DOMAIN s2m = 1 .. Len(s2m)
            /\ DOMAIN s2m' = 1 .. Len(s2m) + 1 /\ s2m'[Len(s2m) + 1] = msg
            /\ \A i \in DOMAIN s2m : s2m'[i] = s2m[i]
        BY <2>1, <2>3, LastOfAppend
      <4>2. \A i \in DOMAIN s2m' : i \in DOMAIN s2m \/ i = Len(s2m) + 1
        BY <4>1
      <4>. QED  BY <2>1, <2>3, <4>1, <4>2 DEF Statistical
    <3>. QED  BY <2>1, <2>3, <3>1 DEF Statistical
  <2>4. CASE /\ s2m # <<>> /\ s2m' = Tail(s2m)
             /\ statistic' =
                    IF Head(s2m).tag = "SEND_STATISTICS"
                    THEN [started |-> statistic.started + Head(s2m).started,
                          solved  |-> statistic.solved + Head(s2m).solved]
                    ELSE statistic
    <3>1. /\ 1 \in DOMAIN s2m /\ s2m[1] = Head(s2m)
          /\ \A i \in DOMAIN s2m' : i + 1 \in DOMAIN s2m /\ s2m'[i] = s2m[i + 1]
      BY <2>1, <2>4, FirstOfSeq
    <3>. QED  BY <2>1, <2>4, <3>1 DEF Statistical
  <2>. QED  BY <2>1, <2>2, <2>3, <2>4, StatisticsForms
<1>7. CASE statistic_send /\ statistic_send'
  <2>1. \A w \in Worker : NeverTold(w)' \/ Silent(w)'
    BY <1>0, <1>7, SilenceKept DEF Reporting
  <2>2. ASSUME running, NEW w \in Worker, NeverTold(w)
        PROVE  running' /\ \E v \in Worker : NeverTold(v)'
    <3>1. w \in Connected'
      BY <2>2, NeverToldConnected
    <3>2. NeverTold(w)'
      BY <1>0, <1>7, <2>2, <3>1, NeverToldStays
    <3>3. running'
      BY <1>2, <2>2, <3>1
    <3>. QED  BY <3>2, <3>3
  <2>3. ASSUME NEW w \in Worker, ServeWorker(w),
               Head(w2s[w]).tag = "DONE_PROCESSING"
        PROVE  running /\ NeverTold(w)
    <3>1. /\ \A v \in Worker : ~MainAlone(v)
          /\ \A v \in Worker, i \in Thread : ~ThreadAlone(v, i)
      <4>1. w2s[w] # <<>> /\ w2s'[w] = Tail(w2s[w]) /\ w2s[w] \in Seq(FromWorker)
            /\ srv_pc = "testany" /\ srv_pc' # srv_pc
        BY <2>3 DEF ServeWorker, Ready, ChannelTypes, ProcessDoneProcessing
      <4>. QED  BY <4>1 DEF MainAlone, ThreadAlone, server_vars
    <3>2. FlowOfOther
      BY <3>1, LostStays DEF FlowOfOther
    <3>3. Places[w]["returned"] # {}
      BY <2>3, <3>2, DoneFlow
    <3>4. ~Silent(w)
      BY <3>3 DEF Silent, Emptied, Within
    <3>5. srv_pc = "testany"
      BY <2>3 DEF ServeWorker, ProcessDoneProcessing
    <3>. QED  BY <1>7, <3>4, <3>5 DEF Reporting
  <2>4. \/ running' /\ \E w \in Worker : NeverTold(w)'
        \/ Totalled'
    <3>1. CASE running /\ \E w \in Worker : NeverTold(w)
      BY <2>2, <3>1
    <3>2. CASE Totalled /\ ~(running /\ \E w \in Worker : NeverTold(w))
      BY <1>7, <2>3, <3>2, TotalledKept
    <3>. QED  BY <1>7, <3>1, <3>2 DEF Reporting
  <2>. QED  BY <1>1, <1>4, <1>5, <1>7, <2>1, <2>4 DEF Reporting
<1>8. CASE ~statistic_send /\ statistic_send'
  <2>1. /\ s2m' = s2m \o Statistics(available_tasks')
        /\ statistic' = statistic /\ num_instances_in_processing' = 0
    BY <1>0, <1>8, StatisticsForms
  <2>2. out' = {}
    BY <2>1, NothingOut
  <2>3. \A w \in Worker : Silent(w)'
    BY <2>2, SilenceBegins
  <2>4. Adding(available_tasks', s2m', statistic')
    <3>1. available_tasks' \in Seq(TaskInfo)
      BY DEF SchedProofs!IInv, SchedProofs!TypeOK, SchedProofs!TaskInfo, TaskInfo
    <3>2. /\ s2m \in Seq(ToManager) /\ StatisticsIn(s2m) = {}
          /\ statistic' = [started |-> 0, solved |-> 0]
      BY <1>8, <2>1 DEF ChannelTypes, Reporting, StatisticsIn, Statistical
    <3>. QED  BY <1>5, <2>1, <3>1, <3>2, AddingBegins
  <2>5. Totalled'
    BY <2>4, TotalledIs
  <2>. QED  BY <1>1, <1>4, <1>5, <1>8, <2>3, <2>5 DEF Reporting
<1>9. CASE ~statistic_send'
  BY <1>1, <1>4, <1>5, <1>6, <1>9 DEF Reporting
<1>. QED  BY <1>0, <1>7, <1>8, <1>9

-----------------------------------------------------------------------------
(* Nothing has been reported at the start.                                 *)
LEMMA InitReporting ==
    ASSUME Init
    PROVE  Reporting
<1>. USE Start
<1>1. Statistical = {}
  BY DEF Statistical
<1>. QED  BY <1>1 DEF Reporting

(* Reporting holds along with ClusterInvariant.                            *)
LEMMA ProgramReports == Spec => [](ClusterInvariant /\ Reporting)
<1>1. Init => ClusterInvariant /\ Reporting
  BY InitInvariant, InitReporting
<1>2. ASSUME ClusterInvariant, Reporting, [Next]_vars
      PROVE  ClusterInvariant' /\ Reporting'
  <2>1. ClusterInvariant'
    BY <1>2, StepInvariant
  <2>2. SchedProofs!SchedulerAssumption
    BY <1>2, SchedulerParameters DEF ClusterInvariant, Control, ManagerTypes
  <2>3. CASE Next
    BY <1>2, <2>1, <2>2, <2>3, ReportingKept
  <2>4. CASE UNCHANGED vars
    <3>1. /\ UNCHANGED <<s2w, s2m, w2s, w_pc, w_running, tasks, tasks_done, w_jobs,
                         thread, statistic, available_tasks, statistic_send,
                         running, work_units, srv_pc, reply>>
      BY <2>4 DEF vars, server_vars, worker_vars, manager_vars
    <3>2. ASSUME NEW w \in Worker
          PROVE  /\ NeverTold(w)' <=> NeverTold(w)
                 /\ Silent(w)' <=> Silent(w)
      <4>1. \A k \in Kind : Places'[w][k] = Places[w][k]
        BY <3>1, PlacesStay DEF Kind
      <4>2. Emptied(w)' <=> Emptied(w)
        BY <4>1 DEF Emptied, Within, Kind
      <4>3. TerminateFirst(w)' <=> TerminateFirst(w)
        BY <3>1 DEF TerminateFirst
      <4>. QED  BY <3>1, <4>2, <4>3 DEF Silent, NeverTold, Connected
    <3>3. Totalled' <=> Totalled
      BY <3>1, TotalledIs
    <3>4. Statistical' = Statistical
      BY <3>1 DEF Statistical
    <3>. QED  BY <1>2, <2>1, <3>1, <3>2, <3>3, <3>4 DEF Reporting
  <2>. QED  BY <1>2, <2>3, <2>4
<1>. QED  BY <1>1, <1>2, PTL DEF Spec

(* When the server has left and the manager has read all its commands, the *)
(* totals that it keeps (statistic in manager.hpp) are the counts of the    *)
(* server's tasks: no result came after send_statistic_to_manager.         *)
THEOREM TotalsAreComplete == Spec => []TotalsComplete
<1>1. ASSUME ClusterInvariant, Reporting
      PROVE  TotalsComplete
  <2>. SUFFICES ASSUME srv_pc = "gone", s2m = <<>>
                PROVE  statistic =
                           [started |-> StartedIn(DOMAIN available_tasks),
                            solved  |-> SolvedIn(DOMAIN available_tasks)]
    BY DEF TotalsComplete
  <2>1. ~running
    BY <1>1 DEF ClusterInvariant, Control, Leaving
  <2>2. Totalled
    BY <1>1, <2>1 DEF Reporting
  <2>3. Statistical = {}
    BY DEF Statistical
  <2>4. DOMAIN available_tasks \ Unreported = DOMAIN available_tasks
    BY <2>3 DEF Unreported
  <2>. QED  BY <2>2, <2>4 DEF Totalled
<1>. QED  BY <1>1, ProgramReports, PTL
=============================================================================
