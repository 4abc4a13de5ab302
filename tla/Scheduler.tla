------------------------------ MODULE Scheduler ------------------------------
(***************************************************************************)
(* The server among arbitrary clients: the manager may send any command at *)
(* any time, a worker may ask for any number of instances, return any      *)
(* instance it was given or leave.  The one thing asked of the workers is  *)
(* that an instance is returned at most once and only after it was given   *)
(* out: `out' holds the instances given out and not returned yet.  What    *)
(* holds here holds for every worker and manager that keeps to that;       *)
(* Cluster shows that this program's do.                                   *)
(***************************************************************************)
EXTENDS Server, FiniteSets

CONSTANTS
    FileSizes,       \* the values of anzahl_startbelegungen
    Requests,        \* the numbers of instances a worker may ask for
    MaxFiles         \* bound on the number of ADD_FILE commands

ASSUME SchedulerAssumption ==
    /\ FileSizes \subseteq Nat
    /\ Requests \subseteq Nat
    /\ MaxFiles \in Nat
    /\ "nobody" \notin Worker

VARIABLE out

vars == <<server_vars, s2w, s2m, out>>

Init == ServerInit /\ out = {}

(* A worker waits for the answer to a request before it sends another.     *)
Answered(w) ==
    \A i \in DOMAIN s2w[w] : s2w[w][i].tag # "SEND_INSTANCES"

ManagerCommand ==
    \/ /\ Len(available_tasks) < MaxFiles
       /\ \E n \in FileSizes : ProcessAddFile(n)
    \/ ProcessAddWorkers
    \/ \E w \in Worker : AcceptWorker(w)
    \/ PassManagerBarrier
    \/ ProcessTerminate
    \/ NoManagerCommand

WorkerCommand ==
    \/ \E w \in Connected, num \in Requests :
           Answered(w) /\ ProcessGetInstances(w, num)
    \/ \E t \in DOMAIN available_tasks : ProcessFoundSolution(t)
    \/ \E index \in DOMAIN work_units : ProcessDisconnect(index)

Give == HandOut /\ out' = out \cup InstancesOf(NextJob)

Return(inst, solved) ==
    /\ inst \in out
    /\ ProcessDoneProcessing(inst[1], solved)
    /\ out' = out \ {inst}

(* A client takes the next message that was sent to it.                    *)
Receive ==
    /\ \/ \E w \in Worker :
              /\ s2w[w] # <<>>
              /\ s2w' = [s2w EXCEPT ![w] = Tail(@)]
              /\ UNCHANGED s2m
       \/ /\ s2m # <<>>
          /\ s2m' = Tail(s2m)
          /\ UNCHANGED s2w
    /\ UNCHANGED server_vars

Next ==
    \/ Give
    \/ \E inst \in out, solved \in BOOLEAN : Return(inst, solved)
    \/ (ManagerCommand \/ WorkerCommand \/ SendReply \/ Leave \/ Receive)
       /\ UNCHANGED out

Spec == Init /\ [][Next]_vars

-----------------------------------------------------------------------------
TypeOK ==
    /\ available_tasks \in Seq(TaskInfo)
    /\ task_order \in Seq(DOMAIN available_tasks)
    /\ num_instances_in_processing \in Nat
    /\ {solution_found, terminated_workers, statistic_send, running}
           \subseteq BOOLEAN
    /\ work_units \in Seq(Worker)
    /\ srv_pc \in {"testany", "iprobe", "handout", "enter", "accept", "leave",
                   "bye", "disconnecting", "gone", "aborted"}
    /\ reply.left \in Nat
    /\ out \subseteq Instance

OutOf(t) == {inst \in out : inst[1] = t}

(* The counters tell the truth: a task's num_currently_processing is the   *)
(* number of its instances that were given out and not returned, and       *)
(* num_instances_in_processing the number over all tasks.  So the          *)
(* assertion of server.hpp:273 holds and neither subtraction wraps.        *)
Accounting ==
    /\ num_instances_in_processing = Cardinality(out)
    /\ \A t \in DOMAIN available_tasks :
           available_tasks[t].cp = Cardinality(OutOf(t))

Handed(t) == available_tasks[t].started + available_tasks[t].cp

HasMore(t) ==
    IF available_tasks[t].n = 0 THEN Handed(t) = 0
    ELSE Handed(t) < available_tasks[t].n

(* The deque is exactly the work that is left: a task stands in it once    *)
(* while some of its start assignments were never given out, is_scheduled  *)
(* says so, and no task gives out more than anzahl_startbelegungen.        *)
QueueExact ==
    /\ \A i, j \in DOMAIN task_order : task_order[i] = task_order[j] => i = j
    /\ \A t \in DOMAIN available_tasks :
           /\ available_tasks[t].is_scheduled
                  <=> \E i \in DOMAIN task_order : task_order[i] = t
           /\ available_tasks[t].is_scheduled <=> HasMore(t)
           /\ available_tasks[t].n > 0 => Handed(t) <= available_tasks[t].n

(* The assertion 0 < instances_to_start of GET_INSTANCES (server.hpp:357): *)
(* the task at the front has something to give and the uint32_t difference *)
(* behind it did not wrap.                                                 *)
Startable == MoreToHandOut => NextJob.num > 0

(* A task that left the deque never comes back: with try_once the          *)
(* rescheduling in DONE_PROCESSING (server.hpp:278-287) has nothing to do, *)
(* even when results come in while other requests are answered.            *)
LeavesForGood ==
    [][\A t \in DOMAIN available_tasks :
          ~available_tasks[t].is_scheduled
              => ~available_tasks'[t].is_scheduled]_vars

(* A file is worked off when every start assignment it was added with (at  *)
(* least one, if it named no number) was given out and has been returned.  *)
WorkedOff(t) ==
    IF available_tasks[t].n = 0 THEN available_tasks[t].started > 0
    ELSE available_tasks[t].started = available_tasks[t].n

(* Statistics are sent when the last result is in, never before: no        *)
(* instance is out at that moment, so the report misses none, and every    *)
(* file is worked off unless a solution ended the search early.            *)
CompleteStatistics ==
    [][statistic_send' # statistic_send =>
          /\ out' = {}
          /\ \/ solution_found'
             \/ \A t \in DOMAIN available_tasks' : WorkedOff(t)']_vars

(* Once a worker reported a solution no instance is given out any more,    *)
(* though other workers keep asking until TERMINATE reaches them.          *)
NothingAfterSolution == [][solution_found => out' \subseteq out]_vars
=============================================================================
