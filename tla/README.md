# A verification development for parallel-probsat

parallel-probsat searches for satisfying assignments of boolean formulas with
the ProbSAT algorithm on many threads of many processes. This directory holds
TLA+ specifications of its processes and of its local search, TLC
configurations that check them on small instances, and proofs, for every
instance, of the safety of the parallel program (the server's accounting, the
program's implementing it, the negotiation of the command length, the sharing of
a formula between threads) and of the local search (its lists, its refinement of
a walk over assignments, the bitfield below it). Line numbers refer to the files
under `src/`.

## 1. The system

| Component | Source | State | Operations |
|---|---|---|---|
| manager | `manager.cpp`, `communication/manager.hpp` | position in the input, commands it gives itself (`default_cmds`), totals, the workers it spawned | `add_workers`, `add_file`, `wait_for_server`, `exit`; FOUND_SOLUTION, SEND_STATISTICS, DISCONNECT from the server |
| server | `server.cpp`, `communication/server.hpp` | one record per file (`available_tasks`), the deque `task_order`, `num_instances_in_processing`, connected workers, four flags | ADD_FILE, ADD_WORKERS, TERMINATE from the manager; GET_INSTANCES, FOUND_SOLUTION, DONE_PROCESSING, DISCONNECT from workers |
| worker | `worker.cpp`, `communication/worker.hpp`, `worker_task.hpp` | queues `tasks` and `tasks_done`, counter `instances_to_get`, `running` | main thread: return results, probe, request, create tasks, join, disconnect; solver threads: take, execute, hand back |
| commands | `communication/cmd/*` | - | what is sent between the three |
| command length | `cmd/req_max_transfer_size.hpp`, `communication/{common,server_worker,manager_server}.hpp` | the capacity of each buffer, and what each sender believes it to be | growing a receive buffer before a long command |
| formula | `sat/input.hpp`, `sat/cnf_formula.hpp` | clauses, counts, `occurrence_offset`, `clauses_with_vars`, `init_mutex` | `initialize`: parse, lay out, fill; by several threads |
| local search | `sat/instance.hpp` | assignment, list of unsatisfied clauses and its index, break counts, critical literals | initialise, flip |
| solver run | `worker_task.hpp` (`task`), `probsat.cpp` | flips done, attempts, result | loop until solved, out of flips, or stopped |
| bitfield | `util/bitfield.hpp` | bits, one pending write | `operator[]`, `operator[] const` |
| probability functions, random numbers, utilities | `sat/probability_functions/`, `sat/random_generator.hpp`, `util/` | tables | arithmetic |

The manager spawns the server and then, one by one, the workers, each of which
connects to the server by its published name. Manager and server, and server
and each worker, exchange MPI messages in order over a channel of their own;
they also meet at barriers, which have no names: the n-th barrier one side
enters on a communicator matches the n-th of the other side, whatever either
means by it. Within a worker the main thread and the solver threads share two
queues, each under a mutex of its own, and one counter under neither.

What makes it hard: requests, results and announcements of several workers
reach the server in any order; termination is a conversation of three kinds of
processes; barriers can match that were not meant for one another; a worker
that is told to stop has instances in five places; the search corrects four
redundant structures incrementally and never looks at the formula again; a
formula is shared by threads under a lock that covers a test only; a long
command needs a request ahead of it that nobody acknowledges.
`PROJECT.json` lists each hazard at its line.

What makes each component correct:

- *server*: it gives every start assignment out once; its counters are the
  truth; a task is in the deque exactly while it has something to give; the
  statistics are complete when they are sent; it stops last.
- *worker*: nothing it was given is lost or returned twice; it asks for what
  its idle threads can take; it disconnects when its threads have ended.
- *manager*: it learns of a solution before it gets totals that contain one;
  its totals are the server's.
- *all three*: they come to an end, and a solution ends the search.
- *command length*: no process is sent a command longer than the buffer it
  receives into.
- *formula and search*: nobody uses a formula before it is complete; the segments of `clauses_with_vars` list the clauses of
  each literal; list, index, break counts and critical literals agree with the
  assignment after each flip; "solved" is reported for satisfying assignments
  only.

## 2. The modules

| Module | Models | Composes |
|---|---|---|
| `Messages` | the commands (`communication/cmd/`) and the channels out of the server | - |
| `Server` | the server's thread, one action per handler | `Messages` |
| `Scheduler` | **what the server promises**: the handlers of `Server` under every command that a worker may legally send, with the set `out` of instances that are given out and not returned | `Server` |
| `SchedulerHistory` | `Scheduler` with the history of all that was given out, for one property | `Scheduler` |
| `Worker` | main thread and solver threads of each worker | `Messages` |
| `Manager` | the manager's thread, driven by a script of user commands | `Messages` |
| `Cluster` | the whole parallel program, `SPECIFICATION` with and without fairness; implements `Scheduler` | `Server`, `Worker`, `Manager` |
| `TransferSize` | the negotiation of the command length, with all messages, buffers and the server's four parallel vectors | `Messages` |
| `CnfFormula` | reading a formula, layout of the continuous data structure | - |
| `CnfSharing` | the threads of a worker calling `initialize()` on one formula object | - |
| `Bitfield` | the assignment's container and its pending write, as operators | - |
| `SerialInstance` | the search, one action per clause a flip visits | `CnfFormula`, `Bitfield` |
| `Solver` | the two programs around the search, `task::execute` and `probsat.cpp`; implements `Walk` | `SerialInstance` |
| `Walk` | **what a solver run promises**, without data structures | - |
| `Scheduler_proofs`, `CnfSharing_proofs`, `TransferSize_proofs` | theorems | the module named |
| `ClusterInv` | the inductive invariant of `Cluster`, in named parts | `Cluster`, `Scheduler_proofs` |
| `ClusterControl_proofs`, `ClusterFlow_proofs`, `Cluster_proofs` | that each step keeps the control part of it, the part about instances, and the rest; the theorems | `ClusterInv` |
| `SolverInv` | the inductive invariant of `Solver`, in named parts | `Solver` |
| `Solver_proofs` | the theorems about bitfield, formula, search and `Walk` | `SolverInv` |
| `Data_proofs` | facts about numbers, finite sets and sequences that the others share | - |
| `MC*` | scripts, files and symmetry for TLC | |

### Server and Scheduler

The server is sequential. A handler is one action; ADD_WORKERS is cut at its
two barriers and at the accept (`srv_pc` = `enter`, `accept`, `leave`), and
GET_INSTANCES at each round of its `while` loop (`handout`), which lets a
property speak of every single job. `testany` and `iprobe` are the two halves of
the main loop's round. A job is a run of consecutive start assignments
`<<task, first>>, ...`: the code gives out numbers of instances only, and
numbering them in the order in which they are given out makes "the same one
again" something that can be said. `num_instances_in_processing` and the
others are integers; `Startable` says that the unsigned differences never wrap.

`Scheduler` quantifies over all commands that can arrive: any request of a
worker that is not waiting for an answer, any instance of `out` as a result.
That a worker keeps to this is not assumed but checked: `Cluster` implements
`Scheduler` with the identity as refinement mapping, `out` being a history
variable that no guard of `Cluster` reads.

### Worker

`w_pc` is the place of the main thread (`worker.cpp:75-181`), `thread[w][i]`
that of each solver thread. An action goes up to the next point that somebody
else can notice: a queue operation under its mutex, a message, a read of
`running`. `instances_to_get` is changed under two different mutexes: each update
is a load and a store with other threads' steps in between, the thread's own
mutex being held from one to the other, so that updates get lost. A solver run
is its outcome:
`solved`, `unsolved`, or `failed` (the exception caught in `task::execute`).

### Manager

`m_script` is what stands on standard input, `default_cmds` what the manager
tells itself. One command is performed, then one message of the server is
looked at (`manager.cpp:253-267`); `wait_for_server` blocks. At the end of the
input the file is read a second time (`manager.cpp:216`), as in the code.

### TransferSize

A process receives into a vector that has a capacity. Each sender keeps a number
per receiver, what it believes that capacity to be, and before a longer command
it sends REQ_MAX_CMD_LENGTH, upon which the receiver reserves (`Ensured`,
`Reserved`). Nothing is answered; the order of messages has to do. The server
receives from its workers by receives posted in advance, so the capacity that
counts is that of the time of posting (`work_unit_requests`), and it keeps four
vectors with a row per worker, from which `process_w2s_DISCONNECT` erases.
Lengths are those that bitsery writes: a text is its characters and 1, 2 or 4
bytes, `SEND_INSTANCES` the sum of its jobs. File names are the only
thing of variable length, so a file is the length of its name here. What does
not bear on lengths is reduced: a file has one start assignment, the manager
may give its commands in any order, the solver threads of a worker are the set
`held`. A command longer than the buffer, the assertion on
`absolute_max_cmd_length` and the one in `send_termination_to_workers` end the
process (`"aborted"`).

### CnfFormula and CnfSharing

Literals are nonzero integers, clauses sequences of them. `count` is what
`parse_clause` counts, before it decides whether to keep the clause.
`clauses_with_vars` is the one array of all segments.

`CnfSharing` is about the threads and keeps of a line only what becomes of it:
a clause, an always-true line that is dropped, or an exception. The main thread
initialises the formula before it pushes tasks (`config.hpp:56`). Each solver
thread then calls `initialize()` once more, and if the formula has no clauses it
reads the file again, beside others that do the same or already solve. An
action is a stretch between two accesses to what is shared: `clear`, each
`push_back`, the assignment of `num_variables`, the two resizes, the filling.

### Bitfield, SerialInstance, Solver and Walk

`Bitfield` is a record of the bits and the one pending write. `operator[]`
writes the pending bit back and makes another one pending; the const
`operator[]` looks at the pending one. The memory of a new bitfield is not
initialised, so all values are possible. The assignment in `SerialInstance` is
such a record: each `belegung[i] = ...` is an `Assign`, each read through the
const interface a `Get`.

`unsat_clauses_location` holds a place in the list or minus the number of
satisfied literals, as in the code. Places count from 0, clauses and variables
from 1. A flip is `DoFlip` (choice), one `BreakClause` per clause of the old
literal, one `MakeClause` per clause of the new one, and `MakeDone`, which
finally changes the assignment. The clause is chosen in turn, as the code does
(`num_flips_done % size`); any of its literals may be taken, since each has a
positive probability.

`Solver` runs it. `settings.program` tells which of the two programs it is: a
`task` makes one attempt and looks at `running`, which the main thread may clear
at any time, after each flip; `probsat` makes several attempts in one and the
same bitfield, with or without a limit of flips, and prints.

`Walk` knows the file, the assignment, how many fresh starts are left, and the
result. Its lines are those of the file, including those that `parse_clause`
drops. `Solver` implements it with the assignment that a reader of the bitfield
sees.

## 3. What is checked

All bounds below are CONSTANTS or definitions of the MC modules. Sizes are
distinct states.

| Run | Instance | Shows | States |
|---|---|---|---|
| `scheduler` | 1 worker, at most 2 files of 0 or 2 start assignments, requests of 1 or 2 | the server's invariants and action properties | 1.58 M |
| `cluster` | 2 workers of 1 thread, six scripts: `tests/demo_2.cmd`, files first, early exit, no exit, late files and workers, no workers | nothing lost, announcements, totals, order of leaving, refinement of `Scheduler` | 1.14 M |
| `cluster_threads` | 1 worker of 2 threads, failing tasks, 2 files | no instance lost or returned twice, no worker left idle, threads end before DISCONNECT, refinement | 0.55 M |
| `cluster_fair` | 2 workers, fair, with and without a solution | the search ends and everybody learns of it | 0.44 M |
| `transfer` | 2 workers, at most 2 files with names of 1000, 1010 or 65500 characters | nothing is truncated, beliefs come true, only TERMINATE is probed | 2.02 M |
| `sharing` | 3 solver threads, 4 tasks, files of up to 3 lines of 3 kinds | the formula that is used is whole and constant | 7 k |
| `sat` | every file of up to 4 of 5 clauses over 3 variables, every assignment; a task of 5 flips; on files of up to 3 lines `probsat` without limit of flips and with 2 attempts of 2 flips | the structures of the search and their inductive invariant `Inv`; refinement of `Walk` | 0.27 M |
| `cluster_barrier`, `cluster_terminate`, `sat_tautology`, `solver_print`, `transfer_manager` | as above | five statements of the repository that do not hold (section 5) | |

Why these bounds: with requests of 1 and 2 against files of 0 and 2 a request
can be answered from a part of a task, exactly one task, or two tasks, and a
task can be returned in pieces while it is given out; one worker in `Scheduler`
stands for many because it may hold any set of instances. In `Cluster` two
workers of one thread show every order of two actors at the server, one worker
of two threads every interleaving within a process. In `sat`, 3 variables and
clauses of 1 to 3 literals produce all cases of `flip_literal` (0 to 3
satisfied literals, removal from the front, the middle and the end of the
list); two attempts are enough for the second to find a bitfield that has been
used. In `transfer`, the default buffer of 1024 bytes takes an ADD_FILE with
either of the shorter names, but not a FOUND_SOLUTION nor the jobs of two files;
the longest name fits an ADD_FILE and an answer with one job, but no
FOUND_SOLUTION, no SEND_STATISTICS and no answer with two jobs, so that the
assertions of worker and server are met; two workers are the least that a row can be confused among. In `sharing`, three threads suffice for one that solves, one that reads
and one that tests. `MaxPending` bounds the unread messages (the server never looks at them), `MaxFiles` the number
of ADD_FILE commands, and `max_flips` or, without a limit, `FlipBound` the
length of a walk. `CntMax` = 3 is small
enough for files that overflow the counts, and these are rejected; the cluster runs have
no bound but the length of the script.

Deadlock is checked in `sharing` only, where every end is written as such
(`Stopped`). Elsewhere every process ends, a script without `exit` leaves the
manager where the code leaves it, and an aborted process takes no more steps.

**What holds only with some users.** A worker that the server accepts after it
has told the others to stop (script `Late`) is told nothing and left behind;
`LastToLeave` names it as the one exception. `AbortsUnused` bounds what the
assertion of `server.hpp:136` can do: it ends the server when the user exits
before there is a worker (script `NoWorkers`), and then no work is lost.

**What the race on the counter may do.** With two solver threads an update of
`instances_to_get` can be lost, and a worker may come to ask for more or for less
than its threads can take. What holds all the same is checked by
`cluster_threads`: no instance is lost or returned twice, the counter does not
wrap, and `NeverStarved`: a running worker that has no task in its queue nor in a
thread has a counter above 0, so that it will ask for one. A worker that lost the
last increment would idle to the end, unnoticed by anybody. What prevents it is
that `create_tasks` holds `task_mutex` until it has stored what it loaded, so that
its tasks still stand in the queue then; the mutant that releases the mutex
before starves a worker.

**Fairness.** `FairSpec` asks for weak fairness of each thread, the manager's,
the server's, each worker's main thread and each solver thread: they are
scheduled by an operating system, and none of their loops waits for something
without looking at it again and again. A step of two processes (a barrier, a
spawn) counts for the one that can do nothing else then. `ServeWorker(w)` is
strongly fair. `MPI_Testany` need not be fair, and a worker's command is ready
again and again, not continuously first; but each worker sleeps 50 ms in each
round of its loop (`worker.cpp:154`), in which the server finds all other
channels. The liveness run uses the script of `tests/demo_2.cmd`, one
`add_workers` before the file, and readable files: other users meet the findings
below. `SearchEnds` promises that everybody is gone only when there was no
solution; with one, that the manager knows it and every worker has stopped,
since the server may then wait for instances that were dropped (finding 2).

## 4. What is proved

`Scheduler_proofs` proves, for every set of workers, file sizes, requests and
bounds, that each property of run `scheduler` holds. The inductive invariant is

    IInv == TypeOK /\ Accounting /\ QueueExact /\ OutNumbered /\ ServingUnsolved

`Accounting` alone is not inductive: that a result lowers the counter by the one
instance that leaves `out` needs `out` to be finite and its members to have the
numbers of existing tasks, and that a job adds exactly as many as it gives out
needs the new numbers not to be in `out` yet. `OutNumbered` says so: every
instance that is out is of an existing task, and has at most the number that
the task has handed out so far.
`QueueExact` ties the deque, `is_scheduled` and the counts together, and
`ServingUnsolved` says that a request that still wants something was taken up
before a solution was known. `Startable` follows, and so do three of the four action
properties, with one step. The invariant is preserved
action by action, one step of the proof for each; `HandOut` and
`ProcessDoneProcessing` are the two that matter.

`GivenOutOnce` is the fourth. An instance is numbered with what its task has
handed out so far (`started` and `num_currently_processing`, which every result
changes), so that it could be given out again if that number ever fell. `out`
would not show it, as it forgets what was returned. `SchedulerHistory` therefore
adds `given`, all that was ever given out, a variable that no guard reads. The
proof (`InstancesGivenOutOnce`) needs that no step lowers what a task has handed out
(`HandedGrows`), from which everything in `given` has a number below the next
one (`GivenNumbered`, kept by `GivenStep`). `StatisticsComplete` puts three parts of
the invariant together: with `num_instances_in_processing` 0 nothing is out
(`Accounting`), so that no task has instances being processed, and a task that
has more to give would be in the deque (`QueueExact`), which is empty unless
there is a solution.

The one assumption is `SchedulerAssumption`: the sizes of files, the requests
and the bound on the number of files are natural numbers, and `"nobody"`, which
`reply` names when no request is being answered, is not a worker.

`CnfSharing_proofs` proves `SharedIsConstant` for any number of solver threads,
any number of tasks and every file: once tasks exist, no step changes the
content of the formula. The argument is not `init_mutex`, under which only the test
is made and which is unlocked by threads that do not hold it. It is that the
main thread has read the file to its end before it pushes a task. The invariant

    IInv == Types /\ AloneFirst /\ MainHasRead /\ AgainOnlyIfEmpty

says that no solver thread has a task before that, how far the main thread has
come, and that a thread which reads the file again does so only because no line
of it is a clause; then the values it stores are those that are there. The
assumption is `CnfSharingAssumption`: the main thread is not a solver thread,
files are sequences of the three kinds of lines, and a job has at least one
instance.

`TasksUseWholeFormula` adds what has been read: the clauses of a formula are the
clause lines among the lines read so far, in order (`MainReads`), and what a task
was told of the formula is what the file says (`Reported`).

### The search

`Solver_proofs` is about every set of files, any limits of flips and attempts,
and both programs. Its theorems have one condition, `NoTautologies`: no line of a
file has a literal and its negation. It is needed, since `parse_clause` counts
such a line and then drops it (finding 3), and the files of run `sat` fulfil it.

Every list of `serial_instance` is wrong most of the time: during a flip the assignment
is the old one, and each clause is corrected when a loop comes to it. The invariant
`Inv` therefore does not compare the lists with the assignment. `Counted(c)` is the
set of literals that the lists take to be true in clause `c`: the true ones,
without the old literal if the break loop has passed `c` already, with the new one
if the make loop has. `ListsInv` says of the list, its index, the critical
literals and the breaks what follows from these sets, and a visit changes the set of
one clause by one literal. Between flips `Counted(c)` is the set of true literals.
The proof goes bottom up:

- *Bitfield.* `update()` and `operator[]` leave what a reader sees as it is
  (`UpdateKeepsValue`, `AccessKeepsValue`); after `b[i] = value` a reader sees
  `value` at `i` and the old values elsewhere (`ReadAfterWrite`); after a loop over all
  bits, what was assigned (`AssignAllIsRead`), whatever was pending before.
- *Lists.* The six things a visit may do (`LosesLast`, `LosesOneOfTwo`,
  `LosesOneOfMore`, `GainsFirst`, `GainsSecond`, `GainsAnother`) keep all four lists
  in agreement with sets of literals, any sets; so does `initialize` (`FirstLists`).
- *Formula.* The counts are those of the lines read, segments do not overlap
  (`SlotsApart`), each clause goes to the next slot of its literals
  (`FillNext`), and a filled segment lists the clauses of its literal
  (`SegmentListed`).
- *Steps.* `FormulaInv`, `SearchInv` and `RunInv` are preserved action by action.
  `FlipInv` keeps what the two loops need of each other: the literal is
  false until `MakeDone`, and the clauses still to visit all have it, each once.

From `Inv` (`Invariant`) follow all properties of run `sat`: `SolverTypes`,
`SegmentsAreExact`, `ListAndIndexMatch`, `LocationsCountSatisfied`,
`BreaksAreExact`, `BreaksInRange` (a variable cannot break more clauses than have
one of its literals and are true by it alone, and those are in one segment),
`ChecksHold`, and that a run implements `Walk` (`SolverIsWalk`): a flip is the step
`MakeDone`, a start is `Configure`, everything else in a flip is a stutter.
`SolvedMeansSatisfied` is what run `sat_tautology` refutes without the condition.
The other assumptions are `CnfFormulaAssumption` (a formula has a variable, no
line is empty, the two integer types hold at least 1) and `SolverAssumption` (limits
are natural numbers, at least one attempt, a task makes one).

### The whole program

`Cluster_proofs` is about any number of workers and solver threads, any finite
set of scripts and any outcome of a solver run. Its inductive invariant is `ClusterInvariant` in `ClusterInv`:

    SchedProofs!IInv /\ Control /\ Flow /\ Files /\ Counter /\ Provided

The argument is a circle that only closes as a whole. Every step of the program
is a step of `Scheduler` if what a worker returns was out (`Accounted`) and
what it asks for is a number. That holds because every instance is in one place
only (`Apart`), and twice in none (`Once`), on its way through answer, channel,
jobs, queue, thread, results and back. `Apart` survives GET_INSTANCES because
the next job is new, which is a part of `Scheduler`'s own invariant, which is
kept because every step is one of `Scheduler`.

- `Control` says where the threads can be, that a worker stops only after it was
  told to, that a request, the work on it and its answer exclude one another
  (`Requesting`), that DISCONNECT is a worker's last word (`Farewell`), how the two
  barriers of ADD_WORKERS hold manager and server together (`Handshake`), and that
  whoever counts a solution has been told of it (`Solutions`).
- `Flow` is where the instances are. A step leaves each in its place, moves some
  from one place to the next, or drops them; nobody but HandOut puts new ones in,
  and DONE_PROCESSING alone takes one out.
- `Files` bounds the files: the input is read at most twice.
- `Counter` says that `instances_to_get` covers what is asked for or on its way.
  It does so even with the race: when a solver thread stores a stale value, a
  decrement is lost and the counter is too large; when `create_tasks` does, an
  increment is lost, and the counter is too small only by what nobody has asked
  for yet. Hence `ProgramTypes`: the `uint32_t` does not wrap below 0.
- `Provided` is `NeverStarved`, and that the queue is not empty while `create_tasks`
  is about to store the counter. A thread that leaves the queue takes a task
  along, a thread that is done stores at least 1 (it loaded no less than what is
  there, which `Counter` says is not negative), and `create_tasks` appends before
  it subtracts, each job being of at least one instance.

`TotalsComplete` needs one thing more, `Reporting`, which is kept along with
`ClusterInvariant`. The statistics are sent when nothing is out, and then every
worker is `Silent`: it has nothing to return, and what it is still sent it throws
away, as TERMINATE stands first in its channel. The exception is a worker that was
accepted after the others were told to stop (`NeverTold`): files that are added later
are handed out to it, and its results are never reported. But as long as there
is such a worker the server goes on, so that it cannot have left. If there is
none, the statistics in the manager's channel are of different tasks, and right,
and its totals are those of all the other tasks (`Totalled`).

`ClusterControl_proofs` shows that each action keeps every part of `Control`,
`ClusterFlow_proofs` that it keeps `Flow`, `Cluster_proofs` the rest. The theorems are `ProgramInvariant`, the properties of the runs
(`ProgramTypes`, `ProgramLosesNothing`, `SolutionComesFirst`, `ServerLeavesLast`,
`AbortsOnlyUnused`, `WorkersLeaveClean`, `TotalsAreComplete`,
`WorkersNeverStarve`), and the refinement. `ProgramSchedules` shows that the program implements
`Scheduler` with requests of any size, from which
`ProgramCountsRight` takes over `Accounting`, `QueueExact` and `Startable`.
The `ImplementsScheduler` that the runs check differs from it in one thing: TLC
has to enumerate the requests, which are at most `NumThreads + 3` there. That is
enough for the runs, while in principle lost decrements let a counter grow
without bound.

The assumptions are `WorkerAssumption` (there is at least one solver thread, a run
ends in one of the three outcomes),
`ManagerAssumption` (a script is a sequence of the four commands) and
`ClusterAssumption` (`"nobody"` is not a worker, and the scripts are finitely many,
so that there is a longest one).

### The command length

`TransferSize_proofs` proves the four invariants of run `transfer` for any number
of workers, any lengths of names and any two bounds with
`73 <= DefaultMax <= AbsoluteMax`: 73 bytes is the longest command without a
name. What makes it inductive is stated for one channel: each command on it fits what the receiver has, or a
request for enough stands before it (`Announced`), and what the sender believes
is had or asked for (`Coming`). Both survive sending, with or without a request
ahead, and receiving. For what a worker sends, the capacity is not that of the
buffer but that of the receive posted last. The rest of the invariant
`Promises` says that the four vectors of the server have a row for each worker,
about the same one (`RowTypes`, `Presence`), so that erasing a row by its index
keeps every other; and that a worker has at most one question open or one answer
coming (`Conversations`), which is why only TERMINATE can be met by a probe.
SEND_STATISTICS is a series of commands, each measured with what the one before
made the server believe; `ToldStepByStep` follows it by induction.

### How induction is done

The theorems of the library about induction take an operator as a parameter,
which the installed provers cannot instantiate. `Data_proofs` states induction
on sets of numbers instead: `LeastNatural` and `NatSet` (a set with 0 and with
the successor of each of its elements holds every natural number). A property is
then the set of the numbers that have it. `SumOfNaturals`, `ToldStepByStep`
and what the loop of `AssignAll` assigns (`LoopExists`: its recursive function
exists for every number of bits) are proved that way.

### What stays with TLC

- Liveness (`SearchEnds`) and everything under fairness: out of the prover's reach.
- The statements that runs refute (section 5): a violation needs one behaviour
  only, which TLC shows. No theorem speaks of files with always-true lines.

## 5. Where the program disagrees with itself

1. **Barriers that meet by accident** (`cluster_barrier`). With the shape of
   `tests/demo_1.cmd`, files first and then two workers, the first worker may be
   done before the second is added. The server is then at its final barrier, and
   the first barrier of ADD_WORKERS (`manager.hpp:68`) matches it.
2. **TERMINATE does not terminate the server** (`cluster_terminate`). After
   `exit` without `wait_for_server`, a worker throws away the tasks it has not
   started, the server counts them as being at workers for ever, and neither
   sends statistics nor stops. Instances are dropped after a solution too:
   the search ends, but the server may not.
3. **Always-true clauses** (`sat_tautology`). A file with a clause that contains
   a literal and its negation can make the search report a "solution" that is
   none; the assertion in `worker_task.hpp:184` then aborts the worker. The
   properties of `sat` are therefore checked on files without such a clause.
4. **The printed solution** (`solver_print`). `probsat --printSolution` prints
   the bits of its own `belegung`, while the search flips a copy; and it numbers
   the variables from 0, so that the first one has no sign.
5. **The manager's buffer** (`transfer_manager`). The server announces a long
   command to the manager, which does not know the announcement. It throws: the
   main loop then ends, and in `wait_for_server`, where only the command ends,
   the long command is received into 1024 bytes next. A file name of 935 characters
   is enough.

## 6. Not modelled

- Times, speeds and flip counts in the statistics, and the averages that become
  NaN when a solution needed no flip; output but for the printed solution.
- Probabilities and random numbers (floating point). That some literal is always
  chosen is assumed (`instance.hpp:572-586`). The
  table of `cached.hpp` is used by the single-threaded program only
  (`config.hpp:72`).
- Moving, swapping and printing of a bitfield: no program does it. Although
  `config.hpp:24` sets `USE_BITFIELD` to 0, `instance.hpp:46` tests it with
  `#ifdef`, so the bitfield is what the build uses.
- The header, comments and number syntax of a file; the command lines.
- The hang of `read()` on a file that cannot be opened: such a worker takes no
  more steps, which the safety properties cover and the liveness run excludes.
- Data races within one vector of a formula without clauses that several threads
  read again: `CnfSharing` lets each access happen at once. That all of them store
  what is there is what is shown.
- In `Cluster` every command is as if it fitted, and in `TransferSize` the
  barriers at the end and lost instances are left out; each is the other's.

## 7. Plan

Done: server, scheduler, worker, manager and their composition; formula and
search; the command length; the sharing of a formula; the bitfield; both programs
around the search; the proofs of section 4, by which every safety property of a
passing run holds for every instance, under the conditions named there. What could follow:

1. files with always-true lines: what still holds of the segments and lists when
   the counts are too large;
2. one specification of `Cluster` in which commands have lengths, so that the
   abstractions of section 6 need not be each other's.

## 8. Running it

    tlc -config Scheduler.cfg MCScheduler.tla
    tlc -config Cluster.cfg MCCluster.tla
    tlc -config Transfer.cfg MCTransferSize.tla
    tlc -config Sharing.cfg MCCnfSharing.tla
    tlc -config Solver.cfg MCSolver.tla
    tlapm Scheduler_proofs.tla
    tlapm Cluster_proofs.tla
    tlapm TransferSize_proofs.tla
    tlapm CnfSharing_proofs.tla
    tlapm Solver_proofs.tla
