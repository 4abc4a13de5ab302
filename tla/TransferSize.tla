---------------------------- MODULE TransferSize ----------------------------
(***************************************************************************)
(* How long a command may be (communication/common.hpp, server_worker.hpp, *)
(* manager_server.hpp, cmd/req_max_transfer_size.hpp).  Every process      *)
(* receives into a buffer whose capacity the sender has to know: before a  *)
(* command that is longer than what the sender believes to fit it sends    *)
(* REQ_MAX_CMD_LENGTH, and the receiver reserves.  The server has a row    *)
(* per worker in four vectors, from which a worker is erased by its index  *)
(* when it disconnects.                                                    *)
(*                                                                         *)
(* File names make commands long.  A file is its name's length here and    *)
(* has one start assignment; when instances are given out and when the     *)
(* server stops is as in Server, reduced to such files.  Lengths are bytes *)
(* as bitsery writes them.  A buffer grows to exactly what was asked for;  *)
(* the library may make it larger.                                         *)
(***************************************************************************)
EXTENDS Messages, SequencesExt

CONSTANTS
    DefaultMax,      \* default_max_cmd_length
    AbsoluteMax,     \* absolute_max_cmd_length
    Names,           \* lengths of file names
    MaxFiles,        \* bound on the number of ADD_FILE commands
    NumThreads       \* tasks a worker takes at a time

ASSUME TransferSizeAssumption ==
    /\ {DefaultMax, AbsoluteMax, MaxFiles, NumThreads} \subseteq Nat
    /\ 73 <= DefaultMax /\ DefaultMax <= AbsoluteMax
    /\ Names \subseteq Nat

VARIABLES
    \* manager
    m_pc, m2s, workers, m_solution_found,
    m_buffer,              \* capacity of its command_buffer
    m_server_max,          \* current_server_max_cmd_length
    \* server
    srv_pc, files, task_order, in_processing, done, solution_found,
    terminated_workers, statistic_send,
    srv_buffer,            \* capacity of its command_buffer
    srv_manager_max,       \* current_manager_max_cmd_length
    work_units, transfer_sizes, worker_comm_buffers, work_unit_requests,
    \* workers
    w2s, w_pc, w_running, held,
    w_buffer,              \* capacity of command_buffer
    w_server_max           \* current_server_max_cmd_length

manager_vars == <<m_pc, m2s, workers, m_solution_found, m_buffer,
                  m_server_max>>

rows == <<work_units, transfer_sizes, worker_comm_buffers, work_unit_requests>>

task_vars == <<files, task_order, in_processing, done, solution_found,
               terminated_workers, statistic_send>>

server_vars == <<srv_pc, task_vars, srv_buffer, srv_manager_max, rows>>

worker_vars == <<w2s, w_pc, w_running, held, w_buffer, w_server_max>>

vars == <<manager_vars, server_vars, worker_vars, s2w, s2m>>

Init ==
    /\ m_pc = "loop" /\ m2s = <<>> /\ workers = {}
    /\ m_solution_found = FALSE
    /\ m_buffer = DefaultMax /\ m_server_max = DefaultMax
    /\ srv_pc = "loop"
    /\ files = <<>> /\ task_order = <<>> /\ in_processing = 0 /\ done = {}
    /\ solution_found = FALSE /\ terminated_workers = FALSE
    /\ statistic_send = FALSE
    /\ srv_buffer = DefaultMax /\ srv_manager_max = DefaultMax
    /\ work_units = <<>> /\ transfer_sizes = <<>>
    /\ worker_comm_buffers = <<>> /\ work_unit_requests = <<>>
    /\ w2s = [w \in Worker |-> <<>>]
    /\ w_pc = [w \in Worker |-> "absent"]
    /\ w_running = [w \in Worker |-> TRUE]
    /\ held = [w \in Worker |-> {}]
    /\ w_buffer = [w \in Worker |-> DefaultMax]
    /\ w_server_max = [w \in Worker |-> DefaultMax]
    /\ s2w = [w \in Worker |-> <<>>]
    /\ s2m = <<>>

-----------------------------------------------------------------------------
(* Commands and their lengths.                                             *)

ReqMaxCmdLength(size) == [tag |-> "REQ_MAX_CMD_LENGTH", size |-> size]
AddNamedFile(name)    == [tag |-> "ADD_FILE", name |-> name]

(* A text of n characters with its length before it.                       *)
Text(n) == n + (IF n < 128 THEN 1 ELSE IF n < 16384 THEN 2 ELSE 4)

(* A job, a solution and a statistic carry the name of their file.         *)
JobsLength(names, jobs) ==
    1 + SumFunction([k \in DOMAIN jobs |-> 16 + Text(names[jobs[k].task])])

LengthIn(names, msg) ==
    CASE msg.tag = "ADD_FILE"        -> 8 + Text(msg.name)
      [] msg.tag = "SEND_INSTANCES"  -> JobsLength(names, msg.jobs)
      [] msg.tag = "FOUND_SOLUTION"  -> 40 + Text(names[msg.task])
      [] msg.tag = "SEND_STATISTICS" -> 88 + Text(names[msg.task])
      [] msg.tag = "DONE_PROCESSING" -> 73
      [] OTHER                       -> 4

Length(msg) == LengthIn(files, msg)

Bigger(a, b) == IF a < b THEN b ELSE a

(* What arrives at a receiver that is told msg.                            *)
MutantTooLate(believed, msg) ==
    IF Length(msg) > believed THEN <<msg, ReqMaxCmdLength(Length(msg))>>
    ELSE <<msg>>

(* ensure_cmd_length, then the command.                                    *)
Ensured(believed, msg) ==
    IF Length(msg) > believed THEN <<ReqMaxCmdLength(Length(msg)), msg>>
    ELSE <<msg>>

(* What ensure_cmd_length makes the sender believe.                        *)
Believed(believed, msg) == Bigger(believed, Length(msg))

MutantNoLimit(believed, msg) == FALSE

(* The assertion in the constructor of req_max_transfer_size.              *)
TooLong(believed, msg) ==
    Length(msg) > believed /\ Length(msg) > AbsoluteMax

(* req_max_transfer_size::process: the capacity afterwards.                *)
Reserved(capacity, msg) ==
    IF msg.tag = "REQ_MAX_CMD_LENGTH" THEN Bigger(capacity, msg.size)
    ELSE capacity

-----------------------------------------------------------------------------
(* The manager.  It reads commands and looks for messages of the server in *)
(* between; it has no case for REQ_MAX_CMD_LENGTH (manager.hpp:224).       *)

ManagerSends(msg) ==
    /\ m2s' = m2s \o Ensured(m_server_max, msg)
    /\ m_server_max' = Believed(m_server_max, msg)
    /\ m_buffer' = Bigger(m_buffer, Length(msg))

AddFileCommand ==
    /\ m_pc = "loop" /\ ~m_solution_found
    /\ Len(SelectSeq(m2s, LAMBDA msg : msg.tag = "ADD_FILE")) + Len(files)
           < MaxFiles
    /\ \E name \in Names :
          LET msg == AddNamedFile(name) IN
          IF TooLong(m_server_max, msg)
          THEN m_pc' = "aborted" /\ UNCHANGED <<m2s, m_server_max, m_buffer>>
          ELSE ManagerSends(msg) /\ UNCHANGED m_pc
    /\ UNCHANGED <<workers, m_solution_found, server_vars, worker_vars, s2w,
                   s2m>>

(* add_workers up to the barrier at which it waits for the server.         *)
AddWorkerCommand ==
    /\ m_pc = "loop" /\ ~m_solution_found
    /\ workers # Worker
    /\ ManagerSends(AddWorkers)
    /\ m_pc' = "add"
    /\ UNCHANGED <<workers, m_solution_found, server_vars, worker_vars, s2w,
                   s2m>>

WaitCommand ==
    /\ m_pc = "loop"
    /\ m_pc' = "wait"
    /\ UNCHANGED <<m2s, workers, m_solution_found, m_buffer, m_server_max,
                   server_vars, worker_vars, s2w, s2m>>

(* do_exit.  The main loop's last round may still find a message.          *)
ExitCommand ==
    /\ m_pc \in {"loop", "exit"}
    /\ ManagerSends(TerminateServer)
    /\ m_pc' = "last"
    /\ UNCHANGED <<workers, m_solution_found, server_vars, worker_vars, s2w,
                   s2m>>

(* A longer command than the buffer ends an MPI program.                   *)
ManagerReceives(pc) ==
    /\ s2m # <<>>
    /\ s2m' = Tail(s2m)
    /\ m_pc' = IF Length(Head(s2m)) > m_buffer THEN "aborted" ELSE pc
    /\ m_solution_found' =
           (m_solution_found \/ Head(s2m).tag = "FOUND_SOLUTION")
    /\ UNCHANGED <<workers, server_vars, worker_vars, s2w>>

(* The poll in the main loop.  The exception of the unknown command leaves *)
(* the loop; the manager tells itself to wait after a solution, and to     *)
(* exit after DISCONNECT.                                                  *)
AfterPoll(tag) ==
    CASE tag = "REQ_MAX_CMD_LENGTH" -> "end"
      [] m_pc = "last"              -> "end"
      [] tag = "FOUND_SOLUTION"     -> "wait"
      [] tag = "DISCONNECT"         -> "exit"
      [] OTHER                      -> "loop"

Poll ==
    /\ m_pc \in {"loop", "last"}
    /\ ManagerReceives(AfterPoll(Head(s2m).tag))
    /\ UNCHANGED <<m2s, m_buffer, m_server_max>>

LastPollFindsNothing ==
    /\ m_pc = "last"
    /\ m_pc' = "end"
    /\ UNCHANGED <<m2s, workers, m_solution_found, m_buffer, m_server_max,
                   server_vars, worker_vars, s2w, s2m>>

(* wait_for_server.  Here the exception ends the command only.             *)
Wait ==
    /\ m_pc = "wait"
    /\ ManagerReceives(CASE Head(s2m).tag = "REQ_MAX_CMD_LENGTH" -> "loop"
                         [] Head(s2m).tag = "DISCONNECT"         -> "last"
                         [] OTHER                                -> "wait")
    /\ IF m_pc' = "last" THEN ManagerSends(TerminateServer)
       ELSE UNCHANGED <<m2s, m_buffer, m_server_max>>

Manager ==
    \/ AddFileCommand \/ AddWorkerCommand \/ WaitCommand \/ ExitCommand
    \/ Poll \/ LastPollFindsNothing \/ Wait

-----------------------------------------------------------------------------
(* The server, commands of the manager.                                    *)

ServerTells(msg) ==
    /\ s2m' = s2m \o Ensured(srv_manager_max, msg)
    /\ srv_manager_max' = Believed(srv_manager_max, msg)
    /\ srv_buffer' = Bigger(srv_buffer, Length(msg))

Connected == ToSet(work_units)

SendTermination ==
    /\ terminated_workers' = TRUE
    /\ s2w' = IF terminated_workers THEN s2w
              ELSE Broadcast(Connected, TerminateWorker)

(* A new file goes to the front of the deque, the first one wakes workers. *)
ServerAddsFile(msg) ==
    /\ files' = Append(files, msg.name)
    /\ task_order' = Cons(Len(files) + 1, task_order)
    /\ s2w' = IF files = <<>> THEN Broadcast(Connected, ActivateWorker)
              ELSE s2w
    /\ UNCHANGED <<srv_pc, in_processing, done, solution_found, srv_buffer,
                   terminated_workers, statistic_send, rows, m_pc, workers,
                   w_pc>>

(* The barriers and the accept are one step with the manager: a new row.   *)
ServerAddsWorker ==
    /\ m_pc = "add"
    /\ \E w \in Worker \ workers :
          /\ workers' = workers \cup {w}
          /\ work_units' = Append(work_units, w)
          /\ w_pc' = [w_pc EXCEPT ![w] = "activate"]
          /\ s2w' = IF files # <<>> THEN Broadcast({w}, ActivateWorker)
                    ELSE s2w
    /\ transfer_sizes' = Append(transfer_sizes, DefaultMax)
    /\ worker_comm_buffers' = Append(worker_comm_buffers, DefaultMax)
    /\ work_unit_requests' = Append(work_unit_requests, DefaultMax)
    /\ m_pc' = "loop"
    /\ UNCHANGED <<srv_pc, task_vars, srv_buffer>>

ServerTerminates ==
    /\ SendTermination
    /\ srv_pc' = IF ~terminated_workers /\ work_units = <<>> THEN "aborted"
                 ELSE srv_pc
    /\ UNCHANGED <<files, task_order, in_processing, done, solution_found,
                   statistic_send, srv_buffer, rows, m_pc, workers, w_pc>>

ServeManager ==
    /\ srv_pc = "loop"
    /\ m2s # <<>>
    /\ m2s' = Tail(m2s)
    /\ LET msg == Head(m2s) IN
       \/ /\ msg.tag = "REQ_MAX_CMD_LENGTH"
          /\ srv_buffer' = Reserved(srv_buffer, msg)
          /\ UNCHANGED <<srv_pc, task_vars, rows, m_pc, workers, w_pc, s2w>>
       \/ msg.tag = "ADD_FILE" /\ ServerAddsFile(msg)
       \/ msg.tag = "ADD_WORKERS" /\ ServerAddsWorker
       \/ msg.tag = "TERMINATE" /\ ServerTerminates
    /\ UNCHANGED <<srv_manager_max, m_solution_found, m_buffer, m_server_max,
                   w2s, w_running, held, w_buffer, w_server_max, s2m>>

-----------------------------------------------------------------------------
(* The server, commands of the worker in row i.  After each but DISCONNECT *)
(* the receive is renewed, with the buffer as long as it is then.          *)

Renew(i) ==
    work_unit_requests' =
        [work_unit_requests EXCEPT ![i] = worker_comm_buffers'[i]]

OnRequest(i, msg) ==
    /\ worker_comm_buffers' =
           [worker_comm_buffers EXCEPT ![i] = Reserved(@, msg)]
    /\ Renew(i)
    /\ UNCHANGED <<srv_pc, task_vars, srv_buffer, srv_manager_max, work_units,
                   transfer_sizes, s2w, s2m>>

(* The jobs a request for num instances gets.                              *)
NumGiven(num) ==
    IF solution_found THEN 0
    ELSE IF num < Len(task_order) THEN num ELSE Len(task_order)

OnGetInstances(i, num) ==
    LET given == SubSeq(task_order, 1, NumGiven(num))
        msg   == SendInstances([k \in DOMAIN given |-> Job(given[k], 1, 1)])
    IN  /\ task_order' = SubSeq(task_order, NumGiven(num) + 1, Len(task_order))
        /\ in_processing' = in_processing + NumGiven(num)
        /\ worker_comm_buffers' =
               [worker_comm_buffers EXCEPT ![i] = Bigger(@, Length(msg))]
        /\ IF TooLong(transfer_sizes[i], msg)
           THEN srv_pc' = "aborted"
                /\ UNCHANGED <<transfer_sizes, s2w, work_unit_requests>>
           ELSE /\ s2w' = [s2w EXCEPT ![work_units[i]] =
                               @ \o Ensured(transfer_sizes[i], msg)]
                /\ transfer_sizes' =
                       [transfer_sizes EXCEPT ![i] = Believed(@, msg)]
                /\ Renew(i)
                /\ UNCHANGED srv_pc
        /\ UNCHANGED <<files, done, solution_found, terminated_workers,
                       statistic_send, srv_buffer, srv_manager_max, work_units,
                       s2m>>

OnFoundSolution(i, msg) ==
    /\ solution_found' = TRUE
    /\ SendTermination
    /\ IF TooLong(srv_manager_max, SolutionNotice(msg.task))
       THEN /\ srv_pc' = "aborted"
            /\ UNCHANGED <<srv_buffer, srv_manager_max, s2m>>
       ELSE ServerTells(SolutionNotice(msg.task)) /\ UNCHANGED srv_pc
    /\ UNCHANGED <<files, task_order, in_processing, done, statistic_send,
                   rows>>

(* The statistics go out one after the other, each measured with what the  *)
(* one before made the server believe.                                     *)
StatisticsOf(worked) ==
    [k \in 1 .. Cardinality(worked) |-> Statistic(Nth(worked, k), 1, 0)]

TellOne(told, msg) ==
    IF told.failed \/ TooLong(told.believed, msg)
    THEN [told EXCEPT !.failed = TRUE]
    ELSE [chan     |-> told.chan \o Ensured(told.believed, msg),
          believed |-> Believed(told.believed, msg),
          failed   |-> FALSE]

Told(msgs) ==
    LET told[k \in 0 .. Len(msgs)] ==
            IF k = 0
            THEN [chan |-> s2m, believed |-> srv_manager_max, failed |-> FALSE]
            ELSE TellOne(told[k - 1], msgs[k])
    IN  told[Len(msgs)]

(* send_statistic_to_manager, once.  Its buffer is never smaller than what *)
(* it believes of the manager's, since it serialises into it.              *)
SendStatistics ==
    LET told == Told(IF statistic_send THEN <<>>
                     ELSE StatisticsOf(done'))
    IN  /\ statistic_send' = TRUE
        /\ s2m' = told.chan
        /\ srv_manager_max' = told.believed
        /\ srv_buffer' = Bigger(srv_buffer, told.believed)
        /\ IF told.failed
           THEN srv_pc' = "aborted" /\ UNCHANGED <<terminated_workers, s2w>>
           ELSE SendTermination /\ UNCHANGED srv_pc

OnDoneProcessing(i, msg) ==
    /\ in_processing' = in_processing - 1
    /\ done' = done \cup {msg.inst[1]}
    /\ IF (task_order = <<>> \/ solution_found) /\ in_processing' = 0
       THEN SendStatistics
       ELSE UNCHANGED <<srv_pc, statistic_send, terminated_workers, srv_buffer,
                        srv_manager_max, s2m, s2w>>
    /\ UNCHANGED <<files, task_order, solution_found, rows>>

(* A row goes from each of the four vectors.                               *)
MutantLastErased(vector, i) == Front(vector)

TransferSizeErased(vector, i) == RemoveAt(vector, i)

(* The last worker to leave may end the server.                            *)
OnDisconnect(i) ==
    /\ work_units' = RemoveAt(work_units, i)
    /\ transfer_sizes' = TransferSizeErased(transfer_sizes, i)
    /\ worker_comm_buffers' = RemoveAt(worker_comm_buffers, i)
    /\ work_unit_requests' = RemoveAt(work_unit_requests, i)
    /\ IF /\ task_order = <<>> \/ solution_found
          /\ work_units' = <<>> /\ statistic_send
       THEN srv_pc' = "gone" /\ s2m' = Append(s2m, DisconnectServer)
       ELSE UNCHANGED <<srv_pc, s2m>>
    /\ UNCHANGED <<task_vars, srv_buffer, srv_manager_max, s2w>>

ServeWorker(i) ==
    LET w == work_units[i] IN
    /\ srv_pc = "loop"
    /\ w2s[w] # <<>>
    /\ w2s' = [w2s EXCEPT ![w] = Tail(@)]
    /\ LET msg == Head(w2s[w]) IN
       \/ /\ msg.tag = "REQ_MAX_CMD_LENGTH" /\ OnRequest(i, msg)
          /\ UNCHANGED w_pc
       \/ /\ msg.tag = "GET_INSTANCES" /\ OnGetInstances(i, msg.num)
          /\ UNCHANGED w_pc
       \/ /\ msg.tag = "FOUND_SOLUTION" /\ OnFoundSolution(i, msg)
          /\ UNCHANGED w_pc
       \/ /\ msg.tag = "DONE_PROCESSING" /\ OnDoneProcessing(i, msg)
          /\ UNCHANGED w_pc
       \/ /\ msg.tag = "DISCONNECT" /\ OnDisconnect(i)
          /\ w_pc' = [w_pc EXCEPT ![w] = "gone"]
    /\ UNCHANGED <<manager_vars, w_running, held, w_buffer, w_server_max>>

-----------------------------------------------------------------------------
(* The workers.                                                            *)

Goto(w, pc) == w_pc' = [w_pc EXCEPT ![w] = pc]

WorkerSends(w, msg) ==
    /\ w2s' = [w2s EXCEPT ![w] = @ \o Ensured(w_server_max[w], msg)]
    /\ w_server_max' = [w_server_max EXCEPT ![w] = Believed(@, msg)]
    /\ w_buffer' = [w_buffer EXCEPT ![w] = Bigger(@, Length(msg))]

LoopOrFlush(running) == IF running THEN "loop" ELSE "flush"

(* What recieve_server_cmd was called with: it goes on until that comes.   *)
MutantAnything(w) == Head(s2w[w]).tag

WaitedFor(w) ==
    IF w_pc[w] = "activate" THEN "ACTIVATE_WORKER" ELSE "SEND_INSTANCES"

(* recieve_server_cmd, one command.                                        *)
WorkerReceives(w) ==
    /\ w_pc[w] \in {"activate", "await"}
    /\ s2w[w] # <<>>
    /\ s2w' = [s2w EXCEPT ![w] = Tail(@)]
    /\ LET msg == Head(s2w[w]) IN
       /\ w_buffer' = [w_buffer EXCEPT ![w] = Reserved(@, msg)]
       /\ w_running' = [w_running EXCEPT ![w] = @ /\ msg.tag # "TERMINATE"]
       /\ held' = [held EXCEPT ![w] =
              IF w_running[w] /\ msg.tag = "SEND_INSTANCES"
              THEN @ \cup {msg.jobs[k].task : k \in DOMAIN msg.jobs} ELSE @]
       /\ IF msg.tag = WaitedFor(w) THEN Goto(w, LoopOrFlush(w_running'[w]))
          ELSE UNCHANGED w_pc
    /\ UNCHANGED <<manager_vars, server_vars, w2s, w_server_max, s2m>>

(* The main loop looks at a command without receiving it: only TERMINATE   *)
(* can be dealt with so.  If there is none it may ask for instances.       *)
Probe(w) ==
    /\ w_pc[w] = "loop"
    /\ IF s2w[w] # <<>> /\ Head(s2w[w]).tag = "TERMINATE"
       THEN /\ w_running' = [w_running EXCEPT ![w] = FALSE]
            /\ Goto(w, "flush")
            /\ UNCHANGED <<w2s, w_buffer, w_server_max>>
       ELSE /\ \E num \in 1 .. NumThreads : WorkerSends(w, GetInstances(num))
            /\ Goto(w, "await")
            /\ UNCHANGED w_running
    /\ UNCHANGED <<manager_vars, server_vars, held, s2m, s2w>>

ReturnUnsolved(w) ==
    /\ w_pc[w] \in {"loop", "flush"}
    /\ \E f \in held[w] :
          /\ WorkerSends(w, DoneProcessing(<<f, 1>>, FALSE))
          /\ held' = [held EXCEPT ![w] = @ \ {f}]
    /\ UNCHANGED <<manager_vars, server_vars, w_pc, w_running, s2m, s2w>>

(* FOUND_SOLUTION may be long, DONE_PROCESSING after it is not.            *)
ReturnSolved(w) ==
    /\ w_pc[w] \in {"loop", "flush"}
    /\ \E f \in held[w] :
          LET msg == FoundSolution(f) IN
          IF TooLong(w_server_max[w], msg)
          THEN Goto(w, "aborted")
               /\ UNCHANGED <<w2s, w_server_max, w_buffer, held>>
          ELSE /\ w2s' = [w2s EXCEPT ![w] =
                      Append(@ \o Ensured(w_server_max[w], msg),
                             DoneProcessing(<<f, 1>>, TRUE))]
               /\ w_server_max' = [w_server_max EXCEPT ![w] = Believed(@, msg)]
               /\ w_buffer' = [w_buffer EXCEPT ![w] = Bigger(@, Length(msg))]
               /\ held' = [held EXCEPT ![w] = @ \ {f}]
               /\ UNCHANGED w_pc
    /\ UNCHANGED <<manager_vars, server_vars, w_running, s2m, s2w>>

(* What is still held then has been dropped by the solver threads.         *)
Disconnect(w) ==
    /\ w_pc[w] = "flush"
    /\ w2s' = [w2s EXCEPT ![w] = Append(@, DisconnectWorker)]
    /\ held' = [held EXCEPT ![w] = {}]
    /\ Goto(w, "bye")
    /\ UNCHANGED <<manager_vars, server_vars, w_running, w_buffer,
                   w_server_max, s2m, s2w>>

Next ==
    \/ Manager \/ ServeManager
    \/ \E i \in DOMAIN work_units : ServeWorker(i)
    \/ \E w \in Worker : \/ WorkerReceives(w) \/ Probe(w) \/ ReturnUnsolved(w)
                         \/ ReturnSolved(w) \/ Disconnect(w)

Spec == Init /\ [][Next]_vars

-----------------------------------------------------------------------------
Lengths == DefaultMax .. AbsoluteMax

(* Every buffer and every belief stays between the default and the limit.  *)
TypeOK ==
    /\ m_pc \in {"loop", "add", "wait", "exit", "last", "end",
                 "aborted"}
    /\ srv_pc \in {"loop", "gone", "aborted"}
    /\ w_pc \in [Worker -> {"absent", "activate", "loop", "await", "flush",
                            "bye", "gone", "aborted"}]
    /\ {m_buffer, m_server_max, srv_buffer, srv_manager_max} \subseteq Lengths
    /\ transfer_sizes \in Seq(Lengths)
    /\ w_server_max \in [Worker -> Lengths]
    /\ Len(transfer_sizes) = Len(work_units)

Row(w) == CHOOSE i \in DOMAIN work_units : work_units[i] = w

(* The next command fits into the buffer it will be received in: the       *)
(* server's, whose receive is posted long before the command is sent, and  *)
(* each worker's.  A longer command would end the program.                 *)
NothingTruncated ==
    /\ m2s # <<>> => Length(Head(m2s)) <= srv_buffer
    /\ \A w \in Connected :
           /\ w2s[w] # <<>> =>
                  Length(Head(w2s[w])) <= work_unit_requests[Row(w)]
           /\ s2w[w] # <<>> => Length(Head(s2w[w])) <= w_buffer[w]

(* The receiver has that capacity, or a request for it is on its way.      *)
Coming(size, capacity, channel) ==
    \/ size <= capacity
    \/ \E k \in DOMAIN channel : channel[k].tag = "REQ_MAX_CMD_LENGTH"
                                 /\ channel[k].size >= size

(* What a sender believes of a receiver is what the receiver will have     *)
(* when it has worked through the requests on their way.  The server's     *)
(* belief stands in the row of the worker it is about, whoever left.       *)
BeliefsComeTrue ==
    /\ Coming(m_server_max, srv_buffer, m2s)
    /\ \A w \in Connected :
           /\ Coming(w_server_max[w], work_unit_requests[Row(w)], w2s[w])
           /\ Coming(transfer_sizes[Row(w)], w_buffer[w], s2w[w])

(* process_server_cmd in the main loop of a worker (worker.cpp:117) is     *)
(* given a command that was only probed.  Everything but TERMINATE would   *)
(* be read from what happens to be in the buffer.                          *)
OnlyTerminateProbed ==
    \A w \in Worker :
        w_pc[w] = "loop" /\ s2w[w] # <<>> => Head(s2w[w]).tag = "TERMINATE"

-----------------------------------------------------------------------------
(* "generisch und von allen Prozessen verwendet" (the request, generic and *)
(* used by all processes): what the server sends fits the manager's buffer *)
(* when its turn comes.                                                    *)
ManagerKeepsUp ==
    m_pc \in {"loop", "wait"} /\ s2m # <<>> => Length(Head(s2m)) <= m_buffer
=============================================================================
