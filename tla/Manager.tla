------------------------------ MODULE Manager -------------------------------
(***************************************************************************)
(* The manager process (manager.cpp, communication/manager.hpp).  It reads *)
(* the user's commands from standard input, passes them on to the server,  *)
(* spawns the workers and adds up the statistics.  It looks at what the    *)
(* server sends after each command, one message at a time, and blocks on   *)
(* it in wait_for_server.                                                  *)
(***************************************************************************)
EXTENDS Messages

CONSTANT Scripts     \* what may be on standard input: sequences of commands

VARIABLES
    m2s,             \* commands from the manager to the server
    m_pc,            \* where the manager's thread is
    m_script,        \* the commands on standard input
    m_input,         \* those not read yet
    m_once,          \* the input was not rewound yet
    default_cmds,    \* commands the manager gives itself, served first
    m_toadd,         \* workers the current add_workers has still to add
    m_running, m_solution_found,
    statistic,       \* totals over the statistics received
    workers          \* spawned workers, in order

input_vars == <<m_script, m_input, m_once>>

manager_vars == <<m2s, m_pc, input_vars, default_cmds, m_toadd, m_running,
                 m_solution_found, statistic, workers>>

(* The user's commands.                                                    *)
CmdAddWorkers(num) == [cmd |-> "add_workers", num |-> num]
CmdAddFile(n)      == [cmd |-> "add_file", n |-> n]
CmdWaitForServer   == [cmd |-> "wait_for_server"]
CmdExit            == [cmd |-> "exit"]

(* A negative number of workers adds none, as 0 does.                      *)
Command ==
    [cmd : {"add_workers"}, num : Nat] \cup [cmd : {"add_file"}, n : Nat]
        \cup {CmdWaitForServer, CmdExit}

ASSUME ManagerAssumption == Scripts \subseteq Seq(Command)

ManagerInit ==
    /\ m2s = <<>>
    /\ m_pc = "cmd"
    /\ m_script \in Scripts
    /\ m_input = m_script
    /\ m_once = TRUE
    /\ default_cmds = <<>>
    /\ m_toadd = 0
    /\ m_running = TRUE
    /\ m_solution_found = FALSE
    /\ statistic = [started |-> 0, solved |-> 0]
    /\ workers = <<>>

Tell(msg) == m2s' = Append(m2s, msg)

-----------------------------------------------------------------------------
(* The command cmd_* functions.                                            *)

(* add_workers adds one worker after the other, ADD_WORKERS for each, and  *)
(* does not look at the server's commands in between.                      *)
AddNextWorker ==
    /\ m_pc = "add"
    /\ IF m_toadd > 0 THEN Tell(AddWorkers) /\ m_pc' = "add1"
                      ELSE UNCHANGED m2s /\ m_pc' = "poll"
    /\ UNCHANGED <<input_vars, default_cmds, m_toadd, m_running,
                   m_solution_found, statistic, workers, s2w, s2m>>

(* Once a solution is known no more work and no more workers are added.    *)
Skipped(cmd) == m_solution_found /\ cmd.cmd \in {"add_workers", "add_file"}

(* do_exit and the end of the main loop.                                   *)
StopServer ==
    /\ Tell(TerminateServer)
    /\ m_running' = FALSE
    /\ m_pc' = "poll"

Perform(cmd) ==
    \/ /\ Skipped(cmd)
       /\ m_pc' = "poll"
       /\ UNCHANGED <<m2s, m_toadd, m_running>>
    \/ /\ ~Skipped(cmd) /\ cmd.cmd = "add_workers"
       /\ m_toadd' = cmd.num
       /\ m_pc' = "add"
       /\ UNCHANGED <<m2s, m_running>>
    \/ /\ ~Skipped(cmd) /\ cmd.cmd = "add_file"
       /\ Tell(AddFile(cmd.n))
       /\ m_pc' = "poll"
       /\ UNCHANGED <<m_toadd, m_running>>
    \/ /\ cmd.cmd = "wait_for_server"
       /\ m_pc' = "wait"
       /\ UNCHANGED <<m2s, m_toadd, m_running>>
    \/ /\ cmd.cmd = "exit"
       /\ StopServer
       /\ UNCHANGED m_toadd

(* The manager's own commands come before those on standard input.         *)
NextCommand ==
    /\ m_pc = "cmd"
    /\ IF default_cmds # <<>>
       THEN /\ Perform(Head(default_cmds))
            /\ default_cmds' = Tail(default_cmds)
            /\ UNCHANGED m_input
       ELSE /\ m_input # <<>>
            /\ Perform(Head(m_input))
            /\ m_input' = Tail(m_input)
            /\ UNCHANGED default_cmds
    /\ UNCHANGED <<m_script, m_once, m_solution_found, statistic, workers, s2w,
                   s2m>>

(* The first end of file rewinds the input; after the second one getline   *)
(* fails for ever and the manager never leaves the loop around it.         *)
Rewind ==
    /\ m_pc = "cmd"
    /\ default_cmds = <<>> /\ m_input = <<>> /\ m_once
    /\ m_input' = m_script
    /\ m_once' = FALSE
    /\ UNCHANGED <<m2s, m_pc, m_script, default_cmds, m_toadd, m_running,
                   m_solution_found, statistic, workers, s2w, s2m>>

-----------------------------------------------------------------------------
(* Commands of the server.                                                 *)

(* FOUND_SOLUTION, SEND_STATISTICS and DISCONNECT.                         *)
ProcessServerCommand ==
    /\ s2m # <<>>
    /\ s2m' = Tail(s2m)
    /\ LET msg == Head(s2m) IN
       /\ m_solution_found' = (m_solution_found \/ msg.tag = "FOUND_SOLUTION")
       /\ statistic' = IF msg.tag = "SEND_STATISTICS"
                       THEN [started |-> statistic.started + msg.started,
                             solved  |-> statistic.solved + msg.solved]
                       ELSE statistic
    /\ UNCHANGED s2w

(* What the manager tells itself to do after the message it polled.        *)
Reaction(tag) ==
    CASE tag = "FOUND_SOLUTION" -> <<CmdWaitForServer>>
      [] tag = "DISCONNECT"     -> <<CmdExit>>
      [] OTHER                  -> <<>>

CmdOrBye == IF m_running THEN "cmd" ELSE "bye"

Poll ==
    /\ m_pc = "poll"
    /\ m_pc' = CmdOrBye
    /\ IF s2m # <<>>
       THEN /\ ProcessServerCommand
            /\ default_cmds' = Reaction(Head(s2m).tag) \o default_cmds
       ELSE UNCHANGED <<default_cmds, m_solution_found, statistic, s2w, s2m>>
    /\ UNCHANGED <<m2s, input_vars, m_toadd, m_running, workers>>

(* wait_for_server: everything up to DISCONNECT, then as exit.             *)
WaitForServer ==
    /\ m_pc = "wait"
    /\ ProcessServerCommand
    /\ IF Head(s2m).tag = "DISCONNECT" THEN StopServer
       ELSE UNCHANGED <<m2s, m_pc, m_running>>
    /\ UNCHANGED <<input_vars, default_cmds, m_toadd, workers>>

-----------------------------------------------------------------------------
(* Barriers and the spawning of workers.                                   *)

SpawnWorker(w) ==
    /\ m_pc = "spawn"
    /\ workers' = Append(workers, w)
    /\ m_pc' = "add2"
    /\ UNCHANGED <<m2s, input_vars, default_cmds, m_toadd, m_running,
                   m_solution_found, statistic, s2w, s2m>>

(* The manager's side of a barrier with the server.                        *)
PassServerBarrier ==
    /\ \/ /\ m_pc = "add1"
          /\ m_pc' = "spawn"
          /\ UNCHANGED m_toadd
       \/ /\ m_pc = "add2"
          /\ m_pc' = "add"
          /\ m_toadd' = m_toadd - 1
       \/ /\ m_pc = "bye"
          /\ m_pc' = IF workers = <<>> THEN "gone" ELSE "bye_workers"
          /\ UNCHANGED m_toadd
    /\ UNCHANGED <<m2s, input_vars, default_cmds, m_running, m_solution_found,
                   statistic, workers>>

(* The manager's side of the barriers with the workers, in order.          *)
PassWorkerBarrier ==
    /\ m_pc = "bye_workers"
    /\ workers' = Tail(workers)
    /\ m_pc' = IF workers' = <<>> THEN "gone" ELSE "bye_workers"
    /\ UNCHANGED <<m2s, input_vars, default_cmds, m_toadd, m_running,
                   m_solution_found, statistic, s2w, s2m>>
=============================================================================
