----------------------------- MODULE MCCluster ------------------------------
(* Cluster for TLC: the scripts the runs give to the manager.              *)
EXTENDS Cluster, TLC

End == <<CmdWaitForServer, CmdExit>>

(* tests/demo_1.cmd: what there is to do first, then two workers.          *)
FilesFirst == <<CmdAddFile(2), CmdAddWorkers(2)>> \o End

(* tests/demo_2.cmd: two workers, then a file.                             *)
WorkersFirst == <<CmdAddWorkers(2), CmdAddFile(2)>> \o End

(* Two files for one worker.                                               *)
OneWorker == <<CmdAddWorkers(1), CmdAddFile(2), CmdAddFile(1)>> \o End

(* exit without wait_for_server, and neither of the two.                   *)
ExitEarly == <<CmdAddWorkers(1), CmdAddFile(2), CmdExit>>
NoExit    == <<CmdAddFile(1), CmdAddWorkers(1)>>

(* A file and a worker that may come after the others are done.            *)
Late == <<CmdAddFile(1), CmdAddWorkers(1), CmdAddFile(1), CmdAddWorkers(1)>> \o End

(* Nobody to solve the file.                                               *)
NoWorkers == <<CmdAddFile(1), CmdExit>>

AllScripts == {FilesFirst, WorkersFirst, ExitEarly, NoExit, Late, NoWorkers}

OnlyFilesFirst   == {FilesFirst}
OnlyWorkersFirst == {WorkersFirst}
OnlyOneWorker    == {OneWorker}
OnlyExitEarly    == {ExitEarly}

Symmetry == Permutations(Worker)
=============================================================================
