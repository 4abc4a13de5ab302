------------------------------ MODULE MCSolver ------------------------------
(* Solver for TLC: the files it reads, and how often and how long it tries.*)
EXTENDS SolverInv

FilesOver(lines, max) ==
    [num_vars : {3}, lines : UNION {[1 .. n -> lines] : n \in 0 .. max}]

(* Clauses of one to three literals; lines with a literal twice and with a *)
(* variable that does not exist.                                           *)
CleanLines == {<<1>>, <<-1, 2>>, <<-2, 3, 1>>, <<-3, -1>>, <<-3, -2, -1>>}

CleanFiles == FilesOver(CleanLines, 4)
                  \cup {[num_vars |-> 2, lines |-> <<line>>] :
                            line \in {<<1, 1>>, <<3, 1>>, <<-1, -2>>}}

TautologyFiles == FilesOver({<<1, -2>>, <<3, 1>>, <<2, 3>>, <<3, -3>>}, 4)

Task(max_flips) ==
    [program |-> "task", max_flips |-> max_flips, num_iterations |-> 1,
     print |-> FALSE]

Probsat(max_flips, num_iterations) ==
    [program |-> "probsat", max_flips |-> max_flips,
     num_iterations |-> num_iterations, print |-> TRUE]

Tasks(f) == {Task(5)}

(* The second program on the short files, once without a limit of flips.   *)
Both(f) ==
    {Task(5)} \cup (IF Len(f.lines) <= 3 THEN {Probsat(0, 1), Probsat(2, 2)}
                    ELSE {})

PrintingProbsat(f) == {Probsat(5, 1)}
=============================================================================
