------------------------------- MODULE Solver -------------------------------
(***************************************************************************)
(* The two programs that run a serial_instance.                            *)
(*                                                                         *)
(* "task": task::execute (worker_task.hpp) reads the formula, chooses a    *)
(* random assignment and flips until no clause is unsatisfied, max_flips   *)
(* are done, or another thread has cleared `running`.                      *)
(*                                                                         *)
(* "probsat": the program for one machine (probsat.cpp).  It makes         *)
(* num_iterations attempts, each from a new random assignment in the same  *)
(* bitfield, of max_flips flips each (0: as many as it takes), and it may  *)
(* print the solution.                                                     *)
(***************************************************************************)
EXTENDS SerialInstance

CONSTANTS
    SettingsFor(_),  \* for a file: [program, max_flips, num_iterations, print]
    FlipBound        \* flips that are looked at when max_flips is 0

(* Both numbers are unsigned in the programs, and a task makes one attempt;*)
(* probsat started for no attempt at all only reads the formula.           *)
ASSUME SolverAssumption ==
    /\ FlipBound \in Nat
    /\ \A f \in Files : \A s \in SettingsFor(f) :
           /\ s.program \in {"task", "probsat"}
           /\ s.max_flips \in Nat
           /\ s.num_iterations \in Nat \ {0}
           /\ s.program = "task" => s.num_iterations = 1

VARIABLES
    settings,
    configuration,   \* the bitfield of main in probsat.cpp
    iteration,
    result,          \* dpi.solved, or whether probsat says SATISFIABLE
    printed          \* the numbers after "v"

solver_vars == <<settings, configuration, iteration, result, printed>>

vars == <<cnf_vars, pc, instance_vars, solver_vars>>

(* task::execute does not look at its own copy again: it is not kept.      *)
NotKept == "not kept"

Init ==
    /\ CnfInit
    /\ InstanceInit
    /\ settings \in SettingsFor(file)
    /\ configuration = NotKept
    /\ iteration = 1
    /\ result = "none"
    /\ printed = <<>>

(* Random values are assigned to the bits of a new bitfield, in probsat's  *)
(* later iterations to those of the old one.                               *)
Configure ==
    /\ \/ pc = "fill" /\ num_filled = Len(clauses)
       \/ pc = "again"
    /\ \E b \in IF iteration = 1 THEN NewBitfields(file.num_vars)
                ELSE {configuration} :
          \E values \in [Variables -> BOOLEAN] :
             /\ Construct(AssignAll(b, values))
             /\ configuration' = IF settings.program = "task" THEN NotKept
                                 ELSE AssignAll(b, values)
    /\ pc' = "while"
    /\ UNCHANGED <<settings, iteration, result, printed>>

MutantFlipsLeft(n) == settings.max_flips = 0 \/ n <= settings.max_flips

(* max_flips is compared after each flip, never before the first.          *)
FlipsLeft(n) == settings.max_flips = 0 \/ n < settings.max_flips

(* A task looks at `running` too, which another thread may have cleared.   *)
AfterFlip ==
    /\ MakeDone
    /\ \/ pc' = "while" /\ FlipsLeft(num_flips_done')
       \/ /\ pc' = "stop"
          /\ settings.program = "task" \/ ~FlipsLeft(num_flips_done')
    /\ UNCHANGED solver_vars

Flip ==
    /\ \/ DoFlip /\ (settings.max_flips = 0 => num_flips_done < FlipBound)
       \/ BreakClause \/ BreakDone \/ MakeClause
    /\ UNCHANGED solver_vars

(* belegung[i] ? i : -i, for i from 0, of the bitfield that is main's.     *)
PrintedConfiguration ==
    [v \in Variables |-> IF Get(configuration, v) THEN v - 1 ELSE 1 - v]

Solved ==
    /\ pc \in {"while", "stop"} /\ FoundSolution
    /\ result' = "solved"
    /\ printed' = IF settings.print THEN PrintedConfiguration ELSE printed
    /\ pc' = "done"
    /\ UNCHANGED <<cnf_vars, instance_vars, settings, configuration, iteration>>

Unsolved ==
    /\ pc = "stop" /\ ~FoundSolution
    /\ IF iteration < settings.num_iterations
       THEN /\ iteration' = iteration + 1
            /\ pc' = "again"
            /\ UNCHANGED result
       ELSE /\ result' = "unsolved"
            /\ pc' = "done"
            /\ UNCHANGED iteration
    /\ UNCHANGED <<cnf_vars, instance_vars, settings, configuration, printed>>

Next ==
    \/ ReadFormula /\ UNCHANGED <<instance_vars, solver_vars>>
    \/ Configure \/ Flip \/ AfterFlip
    \/ Solved \/ Unsolved

Spec == Init /\ [][Next]_vars

-----------------------------------------------------------------------------
TypeOK ==
    /\ pc \in {"read", "fill", "failed", "while", "break", "make", "stop",
               "again", "done"}
    /\ clauses \in Seq(Seq(Literals))
    /\ \A slot \in DOMAIN clauses_with_vars :
           clauses_with_vars[slot] \in 1 .. Len(file.lines)
    /\ todo \in Seq(AllClauses)
    /\ unsat_clauses \in Seq(AllClauses)
    /\ num_flips_done \in
           0 .. (IF settings.max_flips = 0 THEN FlipBound ELSE settings.max_flips)
    /\ Solving => /\ belegung.bits \in [Variables -> BOOLEAN]
                  /\ belegung.last_mod_index \in Variables
                  /\ belegung.last_mod_value \in BOOLEAN
    /\ iteration \in 1 .. settings.num_iterations
    /\ result \in {"none", "solved", "unsolved"}

(* The program is a walk over assignments, each step flipping a variable   *)
(* of an unsatisfied line, with num_iterations fresh starts at most, and a *)
(* result "solved" comes with an assignment that satisfies every line of   *)
(* the file, the dropped ones included.                                    *)
StartsMade == IF pc \in {"read", "fill", "failed", "again"} THEN iteration - 1
              ELSE iteration

W == INSTANCE Walk
     WITH belegung <- ValueOf(belegung),
          starts   <- settings.num_iterations - StartsMade,
          result   <- IF pc = "failed" THEN "failed" ELSE result

ImplementsWalk == W!Spec

-----------------------------------------------------------------------------
(* assert(solver.check_assignment()), worker_task.hpp:184.                 *)
SolvedIsSatisfied ==
    result = "solved" => Unsatisfied(ValueOf(belegung)) = {}

(* "if a solution is found, print its configuration" (probsat.hpp:81): the *)
(* sign of the number printed for a variable is its value in the solution. *)
(* The number for the first variable is 0 and has no sign.                 *)
PrintedIsSolution ==
    printed # <<>> =>
        \A v \in Variables \ {1} : (printed[v] > 0) = Get(belegung, v)
=============================================================================
