----------------------------- MODULE CnfSharing -----------------------------
(***************************************************************************)
(* The formula object that the tasks of a job share                        *)
(* (USE_CNF_MULTITHREAD_SHARING, config.hpp:49): the main thread of a      *)
(* worker creates it and calls initialize() on it, pushes the tasks, and   *)
(* each solver thread that executes one of them calls initialize() again   *)
(* before it uses the formula without any lock.                            *)
(*                                                                         *)
(* initialize() tests under init_mutex whether there are clauses already,  *)
(* and if not it clears, reads and lays out without the mutex, which it    *)
(* unlocks at the end although it does not hold it.  A formula that has no *)
(* clauses, because every line is always true, is read again by every      *)
(* task, while others use it.  CnfFormula models what is read; here a line *)
(* stands for one occurrence of a literal.                                 *)
(***************************************************************************)
EXTENDS Integers, SequencesExt, FiniteSets

CONSTANTS
    Main,            \* the thread that talks to the server
    Thread,          \* the solver threads
    Files,           \* what may be read: [num_vars, lines]
    Instances        \* num_instances_to_start of the job

Line == {"clause", "always_true", "unusable"}

ASSUME CnfSharingAssumption ==
    /\ Main \notin Thread
    /\ Files \subseteq [num_vars : Nat \ {0}, lines : Seq(Line)]
    /\ Instances \in Nat \ {0}

VARIABLES
    file,
    tasks,           \* tasks pushed and not taken yet
    num_variables, clauses, occurrence_offset, clauses_with_vars,
    init_mutex,      \* the threads that hold it, at most one
    pc,
    num_read,        \* by thread: lines of the file read
    dpi              \* by thread: num_vars and num_clauses of its task

formula == <<num_variables, clauses, occurrence_offset, clauses_with_vars>>

vars == <<file, tasks, formula, init_mutex, pc, num_read, dpi>>

NoInfo == [num_vars |-> 0, num_clauses |-> 0]

Init ==
    /\ file \in Files
    /\ tasks = 0
    /\ num_variables = 0
    /\ clauses = <<>>
    /\ occurrence_offset = 0
    /\ clauses_with_vars = <<>>
    /\ init_mutex = {}
    /\ pc = [t \in Thread \cup {Main} |->
               IF t = Main THEN "initialize" ELSE "poll"]
    /\ num_read = [t \in Thread \cup {Main} |-> 0]
    /\ dpi = [t \in Thread |-> NoInfo]

GoTo(t, place) == pc' = [pc EXCEPT ![t] = place]

AfterInitialize(t) == IF t = Main THEN "push" ELSE "use"

-----------------------------------------------------------------------------
(* cnf_formula::initialize.                                                *)

Lock(t) ==
    /\ pc[t] = "initialize" /\ init_mutex = {}
    /\ init_mutex' = {t}
    /\ GoTo(t, "test")
    /\ UNCHANGED <<file, tasks, formula, num_read, dpi>>

MutantIsInitialized == FALSE

IsInitialized == clauses # <<>>

(* The lock_guard ends with the test.                                      *)
Test(t) ==
    /\ pc[t] = "test"
    /\ init_mutex' = {}
    /\ GoTo(t, IF IsInitialized THEN AfterInitialize(t) ELSE "clear")
    /\ UNCHANGED <<file, tasks, formula, num_read, dpi>>

Clear(t) ==
    /\ pc[t] = "clear"
    /\ clauses' = <<>>
    /\ num_read' = [num_read EXCEPT ![t] = 0]
    /\ GoTo(t, "read")
    /\ UNCHANGED <<file, tasks, num_variables, occurrence_offset,
                   clauses_with_vars, init_mutex, dpi>>

LinesLeft(t) == num_read[t] < Len(file.lines)

NextLine(t) == file.lines[num_read[t] + 1]

ReadLine(t) ==
    /\ pc[t] = "read" /\ LinesLeft(t) /\ NextLine(t) # "unusable"
    /\ num_read' = [num_read EXCEPT ![t] = @ + 1]
    /\ clauses' = IF NextLine(t) = "always_true" THEN clauses
                  ELSE Append(clauses, num_read[t] + 1)
    /\ UNCHANGED <<file, tasks, num_variables, occurrence_offset,
                   clauses_with_vars, init_mutex, pc, dpi>>

(* An exception.  create_tasks lets it through and the process ends;       *)
(* task::execute catches it.                                               *)
Throw(t) ==
    /\ pc[t] = "read" /\ LinesLeft(t) /\ NextLine(t) = "unusable"
    /\ GoTo(t, IF t = Main THEN "failed" ELSE "poll")
    /\ UNCHANGED <<file, tasks, formula, init_mutex, num_read, dpi>>

(* The result of read() is assigned.                                       *)
EndOfFile(t) ==
    /\ pc[t] = "read" /\ ~LinesLeft(t)
    /\ num_variables' = file.num_vars
    /\ GoTo(t, "layout")
    /\ UNCHANGED <<file, tasks, clauses, occurrence_offset, clauses_with_vars,
                   init_mutex, num_read, dpi>>

MutantCounted(t) == occurrence_offset + num_read[t]

(* The sizes come from what this thread counted, clause lines and others,  *)
(* in a vector of its own.                                                 *)
Counted(t) == num_read[t]

LayOut(t) ==
    /\ pc[t] = "layout"
    /\ occurrence_offset' = Counted(t)
    /\ clauses_with_vars' =
          [slot \in 1 .. Counted(t) |->
              IF slot \in DOMAIN clauses_with_vars THEN clauses_with_vars[slot]
              ELSE 0]
    /\ GoTo(t, "fill")
    /\ UNCHANGED <<file, tasks, num_variables, clauses, init_mutex, num_read,
                   dpi>>

Fill(t) ==
    /\ pc[t] = "fill"
    /\ clauses_with_vars' =
          [slot \in DOMAIN clauses_with_vars |->
              IF slot \in DOMAIN clauses THEN slot ELSE clauses_with_vars[slot]]
    /\ GoTo(t, "unlock")
    /\ UNCHANGED <<file, tasks, num_variables, clauses, occurrence_offset,
                   init_mutex, num_read, dpi>>

(* Whoever holds the mutex, it is free afterwards.                         *)
Unlock(t) ==
    /\ pc[t] = "unlock"
    /\ init_mutex' = {}
    /\ GoTo(t, AfterInitialize(t))
    /\ UNCHANGED <<file, tasks, formula, num_read, dpi>>

Initialize(t) ==
    \/ Lock(t) \/ Test(t) \/ Clear(t) \/ ReadLine(t) \/ Throw(t)
    \/ EndOfFile(t) \/ LayOut(t) \/ Fill(t) \/ Unlock(t)

-----------------------------------------------------------------------------
MutantReadyToPush == pc[Main] = "initialize"

(* create_tasks goes on when the formula is read                           *)
(* (USE_FIX_CNF_GLOBAL_INPUT_READING, config.hpp:56).                      *)
ReadyToPush == pc[Main] = "push"

PushTasks ==
    /\ ReadyToPush
    /\ tasks' = Instances
    /\ GoTo(Main, "pushed")
    /\ UNCHANGED <<file, formula, init_mutex, num_read, dpi>>

(* get_task, then task::execute up to its call of initialize().            *)
TakeTask(t) ==
    /\ pc[t] = "poll" /\ tasks > 0
    /\ tasks' = tasks - 1
    /\ dpi' = [dpi EXCEPT ![t] = NoInfo]
    /\ GoTo(t, "initialize")
    /\ UNCHANGED <<file, formula, init_mutex, num_read>>

(* task::execute asks the formula for its size and starts to solve.        *)
StartSolving(t) ==
    /\ pc[t] = "use"
    /\ dpi' = [dpi EXCEPT ![t] = [num_vars    |-> num_variables,
                                  num_clauses |-> Len(clauses)]]
    /\ GoTo(t, "solve")
    /\ UNCHANGED <<file, tasks, formula, init_mutex, num_read>>

FinishTask(t) ==
    /\ pc[t] = "solve"
    /\ GoTo(t, "poll")
    /\ UNCHANGED <<file, tasks, formula, init_mutex, num_read, dpi>>

MainThread == Initialize(Main) \/ PushTasks

SolverThread(t) ==
    Initialize(t) \/ TakeTask(t) \/ StartSolving(t) \/ FinishTask(t)

(* Every task is done, or the process has ended.                           *)
Stopped ==
    \/ pc[Main] = "failed"
    \/ /\ pc[Main] = "pushed" /\ tasks = 0
       /\ \A t \in Thread : pc[t] = "poll"

Next ==
    \/ MainThread
    \/ \E t \in Thread : SolverThread(t)
    \/ Stopped /\ UNCHANGED vars

Spec == Init /\ [][Next]_vars

-----------------------------------------------------------------------------
Places == {"poll", "initialize", "test", "clear", "read", "layout", "fill",
           "unlock", "use", "solve", "push", "pushed", "failed"}

TypeOK ==
    /\ file \in Files
    /\ tasks \in 0 .. Instances
    /\ num_variables \in {0, file.num_vars}
    /\ occurrence_offset \in 0 .. Len(file.lines)
    /\ ToSet(clauses) \subseteq DOMAIN file.lines
    /\ clauses_with_vars \in Seq(0 .. Len(file.lines))
    /\ init_mutex \in {{}} \cup {{t} : t \in Thread \cup {Main}}
    /\ pc \in [Thread \cup {Main} -> Places]
    /\ num_read \in [Thread \cup {Main} -> 0 .. Len(file.lines)]

(* What the formula is when the whole file has been read once: its clause  *)
(* lines, each of them once and in their order.                            *)
ClauseLines == {i \in DOMAIN file.lines : file.lines[i] = "clause"}

InOrder(s) == \A i, j \in DOMAIN s : i < j => s[i] < s[j]

WholeFormula ==
    /\ num_variables = file.num_vars
    /\ ToSet(clauses) = ClauseLines /\ InOrder(clauses)
    /\ occurrence_offset = Len(file.lines)
    /\ Len(clauses_with_vars) = Len(file.lines)
    /\ \A i \in DOMAIN clauses : clauses_with_vars[i] = i

(* A thread solves with the whole formula from the moment it asks for its  *)
(* size until its task is done, whatever the threads beside it do that     *)
(* find the formula empty and read it again; and the sizes it reports to   *)
(* the server are the formula's.                                           *)
UsesWholeFormula ==
    \A t \in Thread :
        /\ pc[t] \in {"use", "solve"} => WholeFormula
        /\ pc[t] = "solve" =>
               dpi[t] = [num_vars    |-> file.num_vars,
                         num_clauses |-> Cardinality(ClauseLines)]

(* The content of a formula that tasks exist for is never written again    *)
(* with anything else, between two tasks neither: the writes of a thread   *)
(* that reads it again all store what is there already.                    *)
SharedIsConstant == [][pc[Main] = "pushed" => UNCHANGED formula]_vars
=============================================================================
