-------------------------- MODULE CnfSharing_proofs --------------------------
(***************************************************************************)
(* A formula that tasks share is never written with anything new, for any  *)
(* file, any number of solver threads and any number of tasks.             *)
(*                                                                         *)
(* The argument does not rest on init_mutex, which protects a test only.   *)
(* It rests on the main thread having read the file to its end before it   *)
(* pushes a task: from then on a thread finds the formula empty only if    *)
(* the file has no clause line, and then what it writes is what is there.  *)
(***************************************************************************)
EXTENDS CnfSharing, Data_proofs, FunctionTheorems

Length == Len(file.lines)

(* The first n lines hold no clause.                                       *)
NoClauseIn(n) == \A i \in 1 .. n : file.lines[i] # "clause"

Types ==
    /\ file \in Files
    /\ pc \in [Thread \cup {Main} -> Places]
    /\ num_read \in [Thread \cup {Main} -> 0 .. Length]
    /\ clauses \in Seq(Nat)

(* Nobody but the main thread is there until the tasks are pushed.         *)
AloneFirst ==
    /\ \A t \in Thread : pc[t] \notin {"push", "pushed", "failed"}
    /\ pc[Main] \notin {"poll", "use", "solve"}
    /\ pc[Main] # "pushed" => tasks = 0 /\ \A t \in Thread : pc[t] = "poll"

(* How far the main thread is.                                             *)
MainHasRead ==
    /\ pc[Main] \in {"initialize", "test"} => clauses = <<>>
    /\ pc[Main] = "read" /\ clauses = <<>> => NoClauseIn(num_read[Main])
    /\ pc[Main] \in {"layout", "fill", "unlock", "push", "pushed"} =>
           /\ num_read[Main] = Length
           /\ num_variables = file.num_vars
           /\ clauses = <<>> => NoClauseIn(Length)
    /\ pc[Main] \in {"fill", "unlock", "push", "pushed"} =>
           /\ occurrence_offset = Length
           /\ clauses_with_vars = [i \in 1 .. Length |-> clauses_with_vars[i]]

(* A thread that reads the formula again found no clauses, and there are   *)
(* still none.                                                             *)
AgainOnlyIfEmpty ==
    \A t \in Thread :
        /\ pc[t] \in {"clear", "read", "layout", "fill", "unlock"} =>
               clauses = <<>>
        /\ pc[t] = "layout" => num_read[t] = Length

IInv == Types /\ AloneFirst /\ MainHasRead /\ AgainOnlyIfEmpty

-----------------------------------------------------------------------------
(* A file has a number of lines, each of which is a clause, one that is    *)
(* always true or unusable (parse_clause).                                 *)
LEMMA FileFacts ==
    ASSUME file \in Files
    PROVE  /\ Length \in Nat
           /\ \A i \in 1 .. Length :
                  file.lines[i] \in {"clause", "always_true", "unusable"}
<1>1. file.lines \in Seq({"clause", "always_true", "unusable"})
  BY CnfSharingAssumption DEF Line
<1> QED  BY <1>1 DEF Length

(* A worker starts with no formula read and none shared.                   *)
LEMMA InitIInv == Init => IInv
<1> SUFFICES ASSUME Init PROVE IInv
  OBVIOUS
<1>1. Length \in Nat
  BY FileFacts DEF Init
<1>2. Types
  BY <1>1 DEF Init, Types, Places
<1>3. AloneFirst
  BY CnfSharingAssumption DEF Init, AloneFirst
<1>4. MainHasRead
  BY DEF Init, MainHasRead
<1>5. AgainOnlyIfEmpty
  BY CnfSharingAssumption DEF Init, AgainOnlyIfEmpty
<1> QED  BY <1>2, <1>3, <1>4, <1>5 DEF IInv

(* Once tasks exist, every step writes what is there.                      *)
LEMMA StepKeepsShared ==
    IInv /\ [Next]_vars => (pc[Main] = "pushed" => UNCHANGED formula)
<1> SUFFICES ASSUME IInv, [Next]_vars, pc[Main] = "pushed"
             PROVE  UNCHANGED formula
  OBVIOUS
<1> USE DEF formula
<1>1. CASE UNCHANGED vars
  BY <1>1 DEF vars
<1>2. CASE MainThread
  BY <1>2 DEF MainThread, Initialize, Lock, Test, Clear, ReadLine, Throw,
              EndOfFile, LayOut, Fill, Unlock, PushTasks, ReadyToPush
<1>3. ASSUME NEW t \in Thread, SolverThread(t)
      PROVE  UNCHANGED formula
  <2>1. CASE Lock(t) \/ Test(t) \/ Throw(t) \/ Unlock(t) \/ TakeTask(t)
             \/ StartSolving(t) \/ FinishTask(t)
    BY <2>1 DEF Lock, Test, Throw, Unlock, TakeTask, StartSolving, FinishTask
  <2>2. CASE Clear(t)
    BY <2>2 DEF Clear, IInv, AgainOnlyIfEmpty
  <2>3. CASE ReadLine(t)
    <3>1. clauses = <<>> /\ NoClauseIn(Length)
      BY <2>3 DEF ReadLine, IInv, AgainOnlyIfEmpty, MainHasRead
    <3>2. num_read[t] + 1 \in 1 .. Length
      BY <2>3, FileFacts DEF ReadLine, LinesLeft, IInv, Types, Length
    <3>3. NextLine(t) = "always_true"
      BY <2>3, <3>1, <3>2, FileFacts
         DEF ReadLine, NextLine, NoClauseIn, IInv, Types
    <3> QED  BY <2>3, <3>3 DEF ReadLine
  <2>4. CASE EndOfFile(t)
    BY <2>4 DEF EndOfFile, IInv, MainHasRead
  <2>5. CASE LayOut(t)
    <3>1. num_read[t] = Length
      BY <2>5 DEF LayOut, IInv, AgainOnlyIfEmpty
    <3>2. /\ occurrence_offset = Length
          /\ clauses_with_vars = [i \in 1 .. Length |-> clauses_with_vars[i]]
      BY DEF IInv, MainHasRead
    <3>3. DOMAIN clauses_with_vars = 1 .. Length
      BY <3>2
    <3>4. clauses_with_vars' = [i \in 1 .. Length |-> clauses_with_vars[i]]
      BY <2>5, <3>1, <3>3 DEF LayOut, Counted
    <3> QED  BY <2>5, <3>1, <3>2, <3>4 DEF LayOut, Counted
  <2>6. CASE Fill(t)
    <3>1. clauses = <<>>
      BY <2>6 DEF Fill, IInv, AgainOnlyIfEmpty
    <3>2. DOMAIN clauses = {}
      BY <3>1
    <3>3. clauses_with_vars = [i \in 1 .. Length |-> clauses_with_vars[i]]
      BY DEF IInv, MainHasRead
    <3>4. DOMAIN clauses_with_vars = 1 .. Length
      BY <3>3
    <3>5. clauses_with_vars' = [i \in 1 .. Length |-> clauses_with_vars[i]]
      BY <2>6, <3>2, <3>4 DEF Fill
    <3> QED  BY <2>6, <3>3, <3>5 DEF Fill
  <2> QED  BY <1>3, <2>1, <2>2, <2>3, <2>4, <2>5, <2>6
           DEF SolverThread, Initialize
<1> QED  BY <1>1, <1>2, <1>3 DEF Next

-----------------------------------------------------------------------------
(* The main thread, up to the push: the solver threads have nothing to do. *)
LEMMA MainKeepsIInv == IInv /\ MainThread => IInv'
<1> SUFFICES ASSUME IInv, MainThread PROVE IInv'
  OBVIOUS
<1> USE DEF GoTo, formula
<1>1. pc[Main] # "pushed" /\ Main \notin Thread
  BY CnfSharingAssumption
     DEF MainThread, Initialize, Lock, Test, Clear, ReadLine, Throw, EndOfFile,
         LayOut, Fill, Unlock, PushTasks, ReadyToPush
<1>2. /\ \A t \in Thread : pc[t] = "poll"
      /\ pc \in [Thread \cup {Main} -> Places]
      /\ tasks = 0
      /\ Length \in Nat
  BY <1>1, FileFacts DEF IInv, AloneFirst, Types
<1>3. /\ file' = file /\ Length' = Length
      /\ \A t \in Thread : pc'[t] = "poll"
  BY <1>1, <1>2
     DEF MainThread, Initialize, Lock, Test, Clear, ReadLine, Throw, EndOfFile,
         LayOut, Fill, Unlock, PushTasks, Length
<1>4. AgainOnlyIfEmpty'
  BY <1>3 DEF AgainOnlyIfEmpty
<1>5. CASE Lock(Main) \/ Test(Main) \/ Throw(Main) \/ Unlock(Main)
  <2>1. UNCHANGED <<tasks, formula, num_read>>
    BY <1>5 DEF Lock, Test, Throw, Unlock
  <2>2. /\ pc'[Main] \in {"test", "push", "clear", "failed"}
        /\ pc'[Main] = "test" => pc[Main] = "initialize"
        /\ pc'[Main] = "push" => pc[Main] \in {"test", "unlock"}
        /\ pc[Main] = "test" => (pc'[Main] = "push" => clauses # <<>>)
        /\ pc' \in [Thread \cup {Main} -> Places]
    BY <1>2, <1>5
       DEF Lock, Test, Throw, Unlock, Places, AfterInitialize, IsInitialized
  <2>3. Types' /\ AloneFirst'
    BY <1>2, <1>3, <2>1, <2>2 DEF Types, AloneFirst, IInv
  <2>4. MainHasRead'
    BY <1>3, <2>1, <2>2 DEF MainHasRead, IInv, NoClauseIn
  <2> QED  BY <1>4, <2>3, <2>4 DEF IInv
<1>6. CASE Clear(Main)
  <2>1. Types' /\ AloneFirst'
    BY <1>2, <1>3, <1>6 DEF Clear, Types, AloneFirst, IInv, Places
  <2>2. MainHasRead'
    BY <1>2, <1>3, <1>6 DEF Clear, MainHasRead, NoClauseIn, Types, IInv
  <2> QED  BY <1>4, <2>1, <2>2 DEF IInv
<1>7. CASE ReadLine(Main)
  <2>1. num_read[Main] + 1 \in 1 .. Length
    BY <1>2, <1>7 DEF ReadLine, LinesLeft, Length, IInv, Types
  <2>2. /\ num_read'[Main] = num_read[Main] + 1
        /\ pc'[Main] = "read"
        /\ num_read' \in [Thread \cup {Main} -> 0 .. Length]
    BY <1>7, <2>1 DEF ReadLine, IInv, Types
  <2>3. clauses' \in Seq(Nat)
    BY <1>7, <2>1 DEF ReadLine, IInv, Types
  <2>4. Types' /\ AloneFirst'
    BY <1>2, <1>3, <1>7, <2>2, <2>3 DEF ReadLine, Types, AloneFirst, IInv
  <2>5. clauses' = <<>> => NoClauseIn(num_read[Main] + 1)
    <3> SUFFICES ASSUME clauses' = <<>> PROVE NoClauseIn(num_read[Main] + 1)
      OBVIOUS
    <3>1. clauses = <<>> /\ NextLine(Main) = "always_true"
      BY <1>7, <2>1 DEF ReadLine, IInv, Types
    <3>2. NoClauseIn(num_read[Main])
      BY <1>7, <3>1 DEF ReadLine, IInv, MainHasRead
    <3> QED  BY <2>1, <3>1, <3>2 DEF NoClauseIn, NextLine, IInv, Types
  <2>6. MainHasRead'
    BY <1>3, <2>2, <2>5 DEF MainHasRead, NoClauseIn
  <2> QED  BY <1>4, <2>4, <2>6 DEF IInv
<1>8. CASE EndOfFile(Main)
  <2>1. num_read[Main] = Length
    BY <1>2, <1>8 DEF EndOfFile, LinesLeft, Length, IInv, Types
  <2>2. pc'[Main] = "layout" /\ pc' \in [Thread \cup {Main} -> Places]
    BY <1>2, <1>8 DEF EndOfFile, Places
  <2>3. Types' /\ AloneFirst'
    BY <1>2, <1>3, <1>8, <2>2 DEF EndOfFile, Types, AloneFirst, IInv
  <2>4. MainHasRead'
    BY <1>3, <1>8, <2>1, <2>2 DEF EndOfFile, MainHasRead, NoClauseIn, IInv
  <2> QED  BY <1>4, <2>3, <2>4 DEF IInv
<1>9. CASE LayOut(Main)
  <2>1. num_read[Main] = Length
    BY <1>9 DEF LayOut, IInv, MainHasRead
  <2>2. pc'[Main] = "fill" /\ pc' \in [Thread \cup {Main} -> Places]
    BY <1>2, <1>9 DEF LayOut, Places
  <2>3. Types' /\ AloneFirst'
    BY <1>2, <1>3, <1>9, <2>2 DEF LayOut, Types, AloneFirst, IInv
  <2>4. /\ occurrence_offset' = Length
        /\ clauses_with_vars' =
               [i \in 1 .. Length |-> clauses_with_vars'[i]]
    BY <1>9, <2>1 DEF LayOut, Counted
  <2>5. MainHasRead'
    BY <1>3, <1>9, <2>1, <2>2, <2>4
       DEF LayOut, MainHasRead, NoClauseIn, IInv
  <2> QED  BY <1>4, <2>3, <2>5 DEF IInv
<1>10. CASE Fill(Main)
  <2>1. pc'[Main] = "unlock" /\ pc' \in [Thread \cup {Main} -> Places]
    BY <1>2, <1>10 DEF Fill, Places
  <2>2. Types' /\ AloneFirst'
    BY <1>2, <1>3, <1>10, <2>1 DEF Fill, Types, AloneFirst, IInv
  <2>3. DOMAIN clauses_with_vars = 1 .. Length
    BY <1>10 DEF Fill, IInv, MainHasRead
  <2>4. clauses_with_vars' = [i \in 1 .. Length |-> clauses_with_vars'[i]]
    BY <1>10, <2>3 DEF Fill
  <2>5. MainHasRead'
    BY <1>3, <1>10, <2>1, <2>4 DEF Fill, MainHasRead, NoClauseIn, IInv
  <2> QED  BY <1>4, <2>2, <2>5 DEF IInv
<1>11. CASE PushTasks
  <2>1. pc'[Main] = "pushed" /\ pc' \in [Thread \cup {Main} -> Places]
    BY <1>2, <1>11 DEF PushTasks, Places
  <2>2. Types' /\ AloneFirst'
    BY <1>2, <1>3, <1>11, <2>1 DEF PushTasks, Types, AloneFirst, IInv
  <2>3. MainHasRead'
    BY <1>3, <1>11, <2>1
       DEF PushTasks, ReadyToPush, MainHasRead, NoClauseIn, IInv
  <2> QED  BY <1>4, <2>2, <2>3 DEF IInv
<1> QED  BY <1>5, <1>6, <1>7, <1>8, <1>9, <1>10, <1>11
         DEF MainThread, Initialize

(* A solver thread: the formula stays, and with it what the main thread    *)
(* left; the thread goes on to read only if it finds no clauses.           *)
LEMMA ThreadKeepsIInv ==
    ASSUME IInv, NEW t \in Thread, SolverThread(t)
    PROVE  IInv'
<1> USE DEF GoTo
<1>1. pc[Main] = "pushed" /\ t # Main
  BY CnfSharingAssumption
     DEF SolverThread, Initialize, Lock, Test, Clear, ReadLine, Throw,
         EndOfFile, LayOut, Fill, Unlock, TakeTask, StartSolving, FinishTask,
         IInv, AloneFirst
<1>2. UNCHANGED formula
  BY <1>1, StepKeepsShared DEF Next
<1>3. Length \in Nat /\ pc \in [Thread \cup {Main} -> Places]
  BY FileFacts DEF IInv, Types
<1>4. /\ file' = file /\ Length' = Length
      /\ \A u \in (Thread \cup {Main}) \ {t} :
             pc'[u] = pc[u] /\ num_read'[u] = num_read[u]
      /\ pc' \in [Thread \cup {Main} -> Places]
  BY <1>3
     DEF SolverThread, Initialize, Lock, Test, Clear, ReadLine, Throw,
         EndOfFile, LayOut, Fill, Unlock, TakeTask, StartSolving, FinishTask,
         IInv, Types, Length, AfterInitialize, Places
<1>5. num_read' \in [Thread \cup {Main} -> 0 .. Length]
  <2>1. CASE ReadLine(t)
    BY <1>3, <2>1 DEF ReadLine, LinesLeft, Length, IInv, Types
  <2>2. CASE Clear(t)
    BY <1>3, <2>2 DEF Clear, IInv, Types
  <2>3. CASE ~ReadLine(t) /\ ~Clear(t)
    BY <2>3
       DEF SolverThread, Initialize, Lock, Test, Throw, EndOfFile, LayOut,
           Fill, Unlock, TakeTask, StartSolving, FinishTask, IInv, Types
  <2> QED  BY <2>1, <2>2, <2>3
<1>6. Types'
  BY <1>2, <1>4, <1>5 DEF Types, IInv, formula
<1>7. pc'[t] \notin {"push", "pushed", "failed"}
  BY <1>1, <1>3
     DEF SolverThread, Initialize, Lock, Test, Clear, ReadLine, Throw,
         EndOfFile, LayOut, Fill, Unlock, TakeTask, StartSolving, FinishTask,
         AfterInitialize, IInv, AloneFirst
<1>8. AloneFirst'
  BY <1>1, <1>4, <1>7 DEF AloneFirst, IInv
<1>9. MainHasRead'
  BY <1>1, <1>2, <1>4 DEF MainHasRead, NoClauseIn, IInv, formula
<1>10. /\ pc'[t] \in {"clear", "read", "layout", "fill", "unlock"} =>
              clauses = <<>>
       /\ pc'[t] = "layout" => num_read'[t] = Length
  <2>1. CASE Test(t)
    BY <1>1, <1>3, <2>1 DEF Test, IsInitialized, AfterInitialize
  <2>2. CASE EndOfFile(t)
    BY <1>3, <2>2
       DEF EndOfFile, LinesLeft, Length, IInv, Types, AgainOnlyIfEmpty
  <2>3. CASE ~Test(t) /\ ~EndOfFile(t)
    BY <1>1, <1>3, <2>3
       DEF SolverThread, Initialize, Lock, Clear, ReadLine, Throw, LayOut,
           Fill, Unlock, TakeTask, StartSolving, FinishTask, AfterInitialize,
           IInv, AgainOnlyIfEmpty
  <2> QED  BY <2>1, <2>2, <2>3
<1>11. AgainOnlyIfEmpty'
  BY <1>1, <1>2, <1>4, <1>10 DEF AgainOnlyIfEmpty, IInv, formula
<1> QED  BY <1>6, <1>8, <1>9, <1>11 DEF IInv

(* Every step of the main thread and of the solver threads keeps what is   *)
(* known of references and formulas.                                       *)
LEMMA StepKeepsIInv == IInv /\ [Next]_vars => IInv'
<1> SUFFICES ASSUME IInv, [Next]_vars PROVE IInv'
  OBVIOUS
<1>1. CASE UNCHANGED vars
  BY <1>1 DEF vars, formula, IInv, Types, AloneFirst, MainHasRead,
              AgainOnlyIfEmpty, NoClauseIn, Length
<1> QED  BY <1>1, MainKeepsIInv, ThreadKeepsIInv DEF Next

(* Tasks and formulas stay in step through all that a worker does          *)
(* (create_tasks, get_task, cnf_formula::initialize).                      *)
THEOREM Invariance == Spec => []IInv
<1>1. IInv /\ [Next]_vars => IInv'
  BY StepKeepsIInv
<1> QED  BY InitIInv, <1>1, PTL DEF Spec

(* After the push the content of the formula is constant, though every     *)
(* task calls initialize() and some of them read the file again beside     *)
(* threads that solve.                                                     *)
THEOREM SharedStaysConstant == Spec => SharedIsConstant
<1>1. IInv /\ [Next]_vars => [pc[Main] = "pushed" => UNCHANGED formula]_vars
  BY StepKeepsShared
<1> QED  BY Invariance, <1>1, PTL DEF Spec, SharedIsConstant

-----------------------------------------------------------------------------
(* What the formula is while the main thread reads: the clause lines of    *)
(* the first n lines.                                                      *)
ReadSoFar(n) ==
    /\ clauses \in Seq(1 .. n)
    /\ ToSet(clauses) = {i \in 1 .. n : file.lines[i] = "clause"}
    /\ InOrder(clauses)

MainReads ==
    /\ pc[Main] = "read" => ReadSoFar(num_read[Main])
    /\ pc[Main] \in {"layout", "fill", "unlock", "push", "pushed"} =>
           ReadSoFar(Length)
    /\ pc[Main] \in {"unlock", "push", "pushed"} =>
           \A i \in DOMAIN clauses : clauses_with_vars[i] = i

(* What the solver threads report is right.                                *)
Reported ==
    /\ dpi = [t \in Thread |-> dpi[t]]
    /\ \A t \in Thread : pc[t] = "solve" =>
           dpi[t] = [num_vars    |-> file.num_vars,
                     num_clauses |-> Cardinality(ClauseLines)]

WholeInv == IInv /\ TypeOK /\ MainReads /\ Reported

(* A sequence in order has no element twice, so that it is no longer than  *)
(* the file.                                                               *)
LEMMA OrderedLength ==
    ASSUME NEW n \in Nat, NEW s \in Seq(1 .. n), InOrder(s)
    PROVE  Cardinality(ToSet(s)) = Len(s) /\ Len(s) <= n
<1>1. Len(s) \in Nat /\ DOMAIN s = 1 .. Len(s) /\ \A i \in 1 .. Len(s) : s[i] \in 1 .. n
  OBVIOUS
<1>2. \A i, j \in 1 .. Len(s) : s[i] = s[j] => i = j
  BY <1>1 DEF InOrder
<1>3. s \in Bijection(1 .. Len(s), ToSet(s))
  <2>1. s \in [1 .. Len(s) -> ToSet(s)]
    BY <1>1 DEF ToSet
  <2>2. \A e \in ToSet(s) : \E i \in 1 .. Len(s) : s[i] = e
    BY <1>1 DEF ToSet
  <2>. QED  BY <1>2, <2>1, <2>2, Fun_IsBij
<1>4. \A m \in Nat : IsFiniteSet(1 .. m) /\ Cardinality(1 .. m) = m
  BY FS_Interval
<1>5. /\ IsFiniteSet(1 .. n) /\ Cardinality(1 .. n) = n
      /\ IsFiniteSet(1 .. Len(s)) /\ Cardinality(1 .. Len(s)) = Len(s)
  BY <1>1, <1>4
<1>6. Cardinality(ToSet(s)) = Len(s)
  BY <1>3, <1>5, FS_Bijection, Fun_ExistsBij
<1>7. ToSet(s) \subseteq 1 .. n
  BY <1>1 DEF ToSet
<1>8. Cardinality(ToSet(s)) <= n
  BY <1>5, <1>7, FS_Subset
<1>. QED  BY <1>6, <1>8

(* A clause line that is read goes to the end.                             *)
LEMMA OneLineMore ==
    ASSUME NEW n \in Nat, n < Length, file' = file, ReadSoFar(n), Length \in Nat,
           clauses' = IF file.lines[n + 1] = "clause" THEN Append(clauses, n + 1)
                      ELSE clauses
    PROVE  ReadSoFar(n + 1)'
<1>0. n + 1 \in 1 .. n + 1 /\ 1 .. n + 1 = 1 .. n \cup {n + 1} /\ n + 1 \notin 1 .. n
  OBVIOUS
<1>1. /\ clauses \in Seq(1 .. n) /\ clauses \in Seq(1 .. n + 1)
      /\ Len(clauses) \in Nat /\ DOMAIN clauses = 1 .. Len(clauses)
      /\ \A i \in DOMAIN clauses : clauses[i] \in 1 .. n
  BY <1>0 DEF ReadSoFar
<1>2. CASE file.lines[n + 1] # "clause"
  <2>1. clauses' = clauses
    BY <1>2
  <2>2. {i \in 1 .. n + 1 : file'.lines[i] = "clause"} =
            {i \in 1 .. n : file.lines[i] = "clause"}
    BY <1>0, <1>2
  <2>. QED  BY <1>1, <2>1, <2>2 DEF ReadSoFar, InOrder
<1>3. CASE file.lines[n + 1] = "clause"
  <2>1. /\ clauses' = Append(clauses, n + 1) /\ clauses' \in Seq(1 .. n + 1)
        /\ DOMAIN clauses' = 1 .. Len(clauses) + 1
        /\ clauses'[Len(clauses) + 1] = n + 1
        /\ \A i \in DOMAIN clauses : clauses'[i] = clauses[i]
    BY <1>0, <1>1, <1>3
  <2>2. ToSet(clauses') = ToSet(clauses) \cup {n + 1}
    <3>1. ASSUME NEW e \in ToSet(clauses') PROVE e \in ToSet(clauses) \cup {n + 1}
      BY <1>1, <2>1 DEF ToSet
    <3>2. ASSUME NEW e \in ToSet(clauses) \cup {n + 1} PROVE e \in ToSet(clauses')
      <4>1. CASE e = n + 1
        <5>1. Len(clauses) + 1 \in DOMAIN clauses'
          BY <1>1, <2>1
        <5>. QED  BY <2>1, <4>1, <5>1 DEF ToSet
      <4>2. CASE e \in ToSet(clauses)
        <5>1. PICK i \in DOMAIN clauses : e = clauses[i]
          BY <4>2 DEF ToSet
        <5>2. i \in DOMAIN clauses' /\ clauses'[i] = e
          BY <1>1, <2>1, <5>1
        <5>. QED  BY <5>2 DEF ToSet
      <4>. QED  BY <3>2, <4>1, <4>2
    <3>. QED  BY <3>1, <3>2
  <2>3. {i \in 1 .. n + 1 : file'.lines[i] = "clause"} =
            {i \in 1 .. n : file.lines[i] = "clause"} \cup {n + 1}
    BY <1>0, <1>3
  <2>4. InOrder(clauses')
    BY <1>1, <2>1 DEF InOrder, ReadSoFar
  <2>. QED  BY <2>1, <2>2, <2>3, <2>4 DEF ReadSoFar, InOrder
<1>. QED  BY <1>2, <1>3

(* The main thread reads every line once and fills the segments.           *)
LEMMA MainReadsOn ==
    ASSUME IInv, TypeOK, MainReads, MainThread
    PROVE  MainReads'
<1>. USE DEF GoTo
<1>0. /\ Length \in Nat /\ file' = file /\ Length' = Length
      /\ pc \in [Thread \cup {Main} -> Places]
      /\ num_read \in [Thread \cup {Main} -> 0 .. Length]
  BY FileFacts
     DEF IInv, Types, MainThread, Initialize, Lock, Test, Clear, ReadLine, Throw,
         EndOfFile, LayOut, Fill, Unlock, PushTasks, Length
<1>1. CASE Lock(Main) \/ Throw(Main)
  BY <1>0, <1>1 DEF Lock, Throw, MainReads
<1>2. CASE Test(Main)
  BY <1>0, <1>2 DEF Test, MainReads, IsInitialized, IInv, MainHasRead
<1>3. CASE Clear(Main)
  <2>1. pc'[Main] = "read" /\ num_read'[Main] = 0 /\ clauses' = <<>>
    BY <1>0, <1>3 DEF Clear
  <2>2. ReadSoFar(0)'
    BY <2>1, EmptySeq DEF ReadSoFar, ToSet, InOrder
  <2>. QED  BY <2>1, <2>2 DEF MainReads
<1>4. CASE ReadLine(Main)
  <2>. PICK n : n = num_read[Main]
    OBVIOUS
  <2>1. /\ n \in Nat /\ n < Length /\ pc[Main] = "read" /\ pc'[Main] = "read"
        /\ num_read'[Main] = n + 1
        /\ NextLine(Main) # "unusable"
        /\ clauses' = IF NextLine(Main) = "always_true" THEN clauses
                      ELSE Append(clauses, n + 1)
    BY <1>0, <1>4 DEF ReadLine, LinesLeft, Length
  <2>2. n + 1 \in 1 .. Length
    BY <1>0, <2>1
  <2>3. file.lines[n + 1] \in {"clause", "always_true", "unusable"}
    BY <2>2, FileFacts DEF IInv, Types
  <2>4. clauses' = IF file.lines[n + 1] = "clause" THEN Append(clauses, n + 1)
                   ELSE clauses
    BY <2>1, <2>3 DEF NextLine
  <2>5. ReadSoFar(n)
    BY <2>1 DEF MainReads
  <2>6. ReadSoFar(n + 1)'
    BY <1>0, <2>1, <2>4, <2>5, OneLineMore
  <2>. QED  BY <2>1, <2>6 DEF MainReads, ReadSoFar
<1>5. CASE EndOfFile(Main)
  <2>1. num_read[Main] = Length /\ pc[Main] = "read" /\ pc'[Main] = "layout"
    BY <1>0, <1>5 DEF EndOfFile, LinesLeft, Length
  <2>2. ReadSoFar(Length)'
    BY <1>0, <1>5, <2>1 DEF EndOfFile, MainReads, ReadSoFar
  <2>. QED  BY <2>1, <2>2 DEF MainReads
<1>6. CASE LayOut(Main)
  <2>1. pc[Main] = "layout" /\ pc'[Main] = "fill" /\ clauses' = clauses
    BY <1>0, <1>6 DEF LayOut
  <2>. QED  BY <1>0, <2>1 DEF MainReads, ReadSoFar
<1>7. CASE Fill(Main)
  <2>1. pc[Main] = "fill" /\ pc'[Main] = "unlock" /\ clauses' = clauses
    BY <1>0, <1>7 DEF Fill
  <2>2. ReadSoFar(Length)
    BY <2>1 DEF MainReads
  <2>3. DOMAIN clauses_with_vars = 1 .. Length
    BY <2>1 DEF IInv, MainHasRead
  <2>4. DOMAIN clauses \subseteq 1 .. Length
    <3>1. Len(clauses) <= Length
      BY <1>0, <2>2, OrderedLength DEF ReadSoFar
    <3>2. DOMAIN clauses = 1 .. Len(clauses) /\ Len(clauses) \in Nat
      BY <2>2 DEF ReadSoFar
    <3>. QED  BY <1>0, <3>1, <3>2
  <2>5. \A i \in DOMAIN clauses : clauses_with_vars'[i] = i
    BY <1>7, <2>3, <2>4 DEF Fill
  <2>6. ReadSoFar(Length)'
    BY <1>0, <2>1, <2>2 DEF ReadSoFar
  <2>. QED  BY <2>1, <2>5, <2>6 DEF MainReads
<1>8. CASE Unlock(Main) \/ PushTasks
  <2>1. /\ pc[Main] \in {"unlock", "push"} /\ pc'[Main] \in {"push", "pushed"}
        /\ clauses' = clauses /\ clauses_with_vars' = clauses_with_vars
    BY <1>0, <1>8
       DEF Unlock, PushTasks, ReadyToPush, AfterInitialize, formula
  <2>. QED  BY <1>0, <2>1 DEF MainReads, ReadSoFar
<1>. QED  BY <1>1, <1>2, <1>3, <1>4, <1>5, <1>6, <1>7, <1>8
          DEF MainThread, Initialize

(* Once tasks exist the formula is whole, and so is what is reported.      *)
LEMMA PushedIsWhole ==
    ASSUME IInv, MainReads, pc[Main] \in {"push", "pushed"}
    PROVE  WholeFormula /\ Len(clauses) = Cardinality(ClauseLines)
<1>1. Length \in Nat /\ DOMAIN file.lines = 1 .. Length
  <2>1. file.lines \in Seq({"clause", "always_true", "unusable"})
    BY CnfSharingAssumption DEF Line, IInv, Types
  <2>. QED  BY <2>1 DEF Length
<1>2. ReadSoFar(Length) /\ \A i \in DOMAIN clauses : clauses_with_vars[i] = i
  BY DEF MainReads
<1>3. ToSet(clauses) = ClauseLines /\ InOrder(clauses)
  BY <1>1, <1>2 DEF ReadSoFar, ClauseLines
<1>4. Len(clauses) = Cardinality(ClauseLines)
  BY <1>1, <1>2, <1>3, OrderedLength DEF ReadSoFar
<1>5. /\ num_variables = file.num_vars /\ occurrence_offset = Length
      /\ clauses_with_vars = [i \in 1 .. Length |-> clauses_with_vars[i]]
  BY DEF IInv, MainHasRead
<1>6. Len(clauses_with_vars) = Length
  BY <1>1, <1>5
<1>. QED  BY <1>2, <1>3, <1>4, <1>5, <1>6 DEF WholeFormula, Length

(* At the start no line has been read, and no task has a formula.          *)
LEMMA InitWholeInv == Init => WholeInv
<1>. SUFFICES ASSUME Init PROVE WholeInv
  OBVIOUS
<1>1. IInv
  BY InitIInv
<1>2. TypeOK
  <2>1. Len(file.lines) \in Nat
    BY FileFacts DEF Init, Length
  <2>2. /\ ToSet(clauses) \subseteq DOMAIN file.lines
        /\ clauses_with_vars \in Seq(0 .. Len(file.lines))
    BY EmptySeq DEF Init, ToSet
  <2>. QED  BY <2>1, <2>2, CnfSharingAssumption DEF Init, TypeOK, Places
<1>3. MainReads
  BY DEF Init, MainReads
<1>4. Reported
  BY CnfSharingAssumption DEF Init, Reported
<1>. QED  BY <1>1, <1>2, <1>3, <1>4 DEF WholeInv

(* The main thread keeps the types: initialize() of an empty formula.      *)
LEMMA MainKeepsTypes ==
    ASSUME IInv, TypeOK, MainThread
    PROVE  TypeOK'
<1>. USE DEF GoTo
<1>0. /\ Length \in Nat /\ file' = file /\ DOMAIN file.lines = 1 .. Length
      /\ pc' \in [Thread \cup {Main} -> Places]
      /\ num_read' \in [Thread \cup {Main} -> 0 .. Len(file.lines)]
  <2>1. Types'
    BY MainKeepsIInv DEF IInv
  <2>2. file' = file /\ file \in Files
    BY DEF IInv, Types, MainThread, Initialize, Lock, Test, Clear, ReadLine,
           Throw, EndOfFile, LayOut, Fill, Unlock, PushTasks
  <2>3. file.lines \in Seq({"clause", "always_true", "unusable"})
    BY <2>2, CnfSharingAssumption DEF Line
  <2>. QED  BY <2>1, <2>2, <2>3 DEF Types, Length
<1>1. /\ tasks' \in 0 .. Instances
      /\ init_mutex' \in {{}} \cup {{t} : t \in Thread \cup {Main}}
  <2>1. tasks' \in {tasks, Instances}
    BY DEF MainThread, Initialize, Lock, Test, Clear, ReadLine, Throw,
           EndOfFile, LayOut, Fill, Unlock, PushTasks
  <2>2. init_mutex' \in {init_mutex, {}, {Main}}
    BY DEF MainThread, Initialize, Lock, Test, Clear, ReadLine, Throw,
           EndOfFile, LayOut, Fill, Unlock, PushTasks
  <2>3. Instances \in 0 .. Instances
    BY CnfSharingAssumption
  <2>. QED  BY <2>1, <2>2, <2>3 DEF TypeOK
<1>2. num_variables' \in {0, file.num_vars}
  BY DEF TypeOK, MainThread, Initialize, Lock, Test, Clear, ReadLine, Throw,
         EndOfFile, LayOut, Fill, Unlock, PushTasks, formula
<1>3. occurrence_offset' \in 0 .. Len(file.lines)
  <2>1. num_read[Main] \in 0 .. Len(file.lines)
    BY DEF TypeOK
  <2>. QED
    BY <2>1
       DEF TypeOK, MainThread, Initialize, Lock, Test, Clear, ReadLine, Throw,
           EndOfFile, LayOut, Fill, Unlock, PushTasks, formula, Counted
<1>4. ToSet(clauses') \subseteq DOMAIN file.lines
  <2>1. CASE ReadLine(Main)
    <3>1. num_read[Main] + 1 \in DOMAIN file.lines
      BY <1>0, <2>1 DEF ReadLine, LinesLeft, IInv, Types, Length
    <3>2. clauses \in Seq(Nat) /\ num_read[Main] + 1 \in Nat
      BY <1>0, <3>1 DEF IInv, Types
    <3>3. ToSet(Append(clauses, num_read[Main] + 1)) \subseteq
              ToSet(clauses) \cup {num_read[Main] + 1}
      BY <3>2 DEF ToSet
    <3>4. clauses' \in {clauses, Append(clauses, num_read[Main] + 1)}
      BY <2>1 DEF ReadLine
    <3>. QED  BY <3>1, <3>3, <3>4 DEF TypeOK
  <2>2. CASE Clear(Main)
    BY <2>2 DEF Clear, ToSet
  <2>3. CASE ~ReadLine(Main) /\ ~Clear(Main)
    BY <2>3
       DEF TypeOK, MainThread, Initialize, Lock, Test, Throw, EndOfFile, LayOut,
           Fill, Unlock, PushTasks, formula
  <2>. QED  BY <2>1, <2>2, <2>3
<1>5. clauses_with_vars' \in Seq(0 .. Len(file.lines))
  <2>0. /\ clauses_with_vars \in Seq(0 .. Length)
        /\ DOMAIN clauses_with_vars = 1 .. Len(clauses_with_vars)
        /\ \A i \in DOMAIN clauses_with_vars : clauses_with_vars[i] \in 0 .. Length
    BY DEF TypeOK, Length
  <2>1. CASE LayOut(Main)
    <3>1. num_read[Main] = Length
      BY <2>1 DEF LayOut, IInv, MainHasRead
    <3>2. clauses_with_vars' =
              [slot \in 1 .. Length |->
                  IF slot \in DOMAIN clauses_with_vars
                  THEN clauses_with_vars[slot] ELSE 0]
      BY <2>1, <3>1 DEF LayOut, Counted
    <3>3. \A slot \in 1 .. Length : clauses_with_vars'[slot] \in 0 .. Length
      BY <1>0, <2>0, <3>2
    <3>4. clauses_with_vars' \in [1 .. Length -> 0 .. Length]
      BY <3>2, <3>3
    <3>. QED  BY <1>0, <3>4 DEF Length
  <2>2. CASE Fill(Main)
    <3>1. DOMAIN clauses_with_vars = 1 .. Length
      BY <2>2 DEF Fill, IInv, MainHasRead
    <3>2. clauses_with_vars' =
              [slot \in 1 .. Length |->
                  IF slot \in DOMAIN clauses THEN slot ELSE clauses_with_vars[slot]]
      BY <2>2, <3>1 DEF Fill
    <3>3. \A slot \in 1 .. Length : clauses_with_vars'[slot] \in 0 .. Length
      BY <1>0, <2>0, <3>1, <3>2
    <3>4. clauses_with_vars' \in [1 .. Length -> 0 .. Length]
      BY <3>2, <3>3
    <3>. QED  BY <1>0, <3>4 DEF Length
  <2>3. CASE ~LayOut(Main) /\ ~Fill(Main)
    BY <2>3
       DEF TypeOK, MainThread, Initialize, Lock, Test, Clear, ReadLine, Throw,
           EndOfFile, Unlock, PushTasks, formula
  <2>. QED  BY <2>1, <2>2, <2>3
<1>. QED  BY <1>0, <1>1, <1>2, <1>3, <1>4, <1>5 DEF TypeOK, IInv, Types

(* A solver thread leaves the formula alone and takes tasks that are there. *)
LEMMA ThreadKeepsTypes ==
    ASSUME IInv, TypeOK, NEW t \in Thread, SolverThread(t)
    PROVE  TypeOK'
<1>. USE DEF GoTo
<1>1. pc[Main] = "pushed"
  BY CnfSharingAssumption
     DEF SolverThread, Initialize, Lock, Test, Clear, ReadLine, Throw,
         EndOfFile, LayOut, Fill, Unlock, TakeTask, StartSolving, FinishTask,
         IInv, AloneFirst
<1>2. UNCHANGED formula
  BY <1>1, StepKeepsShared DEF Next
<1>3. Types' /\ file' = file
  <2>1. file' = file
    BY DEF SolverThread, Initialize, Lock, Test, Clear, ReadLine, Throw,
           EndOfFile, LayOut, Fill, Unlock, TakeTask, StartSolving, FinishTask
  <2>. QED  BY <2>1, ThreadKeepsIInv DEF IInv
<1>4. tasks' \in 0 .. Instances
  BY CnfSharingAssumption
     DEF TypeOK, SolverThread, Initialize, Lock, Test, Clear, ReadLine, Throw,
         EndOfFile, LayOut, Fill, Unlock, TakeTask, StartSolving, FinishTask
<1>5. init_mutex' \in {{}} \cup {{u} : u \in Thread \cup {Main}}
  BY DEF TypeOK, SolverThread, Initialize, Lock, Test, Clear, ReadLine, Throw,
         EndOfFile, LayOut, Fill, Unlock, TakeTask, StartSolving, FinishTask
<1>6. file' \in Files /\ pc' \in [Thread \cup {Main} -> Places]
      /\ num_read' \in [Thread \cup {Main} -> 0 .. Len(file'.lines)]
  BY <1>3 DEF Types, Length
<1>. QED  BY <1>2, <1>3, <1>4, <1>5, <1>6 DEF TypeOK, formula

(* Every step keeps the lines that were read in the formula, and in order. *)
LEMMA StepKeepsWholeInv == WholeInv /\ [Next]_vars => WholeInv'
<1>. SUFFICES ASSUME WholeInv, [Next]_vars PROVE WholeInv'
  OBVIOUS
<1>. USE DEF WholeInv, GoTo
<1>1. IInv'
  BY StepKeepsIInv
<1>2. CASE UNCHANGED vars
  <2>1. TypeOK'
    BY <1>2 DEF TypeOK, vars, formula
  <2>2. MainReads'
    BY <1>2 DEF MainReads, ReadSoFar, InOrder, Length, vars, formula
  <2>3. Reported'
    BY <1>2 DEF Reported, ClauseLines, vars
  <2>. QED  BY <1>1, <2>1, <2>2, <2>3
<1>3. CASE MainThread
  <2>1. TypeOK' /\ MainReads'
    BY <1>3, MainKeepsTypes, MainReadsOn
  <2>2. /\ dpi' = dpi /\ file' = file
        /\ \A t \in Thread : pc'[t] = pc[t]
    BY <1>3, CnfSharingAssumption
       DEF MainThread, Initialize, Lock, Test, Clear, ReadLine, Throw, EndOfFile,
           LayOut, Fill, Unlock, PushTasks, TypeOK
  <2>3. Reported'
    BY <2>2 DEF Reported, ClauseLines
  <2>. QED  BY <1>1, <2>1, <2>3
<1>4. ASSUME NEW t \in Thread, SolverThread(t)
      PROVE  WholeInv'
  <2>1. pc[Main] = "pushed" /\ t # Main
    BY <1>4, CnfSharingAssumption
       DEF SolverThread, Initialize, Lock, Test, Clear, ReadLine, Throw,
           EndOfFile, LayOut, Fill, Unlock, TakeTask, StartSolving, FinishTask,
           IInv, AloneFirst
  <2>2. UNCHANGED formula
    BY <2>1, StepKeepsShared
  <2>3. /\ file' = file /\ pc'[Main] = "pushed"
        /\ \A u \in Thread \ {t} : pc'[u] = pc[u]
    BY <1>4, <2>1
       DEF SolverThread, Initialize, Lock, Test, Clear, ReadLine, Throw,
           EndOfFile, LayOut, Fill, Unlock, TakeTask, StartSolving, FinishTask,
           TypeOK
  <2>4. TypeOK'
    BY <1>4, ThreadKeepsTypes
  <2>5. MainReads'
    BY <2>1, <2>2, <2>3 DEF MainReads, ReadSoFar, Length, InOrder, formula
  <2>6. CASE StartSolving(t)
    <3>1. /\ num_variables = file.num_vars
          /\ Len(clauses) = Cardinality(ClauseLines)
      BY <2>1, PushedIsWhole DEF WholeFormula
    <3>2. Reported'
      BY <2>3, <2>6, <3>1 DEF StartSolving, Reported, ClauseLines
    <3>. QED  BY <1>1, <2>4, <2>5, <3>2
  <2>7. CASE TakeTask(t)
    <3>1. pc'[t] = "initialize"
      BY <2>7 DEF TakeTask, TypeOK
    <3>2. Reported'
      BY <2>3, <2>7, <3>1 DEF TakeTask, Reported, ClauseLines
    <3>. QED  BY <1>1, <2>4, <2>5, <3>2
  <2>8. CASE Initialize(t) \/ FinishTask(t)
    <3>1. dpi' = dpi /\ pc'[t] # "solve"
      BY <2>1, <2>8
         DEF Initialize, Lock, Test, Clear, ReadLine, Throw, EndOfFile, LayOut,
             Fill, Unlock, FinishTask, TypeOK, AfterInitialize
    <3>2. Reported'
      BY <2>3, <3>1 DEF Reported, ClauseLines
    <3>. QED  BY <1>1, <2>4, <2>5, <3>2
  <2>. QED  BY <1>4, <2>6, <2>7, <2>8 DEF SolverThread
<1>. QED  BY <1>2, <1>3, <1>4 DEF Next

(* Everything said of the formula in initialize() and of what the solver   *)
(* threads make of it.                                                     *)
THEOREM WholeInvariance == Spec => []WholeInv
<1>1. WholeInv /\ [Next]_vars => WholeInv'
  BY StepKeepsWholeInv
<1>. QED  BY InitWholeInv, <1>1, PTL DEF Spec

(* The arrays of the formula keep their types and hold lines of the file,  *)
(* and init_mutex has one holder at most.                                  *)
THEOREM SharingTypes == Spec => []TypeOK
<1>1. WholeInv => TypeOK
  BY DEF WholeInv
<1>. QED  BY <1>1, WholeInvariance, PTL

(* From task::execute's questions for its size on, a task has the whole    *)
(* formula: all its clause lines, in order, however many threads call      *)
(* initialize() beside it.                                                 *)
THEOREM TasksUseWholeFormula == Spec => []UsesWholeFormula
<1>1. WholeInv => UsesWholeFormula
  <2>. SUFFICES ASSUME WholeInv, NEW t \in Thread, pc[t] \in {"use", "solve"}
                PROVE  /\ WholeFormula
                       /\ pc[t] = "solve" =>
                              dpi[t] = [num_vars    |-> file.num_vars,
                                        num_clauses |-> Cardinality(ClauseLines)]
    BY DEF UsesWholeFormula
  <2>1. pc[Main] = "pushed"
    BY DEF WholeInv, IInv, AloneFirst
  <2>. QED  BY <2>1, PushedIsWhole DEF WholeInv, Reported
<1>. QED  BY <1>1, WholeInvariance, PTL
=============================================================================
