-------------------------- MODULE Scheduler_proofs --------------------------
(***************************************************************************)
(* The counters and the deque of the server are right for any number of    *)
(* files, workers and instances.  None of the properties of Scheduler is   *)
(* inductive alone: that the counters count `out' needs the deque to be    *)
(* exact (else a round of GET_INSTANCES could give out nothing, or too     *)
(* much), and an exact deque needs the counters.  IInv joins the two with  *)
(* the numbering of the instances, which makes what a round gives out      *)
(* disjoint from everything that is out; that the numbering never goes     *)
(* back makes it disjoint from everything that ever was.                   *)
(***************************************************************************)
EXTENDS SchedulerHistory, FiniteSetTheorems, FunctionTheorems, SequenceTheorems, TLAPS

(* Every instance that is out was numbered when it was handed out.         *)
OutNumbered ==
    /\ IsFiniteSet(out)
    /\ \A inst \in out : /\ inst[1] \in DOMAIN available_tasks
                         /\ inst[2] <= Handed(inst[1])

(* GET_INSTANCES looks at solution_found once, before its loop; the server *)
(* handles nothing else in between.                                        *)
ServingUnsolved == MoreToHandOut => ~solution_found

IInv == TypeOK /\ Accounting /\ QueueExact /\ OutNumbered /\ ServingUnsolved

-----------------------------------------------------------------------------
(* A job of num instances is num instances.                                *)
LEMMA JobCardinality ==
    ASSUME NEW t, NEW first \in Int, NEW num \in Nat
    PROVE  /\ IsFiniteSet(InstancesOf(Job(t, first, num)))
           /\ Cardinality(InstancesOf(Job(t, first, num))) = num
<1> DEFINE I == first .. first + num - 1
           J == InstancesOf(Job(t, first, num))
           f == [k \in I |-> <<t, k>>]
<1>1. J = {t} \X I
  BY DEF InstancesOf, Job
<1>2. f \in Bijection(I, J)
  <2>1. f \in [I -> J] /\ \A a, b \in I : f[a] = f[b] => a = b
    BY <1>1
  <2>2. \A j \in J : \E k \in I : f[k] = j
    BY <1>1
  <2>. QED  BY <2>1, <2>2, Fun_IsBij
<1>3. IsFiniteSet(I) /\ Cardinality(I) = num
  <2>1. first + num - 1 \in Int
    OBVIOUS
  <2>. QED  BY <2>1, FS_Interval
<1>4. ExistsBijection(I, J)
  BY <1>2, Fun_ExistsBij
<1>. QED  BY <1>3, <1>4, FS_Bijection

(* Taking one element out of a sequence leaves a sequence.                 *)
LEMMA RemoveAtType ==
    ASSUME NEW S, NEW s \in Seq(S), NEW i \in DOMAIN s
    PROVE  RemoveAt(s, i) \in Seq(S)
<1>1. i \in 1 .. Len(s) /\ Len(s) \in Nat
  BY LenProperties
<1>2. SubSeq(s, 1, i - 1) \in Seq(S) /\ SubSeq(s, i + 1, Len(s)) \in Seq(S)
  <2>1. \A j \in 1 .. Len(s) : s[j] \in S
    BY ElementOfSeq
  <2>. QED  BY <1>1, <2>1, SubSeqProperties
<1>. QED  BY <1>2, ConcatProperties DEF RemoveAt

(* Adding a set of new elements adds its cardinality.                      *)
LEMMA DisjointCardinality ==
    ASSUME NEW S, IsFiniteSet(S), NEW T, IsFiniteSet(T), S \cap T = {}
    PROVE  /\ IsFiniteSet(S \cup T)
           /\ Cardinality(S \cup T) = Cardinality(S) + Cardinality(T)
<1>1. Cardinality(S) \in Nat /\ Cardinality(T) \in Nat
  BY FS_CardinalityType
<1>. QED  BY <1>1, FS_Union, FS_EmptySet

(* What one round of GET_INSTANCES gives out.                              *)
LEMMA NextJobProperties ==
    ASSUME IInv, MoreToHandOut, NEW t, t = Head(task_order)
    PROVE  /\ t \in DOMAIN available_tasks
           /\ available_tasks[t] \in TaskInfo
           /\ available_tasks[t].is_scheduled
           /\ NextJob = Job(t, Handed(t) + 1, NextJob.num)
           /\ Handed(t) \in Nat
           /\ NextJob.num \in Nat \ {0}
           /\ NextJob.num <= reply.left
           /\ available_tasks[t].n = 0 => NextJob.num = reply.left
           /\ available_tasks[t].n > 0 =>
                  Handed(t) + NextJob.num <= available_tasks[t].n
           /\ Exhausted(InstancesAvailable(available_tasks[t], reply.left),
                        NextJob.num)
                  <=> (available_tasks[t].n > 0 =>
                         Handed(t) + NextJob.num = available_tasks[t].n)
<1>. USE DEF IInv, TypeOK, MoreToHandOut
<1>1. t \in DOMAIN available_tasks /\ t = task_order[1] /\ 1 \in DOMAIN task_order
  <2>1. Len(task_order) \in Nat \ {0} /\ DOMAIN task_order = 1 .. Len(task_order)
    BY EmptySeq, LenProperties
  <2>. QED  BY <2>1, HeadTailProperties, ElementOfSeq
<1>2. available_tasks[t] \in TaskInfo
  BY <1>1, ElementOfSeq, LenProperties
<1>3. available_tasks[t].is_scheduled /\ HasMore(t)
  BY <1>1 DEF QueueExact
<1>4. /\ available_tasks[t].n \in Nat
      /\ available_tasks[t].started \in Nat
      /\ available_tasks[t].cp \in Nat
  BY <1>2 DEF TaskInfo
<1>5. available_tasks[t].cp + available_tasks[t].started + 1 = Handed(t) + 1
  BY <1>4 DEF Handed
<1>6. NextJob = Job(t, Handed(t) + 1,
                    SmallerOf(reply.left,
                              InstancesAvailable(available_tasks[t], reply.left)))
  BY <1>5 DEF NextJob
<1>7. NextJob.num = SmallerOf(reply.left,
                              InstancesAvailable(available_tasks[t], reply.left))
  BY <1>6 DEF Job
<1>8. NextJob = Job(t, Handed(t) + 1, NextJob.num)
  BY <1>6, <1>7
<1>9. Handed(t) \in Nat /\ reply.left \in Nat \ {0}
  BY <1>4 DEF Handed
<1>10. CASE available_tasks[t].n = 0
  <2>1. InstancesAvailable(available_tasks[t], reply.left) = reply.left
    BY <1>10 DEF InstancesAvailable
  <2>2. NextJob.num = reply.left
    BY <1>7, <2>1 DEF SmallerOf
  <2>. QED
    BY <1>1, <1>2, <1>3, <1>8, <1>9, <1>10, <2>1, <2>2 DEF Exhausted
<1>11. CASE available_tasks[t].n > 0
  <2>1. InstancesAvailable(available_tasks[t], reply.left) =
            available_tasks[t].n - Handed(t)
    BY <1>4, <1>11 DEF InstancesAvailable, try_once, Handed
  <2>2. available_tasks[t].n - Handed(t) \in Nat \ {0}
    BY <1>3, <1>4, <1>9, <1>11 DEF HasMore
  <2>3. NextJob.num = IF reply.left < available_tasks[t].n - Handed(t)
                      THEN reply.left ELSE available_tasks[t].n - Handed(t)
    BY <1>7, <2>1 DEF SmallerOf
  <2>. QED
    BY <1>1, <1>2, <1>3, <1>4, <1>8, <1>9, <1>11, <2>1, <2>2, <2>3
    DEF Exhausted
<1>. QED  BY <1>4, <1>10, <1>11

(* Nothing of what it gives out was given out before.                      *)
LEMMA NextJobIsNew ==
    ASSUME IInv, MoreToHandOut
    PROVE  /\ Head(task_order) \in DOMAIN available_tasks
           /\ NextJob \in [task : Nat, first : Nat, num : Nat \ {0}]
           /\ NextJob.num <= reply.left
           /\ InstancesOf(NextJob) \cap out = {}
<1>1. PICK t : t = Head(task_order)
  OBVIOUS
<1>2. /\ t \in DOMAIN available_tasks
      /\ NextJob = Job(t, Handed(t) + 1, NextJob.num)
      /\ Handed(t) \in Nat
      /\ NextJob.num \in Nat \ {0}
      /\ NextJob.num <= reply.left
  BY <1>1, NextJobProperties
<1>3. t \in Nat
  BY <1>2, LenProperties DEF IInv, TypeOK
<1>4. /\ Job(t, Handed(t) + 1, NextJob.num)
             \in [task : Nat, first : Nat, num : Nat \ {0}]
      /\ InstancesOf(NextJob) = {t} \X (Handed(t) + 1 .. Handed(t) + NextJob.num)
  <2>1. Handed(t) + 1 + NextJob.num - 1 = Handed(t) + NextJob.num
    BY <1>2
  <2>. QED  BY <1>2, <1>3, <2>1 DEF InstancesOf, Job
<1>5. \A inst \in out : inst[1] = t => inst[2] <= Handed(t)
  BY DEF IInv, OutNumbered
<1>6. out \subseteq Nat \X Nat
  BY DEF IInv, TypeOK, Instance
<1>7. InstancesOf(NextJob) \cap out = {}
  BY <1>2, <1>4, <1>5, <1>6
<1>. QED  BY <1>1, <1>2, <1>4, <1>7

-----------------------------------------------------------------------------
(* The server starts with no task.                                         *)
LEMMA InitInv == Init => IInv
<1>. SUFFICES ASSUME Init PROVE IInv
  OBVIOUS
<1>. USE DEF Init, ServerInit
<1>1. TypeOK
  BY EmptySeq DEF TypeOK, NoReply, Instance
<1>2. Accounting
  BY FS_EmptySet DEF Accounting
<1>3. QueueExact
  BY DEF QueueExact
<1>4. OutNumbered /\ ServingUnsolved
  BY FS_EmptySet DEF OutNumbered, ServingUnsolved, MoreToHandOut
<1>. QED  BY <1>1, <1>2, <1>3, <1>4 DEF IInv

(* ADD_FILE: the new task gets the next number and goes to the front.      *)
LEMMA AddFileInv ==
    ASSUME IInv, SchedulerAssumption, NEW n \in FileSizes, ProcessAddFile(n),
           UNCHANGED out, NEW k, k = Len(available_tasks) + 1
    PROVE  IInv'
<1>. USE DEF IInv
<1>1. /\ available_tasks \in Seq(TaskInfo)
      /\ DOMAIN available_tasks = 1 .. k - 1
      /\ k \in Nat \ {0}
      /\ task_order \in Seq(DOMAIN available_tasks)
      /\ NewTask(n) \in TaskInfo
  BY LenProperties DEF TypeOK, NewTask, TaskInfo, SchedulerAssumption
<1>2. /\ available_tasks' \in Seq(TaskInfo)
      /\ DOMAIN available_tasks' = 1 .. k
      /\ \A t \in 1 .. k - 1 : available_tasks'[t] = available_tasks[t]
      /\ available_tasks'[k] = NewTask(n)
  BY <1>1, AppendProperties, LenProperties DEF ProcessAddFile
<1>3. /\ task_order' = <<k>> \o task_order
      /\ task_order \in Seq(1 .. k)
      /\ <<k>> \in Seq(1 .. k)
      /\ Len(<<k>>) = 1 /\ <<k>>[1] = k
  <2>1. 1 .. k - 1 \subseteq 1 .. k
    BY <1>1
  <2>. QED  BY <1>1, <2>1, SeqMonotonic DEF ProcessAddFile, Cons
<1>4. /\ task_order' \in Seq(1 .. k)
      /\ Len(task_order') = Len(task_order) + 1
  BY <1>3, ConcatProperties, LenProperties
<1>5. /\ DOMAIN task_order' = 1 .. Len(task_order) + 1
      /\ DOMAIN task_order = 1 .. Len(task_order)
      /\ Len(task_order) \in Nat
  BY <1>1, <1>4, LenProperties
<1>6. /\ task_order'[1] = k
      /\ \A i \in 1 .. Len(task_order) :
             /\ task_order'[i + 1] = task_order[i]
             /\ task_order[i] \in 1 .. k - 1
  <2>1. \A i \in 1 .. Len(task_order) + 1 :
            task_order'[i] = IF i <= 1 THEN <<k>>[i] ELSE task_order[i - 1]
    BY <1>3, ConcatProperties
  <2>2. \A i \in 1 .. Len(task_order) :
            i + 1 \in 1 .. Len(task_order) + 1 /\ ~(i + 1 <= 1) /\ i + 1 - 1 = i
    BY <1>5
  <2>3. \A i \in 1 .. Len(task_order) : task_order[i] \in 1 .. k - 1
    BY <1>1, ElementOfSeq
  <2>4. 1 \in 1 .. Len(task_order) + 1
    BY <1>5
  <2>. QED  BY <1>3, <2>1, <2>2, <2>3, <2>4
<1>7. /\ srv_pc' \in {"testany", "bye"}
      /\ UNCHANGED <<num_instances_in_processing, solution_found,
                     terminated_workers, statistic_send, running, work_units,
                     reply, out>>
  BY DEF ProcessAddFile, NextRound
<1>8. TypeOK'
  BY <1>2, <1>4, <1>7 DEF TypeOK
<1>9. Accounting'
  <2>1. \A t \in 1 .. k - 1 : OutOf(t)' = OutOf(t)
    BY <1>7 DEF OutOf
  <2>2. OutOf(k)' = {}
    BY <1>1, <1>7 DEF OutOf, OutNumbered
  <2>3. ASSUME NEW t \in 1 .. k
        PROVE  available_tasks'[t].cp = Cardinality(OutOf(t)')
    <3>1. CASE t = k
      <4>1. available_tasks'[t].cp = 0
        BY <3>1, <1>2 DEF NewTask
      <4>2. OutOf(t)' = {}
        BY <3>1, <2>2 DEF OutOf
      <4>. QED  BY <4>1, <4>2, FS_EmptySet
    <3>2. CASE t \in 1 .. k - 1
      BY <3>2, <1>1, <1>2, <2>1 DEF Accounting
    <3>. QED  BY <1>1, <3>1, <3>2
  <2>. QED  BY <1>2, <1>7, <2>3 DEF Accounting, OutOf
<1>10. QueueExact'
  <2>1. \A t \in 1 .. k - 1 : HasMore(t)' = HasMore(t) /\ Handed(t)' = Handed(t)
    BY <1>2 DEF HasMore, Handed
  <2>2. HasMore(k)' /\ Handed(k)' = 0
    BY <1>2, <1>1 DEF HasMore, Handed, NewTask, TaskInfo
  <2>3. ASSUME NEW i \in DOMAIN task_order', NEW j \in DOMAIN task_order',
               task_order'[i] = task_order'[j]
        PROVE  i = j
    <3>1. \A h \in 2 .. Len(task_order) + 1 :
              /\ h - 1 \in 1 .. Len(task_order)
              /\ task_order'[h] = task_order[h - 1]
              /\ task_order[h - 1] # k
      <4>1. \A h \in 2 .. Len(task_order) + 1 :
                h - 1 \in 1 .. Len(task_order) /\ h - 1 + 1 = h
        BY <1>5
      <4>. QED  BY <1>1, <1>6, <4>1
    <3>2. i = 1 \/ i \in 2 .. Len(task_order) + 1
      BY <1>5
    <3>3. j = 1 \/ j \in 2 .. Len(task_order) + 1
      BY <1>5
    <3>4. CASE i \in 2 .. Len(task_order) + 1 /\ j \in 2 .. Len(task_order) + 1
      <4>1. i - 1 = j - 1
        BY <2>3, <3>1, <3>4, <1>5 DEF QueueExact
      <4>. QED  BY <3>4, <4>1, <1>5
    <3>. QED  BY <2>3, <3>1, <3>2, <3>3, <3>4, <1>6
  <2>4. ASSUME NEW t \in 1 .. k
        PROVE  /\ available_tasks'[t].is_scheduled
                      <=> \E i \in DOMAIN task_order' : task_order'[i] = t
               /\ available_tasks'[t].is_scheduled <=> HasMore(t)'
               /\ available_tasks'[t].n > 0
                      => Handed(t)' <= available_tasks'[t].n
    <3>1. CASE t = k
      <4>1. 1 \in DOMAIN task_order' /\ task_order'[1] = t
        BY <1>5, <1>6, <3>1
      <4>2. /\ available_tasks'[t].is_scheduled
            /\ available_tasks'[t].n \in Nat
        BY <1>1, <1>2, <3>1 DEF NewTask, TaskInfo
      <4>. QED  BY <3>1, <4>1, <4>2, <2>2
    <3>2. CASE t \in 1 .. k - 1
      <4>1. ASSUME NEW i \in DOMAIN task_order, task_order[i] = t
            PROVE  \E j \in DOMAIN task_order' : task_order'[j] = t
        <5>1. i + 1 \in DOMAIN task_order' /\ task_order'[i + 1] = t
          BY <1>5, <1>6, <4>1
        <5>. QED  BY <5>1
      <4>2. ASSUME NEW i \in DOMAIN task_order', task_order'[i] = t
            PROVE  \E j \in DOMAIN task_order : task_order[j] = t
        <5>1. i # 1
          BY <1>1, <1>6, <3>2, <4>2
        <5>2. i - 1 \in 1 .. Len(task_order) /\ i - 1 + 1 = i
          BY <1>5, <5>1
        <5>. QED  BY <1>5, <1>6, <4>2, <5>2
      <4>. QED  BY <1>1, <1>2, <2>1, <3>2, <4>1, <4>2 DEF QueueExact
    <3>. QED  BY <1>1, <3>1, <3>2
  <2>. QED  BY <1>2, <2>3, <2>4 DEF QueueExact, HasMore, Handed
<1>11. OutNumbered'
  BY <1>1, <1>2, <1>7 DEF OutNumbered, Handed
<1>12. ServingUnsolved'
  BY <1>7 DEF ServingUnsolved, MoreToHandOut
<1>. QED  BY <1>8, <1>9, <1>10, <1>11, <1>12

(* One round of GET_INSTANCES: the front task gives out instances with     *)
(* fresh numbers, and leaves the deque when it has no more.                *)
LEMMA HandOutInv ==
    ASSUME IInv, Give, NEW t, t = Head(task_order)
    PROVE  IInv'
<1>. USE DEF IInv
<1>. DEFINE new  == InstancesOf(NextJob)
            gone == Exhausted(InstancesAvailable(available_tasks[t], reply.left),
                              NextJob.num)
<1>1. /\ t \in DOMAIN available_tasks
      /\ available_tasks[t] \in TaskInfo
      /\ available_tasks[t].is_scheduled
      /\ NextJob = Job(t, Handed(t) + 1, NextJob.num)
      /\ Handed(t) \in Nat
      /\ NextJob.num \in Nat \ {0}
      /\ NextJob.num <= reply.left
      /\ available_tasks[t].n > 0 =>
             Handed(t) + NextJob.num <= available_tasks[t].n
      /\ gone <=> (available_tasks[t].n > 0 =>
                      Handed(t) + NextJob.num = available_tasks[t].n)
  BY NextJobProperties DEF Give, HandOut
<1>2. /\ available_tasks \in Seq(TaskInfo)
      /\ DOMAIN available_tasks = 1 .. Len(available_tasks)
      /\ task_order \in Seq(DOMAIN available_tasks)
      /\ task_order # <<>>
      /\ reply.left \in Nat
      /\ num_instances_in_processing \in Nat
  BY LenProperties DEF TypeOK, Give, HandOut, MoreToHandOut
<1>3. /\ available_tasks' =
             [available_tasks EXCEPT
                 ![t] = GivenOut(available_tasks[t], NextJob.num, gone)]
      /\ task_order' = IF gone THEN Tail(task_order) ELSE task_order
      /\ num_instances_in_processing' =
             num_instances_in_processing + NextJob.num
      /\ reply'.left = reply.left - NextJob.num
      /\ out' = out \cup new
      /\ UNCHANGED <<solution_found, terminated_workers, statistic_send,
                     running, work_units, srv_pc>>
  BY DEF Give, HandOut
<1>4. /\ GivenOut(available_tasks[t], NextJob.num, gone) \in TaskInfo
      /\ available_tasks[t].n \in Nat
      /\ available_tasks[t].started \in Nat
      /\ available_tasks[t].cp \in Nat
  <2>1. /\ available_tasks[t].n \in Nat
        /\ available_tasks[t].started \in Nat
        /\ available_tasks[t].cp \in Nat
    BY <1>1 DEF TaskInfo
  <2>2. available_tasks[t].cp + NextJob.num \in Nat
    BY <1>1, <2>1
  <2>3. (available_tasks[t].is_scheduled /\ ~gone) \in BOOLEAN
    OBVIOUS
  <2>. HIDE DEF gone
  <2>. QED  BY <1>1, <2>1, <2>2, <2>3 DEF TaskInfo, GivenOut
<1>5. /\ available_tasks' \in Seq(TaskInfo)
      /\ DOMAIN available_tasks' = DOMAIN available_tasks
      /\ \A u \in DOMAIN available_tasks :
             u # t => available_tasks'[u] = available_tasks[u]
      /\ available_tasks'[t].n = available_tasks[t].n
      /\ available_tasks'[t].started = available_tasks[t].started
      /\ available_tasks'[t].cp = available_tasks[t].cp + NextJob.num
      /\ available_tasks'[t].is_scheduled <=> ~gone
  <2>1. available_tasks'[t] = GivenOut(available_tasks[t], NextJob.num, gone)
    BY <1>1, <1>2, <1>3, <1>4, ExceptSeq
  <2>2. /\ available_tasks' \in Seq(TaskInfo)
        /\ DOMAIN available_tasks' = DOMAIN available_tasks
        /\ \A u \in DOMAIN available_tasks :
               u # t => available_tasks'[u] = available_tasks[u]
    BY <1>1, <1>2, <1>3, <1>4, ExceptSeq, LenProperties
  <2>. QED  BY <1>1, <2>1, <2>2 DEF GivenOut, TaskInfo
<1>6. new = {t} \X (Handed(t) + 1 .. Handed(t) + NextJob.num)
  <2>1. Handed(t) + 1 + NextJob.num - 1 = Handed(t) + NextJob.num
    BY <1>1
  <2>. QED  BY <1>1, <2>1 DEF InstancesOf, Job
<1>7. new \cap out = {}
  BY <1>1, <1>6 DEF OutNumbered
<1>8. IsFiniteSet(new) /\ Cardinality(new) = NextJob.num
  BY <1>1, JobCardinality
<1>9. IsFiniteSet(out)
  BY DEF OutNumbered
<1>10. TypeOK'
  <2>1. task_order' \in Seq(DOMAIN available_tasks')
    BY <1>2, <1>3, <1>5, HeadTailProperties
  <2>2. out' \subseteq Instance
    BY <1>1, <1>2, <1>3, <1>6 DEF TypeOK, Instance
  <2>3. num_instances_in_processing' \in Nat /\ reply'.left \in Nat
    BY <1>1, <1>2, <1>3
  <2>. QED  BY <1>3, <1>5, <2>1, <2>2, <2>3 DEF TypeOK
<1>11. Accounting'
  <2>1. Cardinality(out') = num_instances_in_processing'
    BY <1>3, <1>7, <1>8, <1>9, DisjointCardinality DEF Accounting
  <2>2. ASSUME NEW u \in DOMAIN available_tasks
        PROVE  available_tasks'[u].cp = Cardinality({inst \in out' : inst[1] = u})
    <3>1. CASE u = t
      <4>1. {inst \in out' : inst[1] = u} = OutOf(t) \cup new
        BY <1>3, <1>6, <3>1 DEF OutOf
      <4>2. IsFiniteSet(OutOf(t)) /\ OutOf(t) \cap new = {}
        BY <1>7, <1>9, FS_Subset DEF OutOf
      <4>3. Cardinality(OutOf(t) \cup new) = Cardinality(OutOf(t)) + NextJob.num
        BY <1>8, <4>2, DisjointCardinality
      <4>. QED  BY <1>1, <1>5, <3>1, <4>1, <4>3 DEF Accounting
    <3>2. CASE u # t
      <4>1. {inst \in out' : inst[1] = u} = OutOf(u)
        BY <1>3, <1>6, <3>2 DEF OutOf
      <4>. QED  BY <1>5, <3>2, <4>1 DEF Accounting
    <3>. QED  BY <3>1, <3>2
  <2>. QED  BY <1>5, <2>1, <2>2 DEF Accounting, OutOf
<1>12. QueueExact'
  <2>1. /\ Len(task_order) \in Nat \ {0}
        /\ DOMAIN task_order = 1 .. Len(task_order)
        /\ task_order[1] = t
    BY <1>2, EmptySeq, LenProperties, HeadTailProperties
    DEF Give, HandOut, MoreToHandOut
  <2>2. /\ DOMAIN Tail(task_order) = 1 .. Len(task_order) - 1
        /\ \A i \in 1 .. Len(task_order) - 1 :
               Tail(task_order)[i] = task_order[i + 1]
    BY <1>2, HeadTailProperties, LenProperties
  <2>3. \A i, j \in DOMAIN task_order' :
            task_order'[i] = task_order'[j] => i = j
    <3>1. \A i, j \in DOMAIN Tail(task_order) :
              Tail(task_order)[i] = Tail(task_order)[j] => i = j
      <4>1. ASSUME NEW i \in 1 .. Len(task_order) - 1,
                   NEW j \in 1 .. Len(task_order) - 1,
                   Tail(task_order)[i] = Tail(task_order)[j]
            PROVE  i = j
        <5>1. /\ i + 1 \in DOMAIN task_order /\ j + 1 \in DOMAIN task_order
              /\ task_order[i + 1] = task_order[j + 1]
          BY <2>1, <2>2, <4>1
        <5>2. i + 1 = j + 1
          BY <5>1 DEF QueueExact
        <5>. QED  BY <5>2
      <4>. QED  BY <2>2, <4>1
    <3>. QED  BY <1>3, <3>1 DEF QueueExact
  <2>4. ASSUME NEW u \in DOMAIN available_tasks
        PROVE  available_tasks'[u].is_scheduled
                   <=> \E i \in DOMAIN task_order' : task_order'[i] = u
    <3>1. CASE ~gone
      BY <1>1, <1>3, <1>5, <3>1 DEF QueueExact
    <3>2. CASE gone /\ u = t
      <4>1. ASSUME NEW i \in 1 .. Len(task_order) - 1
            PROVE  Tail(task_order)[i] # t
        <5>1. i + 1 \in DOMAIN task_order /\ 1 \in DOMAIN task_order /\ i + 1 # 1
          BY <2>1
        <5>2. task_order[i + 1] # task_order[1]
          BY <5>1 DEF QueueExact
        <5>. QED  BY <2>1, <2>2, <5>2
      <4>. QED  BY <1>3, <1>5, <2>2, <3>2, <4>1
    <3>3. CASE gone /\ u # t
      <4>1. ASSUME NEW i \in DOMAIN task_order, task_order[i] = u
            PROVE  \E j \in DOMAIN Tail(task_order) : Tail(task_order)[j] = u
        <5>1. i # 1
          BY <2>1, <3>3, <4>1
        <5>2. i - 1 \in 1 .. Len(task_order) - 1 /\ i - 1 + 1 = i
          BY <2>1, <5>1
        <5>3. Tail(task_order)[i - 1] = u
          BY <2>2, <4>1, <5>2
        <5>. QED  BY <2>2, <5>2, <5>3
      <4>2. ASSUME NEW j \in DOMAIN Tail(task_order), Tail(task_order)[j] = u
            PROVE  \E i \in DOMAIN task_order : task_order[i] = u
        <5>1. j + 1 \in DOMAIN task_order /\ task_order[j + 1] = u
          BY <2>1, <2>2, <4>2
        <5>. QED  BY <5>1
      <4>3. available_tasks[u].is_scheduled
                <=> \E i \in DOMAIN task_order : task_order[i] = u
        BY DEF QueueExact
      <4>. QED  BY <1>3, <1>5, <3>3, <4>1, <4>2, <4>3
    <3>. QED  BY <3>1, <3>2, <3>3
  <2>5. ASSUME NEW u \in DOMAIN available_tasks
        PROVE  /\ available_tasks'[u].is_scheduled <=> HasMore(u)'
               /\ available_tasks'[u].n > 0
                      => Handed(u)' <= available_tasks'[u].n
    <3>1. CASE u = t
      <4>1. available_tasks'[u].started + available_tasks'[u].cp
                = Handed(t) + NextJob.num
        BY <1>4, <1>1, <1>5, <3>1 DEF Handed
      <4>2. HasMore(u)' <=> (available_tasks[t].n > 0
                              /\ Handed(t) + NextJob.num # available_tasks[t].n)
        BY <1>1, <1>4, <1>5, <3>1, <4>1 DEF HasMore, Handed
      <4>. QED  BY <1>1, <1>5, <3>1, <4>1, <4>2 DEF Handed
    <3>2. CASE u # t
      BY <1>5, <3>2 DEF QueueExact, HasMore, Handed
    <3>. QED  BY <3>1, <3>2
  <2>. QED  BY <1>5, <2>3, <2>4, <2>5 DEF QueueExact, HasMore, Handed
<1>13. OutNumbered'
  <2>1. IsFiniteSet(out')
    BY <1>3, <1>7, <1>8, <1>9, DisjointCardinality
  <2>2. ASSUME NEW inst \in out'
        PROVE  /\ inst[1] \in DOMAIN available_tasks'
               /\ inst[2] <= available_tasks'[inst[1]].started
                               + available_tasks'[inst[1]].cp
    <3>1. CASE inst \in new
      <4>1. inst[1] = t /\ inst[2] <= Handed(t) + NextJob.num
        BY <1>1, <1>6, <3>1
      <4>. QED  BY <1>1, <1>4, <1>5, <4>1 DEF Handed
    <3>2. CASE inst \in out
      <4>1. /\ inst[1] \in DOMAIN available_tasks
            /\ inst[2] \in Nat
            /\ inst[2] <= Handed(inst[1])
        BY <3>2 DEF OutNumbered, TypeOK, Instance
      <4>2. CASE inst[1] = t
        BY <1>1, <1>4, <1>5, <4>1, <4>2 DEF Handed
      <4>3. CASE inst[1] # t
        BY <1>5, <4>1, <4>3 DEF Handed
      <4>. QED  BY <4>2, <4>3
    <3>. QED  BY <1>3, <3>1, <3>2
  <2>. QED  BY <2>1, <2>2 DEF OutNumbered, Handed
<1>14. ServingUnsolved'
  BY <1>3 DEF ServingUnsolved, Give, HandOut, MoreToHandOut
<1>. QED  BY <1>10, <1>11, <1>12, <1>13, <1>14

(* An instance that is out makes its task's num_currently_processing and   *)
(* the server's total positive.                                            *)
LEMMA OutCounted ==
    ASSUME IInv, NEW inst \in out, NEW t, t = inst[1]
    PROVE  /\ t \in DOMAIN available_tasks
           /\ available_tasks[t] \in TaskInfo
           /\ available_tasks[t].cp \in Nat \ {0}
           /\ num_instances_in_processing \in Nat \ {0}
           /\ Cardinality(out \ {inst}) = num_instances_in_processing - 1
           /\ Cardinality(OutOf(t) \ {inst}) = available_tasks[t].cp - 1
<1>. USE DEF IInv
<1>1. t \in DOMAIN available_tasks /\ available_tasks[t] \in TaskInfo
  BY ElementOfSeq, LenProperties DEF OutNumbered, TypeOK
<1>2. inst \in OutOf(t) /\ IsFiniteSet(out) /\ IsFiniteSet(OutOf(t))
  BY FS_Subset DEF OutNumbered, OutOf
<1>3. /\ Cardinality(out \ {inst}) = Cardinality(out) - 1
      /\ Cardinality(OutOf(t) \ {inst}) = Cardinality(OutOf(t)) - 1
      /\ Cardinality(out) \in Nat \ {0}
      /\ Cardinality(OutOf(t)) \in Nat \ {0}
  <2>1. \A S : IsFiniteSet(S) /\ inst \in S =>
            /\ Cardinality(S \ {inst}) = Cardinality(S) - 1
            /\ Cardinality(S) \in Nat \ {0}
    <3>. SUFFICES ASSUME NEW S, IsFiniteSet(S), inst \in S
                  PROVE  /\ Cardinality(S \ {inst}) = Cardinality(S) - 1
                         /\ Cardinality(S) \in Nat \ {0}
      OBVIOUS
    <3>1. /\ IsFiniteSet(S \ {inst})
          /\ Cardinality(S \ {inst}) = Cardinality(S) - 1
      BY FS_RemoveElement
    <3>. QED  BY <3>1, FS_CardinalityType
  <2>. QED  BY <1>2, <2>1
<1>. QED  BY <1>1, <1>3 DEF Accounting

(* DONE_PROCESSING: what a result changes in its task.  The rescheduling   *)
(* at server.hpp:278 never happens, so the deque stays as it is.           *)
LEMMA ReturnEffect ==
    ASSUME IInv, NEW inst \in out, NEW solved \in BOOLEAN, Return(inst, solved),
           NEW t, t = inst[1]
    PROVE  /\ available_tasks' \in Seq(TaskInfo)
           /\ DOMAIN available_tasks' = DOMAIN available_tasks
           /\ \A u \in DOMAIN available_tasks :
                  u # t => available_tasks'[u] = available_tasks[u]
           /\ available_tasks'[t].n = available_tasks[t].n
           /\ available_tasks'[t].started = available_tasks[t].started + 1
           /\ available_tasks'[t].cp = available_tasks[t].cp - 1
           /\ available_tasks'[t].is_scheduled = available_tasks[t].is_scheduled
           /\ task_order' = task_order
           /\ num_instances_in_processing' = num_instances_in_processing - 1
           /\ out' = out \ {inst}
<1>. USE DEF IInv
<1>. DEFINE task    == available_tasks[t]
            counted == Counted(task, solved)
            again   == Reschedule(counted)
            result  == [counted EXCEPT !.is_scheduled = counted.is_scheduled \/ again]
<1>1. t \in DOMAIN available_tasks /\ task \in TaskInfo /\ task.cp \in Nat \ {0}
  BY OutCounted
<1>2. /\ task.n \in Nat /\ task.started \in Nat /\ task.times_solved \in Nat
      /\ task.is_scheduled \in BOOLEAN
  BY <1>1 DEF TaskInfo
<1>3. /\ task.started + 1 \in Nat /\ task.cp - 1 \in Nat
      /\ task.times_solved + Count(solved) \in Nat
  BY <1>1, <1>2 DEF Count
<1>4. /\ counted \in TaskInfo
      /\ counted.n = task.n
      /\ counted.started = task.started + 1
      /\ counted.cp = task.cp - 1
      /\ counted.is_scheduled = task.is_scheduled
  BY <1>1, <1>2, <1>3 DEF Counted, TaskInfo
<1>5. ~again
  <2>1. counted.started + counted.cp = Handed(t)
    BY <1>1, <1>2, <1>4 DEF Handed
  <2>2. ~task.is_scheduled => ~(task.n > Handed(t))
    BY <1>1, <1>2 DEF QueueExact, HasMore, Handed
  <2>. QED  BY <1>4, <2>1, <2>2 DEF Reschedule, try_once
<1>6. result = counted
  BY <1>4, <1>5 DEF TaskInfo
<1>7. /\ available_tasks' = [available_tasks EXCEPT ![t] = result]
      /\ task_order' = IF again THEN Append(task_order, t) ELSE task_order
      /\ num_instances_in_processing' = num_instances_in_processing - 1
      /\ out' = out \ {inst}
  BY DEF Return, ProcessDoneProcessing
<1>8. available_tasks \in Seq(TaskInfo)
  BY DEF TypeOK
<1>9. /\ available_tasks' \in Seq(TaskInfo)
      /\ DOMAIN available_tasks' = DOMAIN available_tasks
      /\ available_tasks'[t] = counted
      /\ \A u \in DOMAIN available_tasks :
             u # t => available_tasks'[u] = available_tasks[u]
  <2>. HIDE DEF counted, result
  <2>. QED  BY <1>1, <1>4, <1>6, <1>7, <1>8, ExceptSeq, LenProperties
<1>. QED  BY <1>4, <1>5, <1>7, <1>9

(* DONE_PROCESSING keeps the sum of started and num_currently_processing,  *)
(* so that nothing changes for the deque.                                  *)
LEMMA ReturnInv ==
    ASSUME IInv, NEW inst \in out, NEW solved \in BOOLEAN, Return(inst, solved)
    PROVE  IInv'
<1>. USE DEF IInv
<1>1. PICK t : t = inst[1]
  OBVIOUS
<1>2. /\ available_tasks' \in Seq(TaskInfo)
      /\ DOMAIN available_tasks' = DOMAIN available_tasks
      /\ \A u \in DOMAIN available_tasks :
             u # t => available_tasks'[u] = available_tasks[u]
      /\ available_tasks'[t].n = available_tasks[t].n
      /\ available_tasks'[t].started = available_tasks[t].started + 1
      /\ available_tasks'[t].cp = available_tasks[t].cp - 1
      /\ available_tasks'[t].is_scheduled = available_tasks[t].is_scheduled
      /\ task_order' = task_order
      /\ num_instances_in_processing' = num_instances_in_processing - 1
      /\ out' = out \ {inst}
  BY <1>1, ReturnEffect
<1>3. /\ t \in DOMAIN available_tasks
      /\ available_tasks[t].cp \in Nat \ {0}
      /\ available_tasks[t].started \in Nat
      /\ num_instances_in_processing \in Nat \ {0}
      /\ Cardinality(out \ {inst}) = num_instances_in_processing - 1
      /\ Cardinality(OutOf(t) \ {inst}) = available_tasks[t].cp - 1
  BY <1>1, OutCounted DEF TaskInfo
<1>4. /\ srv_pc' = "iprobe"
      /\ UNCHANGED <<solution_found, running, work_units, reply>>
      /\ terminated_workers' \in {terminated_workers, TRUE}
      /\ statistic_send' \in {statistic_send, TRUE}
  BY DEF Return, ProcessDoneProcessing, SendTermination
<1>5. ASSUME NEW u \in DOMAIN available_tasks
      PROVE  available_tasks'[u].started + available_tasks'[u].cp = Handed(u)
  <2>1. CASE u = t
    BY <1>2, <1>3, <2>1 DEF Handed
  <2>2. CASE u # t
    BY <1>2, <2>2 DEF Handed
  <2>. QED  BY <2>1, <2>2
<1>6. \A u \in DOMAIN available_tasks :
         /\ available_tasks'[u].n = available_tasks[u].n
         /\ available_tasks'[u].is_scheduled = available_tasks[u].is_scheduled
  BY <1>2
<1>7. TypeOK'
  <2>1. num_instances_in_processing' \in Nat /\ out' \subseteq Instance
    BY <1>2, <1>3 DEF TypeOK
  <2>. QED  BY <1>2, <1>4, <2>1 DEF TypeOK
<1>8. Accounting'
  <2>1. ASSUME NEW u \in DOMAIN available_tasks
        PROVE  available_tasks'[u].cp = Cardinality({i \in out' : i[1] = u})
    <3>1. CASE u = t
      <4>1. {i \in out' : i[1] = u} = OutOf(t) \ {inst}
        BY <1>2, <3>1 DEF OutOf
      <4>. QED  BY <1>2, <1>3, <3>1, <4>1
    <3>2. CASE u # t
      <4>1. {i \in out' : i[1] = u} = OutOf(u)
        BY <1>1, <1>2, <3>2 DEF OutOf
      <4>. QED  BY <1>2, <3>2, <4>1 DEF Accounting
    <3>. QED  BY <3>1, <3>2
  <2>. QED  BY <1>2, <1>3, <2>1 DEF Accounting, OutOf
<1>9. QueueExact'
  BY <1>2, <1>5, <1>6 DEF QueueExact, HasMore, Handed
<1>10. OutNumbered'
  BY <1>2, <1>5, FS_RemoveElement DEF OutNumbered, Handed
<1>11. ServingUnsolved'
  BY <1>4 DEF ServingUnsolved, MoreToHandOut
<1>. QED  BY <1>7, <1>8, <1>9, <1>10, <1>11

(* The other actions leave tasks, deque and counters alone.                *)
LEMMA OtherInv ==
    ASSUME IInv, UNCHANGED out,
           \/ ProcessAddWorkers
           \/ \E w \in Worker : AcceptWorker(w)
           \/ PassManagerBarrier
           \/ ProcessTerminate
           \/ NoManagerCommand
           \/ \E w \in Connected, num \in Nat : ProcessGetInstances(w, num)
           \/ \E t \in DOMAIN available_tasks : ProcessFoundSolution(t)
           \/ \E index \in DOMAIN work_units : ProcessDisconnect(index)
           \/ SendReply
           \/ Leave
           \/ Receive
           \/ UNCHANGED vars
    PROVE  IInv'
<1>1. /\ UNCHANGED <<available_tasks, task_order, num_instances_in_processing, out>>
      /\ TypeOK' /\ ServingUnsolved'
      => IInv'
  BY DEF IInv, Accounting, OutOf, QueueExact, HasMore, Handed, OutNumbered
<1>. SUFFICES /\ UNCHANGED <<available_tasks, task_order,
                            num_instances_in_processing, out>>
              /\ TypeOK' /\ ServingUnsolved'
  BY <1>1
<1>. USE DEF IInv, TypeOK, ServingUnsolved, MoreToHandOut
<1>2. CASE ProcessAddWorkers
  BY <1>2 DEF ProcessAddWorkers
<1>3. CASE \E w \in Worker : AcceptWorker(w)
  BY <1>3, AppendProperties DEF AcceptWorker
<1>4. CASE PassManagerBarrier
  BY <1>4 DEF PassManagerBarrier, NextRound
<1>5. CASE ProcessTerminate
  BY <1>5 DEF ProcessTerminate, SendTermination, NextRound
<1>6. CASE NoManagerCommand
  BY <1>6 DEF NoManagerCommand, NextRound
<1>7. CASE \E w \in Connected, num \in Nat : ProcessGetInstances(w, num)
  BY <1>7 DEF ProcessGetInstances, Served
<1>8. CASE \E t \in DOMAIN available_tasks : ProcessFoundSolution(t)
  BY <1>8 DEF ProcessFoundSolution, SendTermination
<1>9. CASE \E index \in DOMAIN work_units : ProcessDisconnect(index)
  <2>1. PICK index \in DOMAIN work_units : ProcessDisconnect(index)
    BY <1>9
  <2>2. work_units' \in Seq(Worker)
    BY <2>1, RemoveAtType DEF ProcessDisconnect
  <2>3. running' \in BOOLEAN
    BY <2>1 DEF ProcessDisconnect
  <2>. QED  BY <2>1, <2>2, <2>3 DEF ProcessDisconnect
<1>10. CASE SendReply
  BY <1>10 DEF SendReply, NoReply
<1>11. CASE Leave
  BY <1>11 DEF Leave
<1>12. CASE Receive
  BY <1>12 DEF Receive, server_vars
<1>13. CASE UNCHANGED vars
  BY <1>13 DEF vars, server_vars
<1>. QED  BY <1>2, <1>3, <1>4, <1>5, <1>6, <1>7, <1>8, <1>9, <1>10, <1>11,
              <1>12, <1>13
-----------------------------------------------------------------------------
(* Every operation of the server on its tasks keeps the invariant.         *)
LEMMA StepInv ==
    ASSUME SchedulerAssumption, IInv, [Next]_vars
    PROVE  IInv'
<1>1. CASE Give
  BY <1>1, HandOutInv
<1>2. CASE \E inst \in out, solved \in BOOLEAN : Return(inst, solved)
  BY <1>2, ReturnInv
<1>3. CASE ManagerCommand /\ UNCHANGED out
  <2>1. CASE \E n \in FileSizes : ProcessAddFile(n)
    BY <1>3, <2>1, AddFileInv
  <2>. QED  BY <1>3, <2>1, OtherInv DEF ManagerCommand
<1>4. CASE WorkerCommand /\ UNCHANGED out
  <2>1. CASE \E w \in Connected, num \in Requests :
                 Answered(w) /\ ProcessGetInstances(w, num)
    BY <1>4, <2>1, OtherInv DEF SchedulerAssumption
  <2>. QED  BY <1>4, <2>1, OtherInv DEF WorkerCommand
<1>5. CASE (SendReply \/ Leave \/ Receive) /\ UNCHANGED out
  BY <1>5, OtherInv
<1>6. CASE UNCHANGED vars
  BY <1>6, OtherInv DEF vars
<1>. QED  BY <1>1, <1>2, <1>3, <1>4, <1>5, <1>6 DEF Next

(* The inductive invariant holds in every state of the server.             *)
THEOREM Invariant == Spec => []IInv
<1>1. Init => IInv
  BY InitInv
<1>2. IInv /\ [Next]_vars => IInv'
  BY StepInv, SchedulerAssumption
<1>. QED  BY <1>1, <1>2, PTL DEF Spec

(* The server's tables keep their types.                                   *)
THEOREM TypeCorrect == Spec => []TypeOK
<1>1. IInv => TypeOK
  BY DEF IInv
<1>. QED  BY <1>1, Invariant, PTL

(* num_currently_processing and num_instances_in_processing count the      *)
(* instances at the workers, so server.hpp:273 never aborts.               *)
THEOREM AccountingCorrect == Spec => []Accounting
<1>1. IInv => Accounting
  BY DEF IInv
<1>. QED  BY <1>1, Invariant, PTL

(* The deque holds exactly the tasks with start assignments left.          *)
THEOREM QueueCorrect == Spec => []QueueExact
<1>1. IInv => QueueExact
  BY DEF IInv
<1>. QED  BY <1>1, Invariant, PTL

(* A round of GET_INSTANCES always has something to give, so               *)
(* server.hpp:357 never aborts.                                            *)
THEOREM AlwaysStartable == Spec => []Startable
<1>1. IInv => Startable
  BY NextJobProperties DEF Startable
<1>. QED  BY <1>1, Invariant, PTL

-----------------------------------------------------------------------------
(* Only DONE_PROCESSING, ADD_FILE and GET_INSTANCES touch the tasks, and   *)
(* only GET_INSTANCES hands instances out.                                 *)
LEMMA Untouched ==
    ASSUME [Next]_vars
    PROVE  \/ Give
           \/ \E inst \in out, solved \in BOOLEAN : Return(inst, solved)
           \/ \E n \in FileSizes : ProcessAddFile(n) /\ UNCHANGED out
           \/ UNCHANGED <<available_tasks, statistic_send, out>>
BY DEF Next, ManagerCommand, WorkerCommand, Receive, ProcessAddWorkers,
       AcceptWorker, PassManagerBarrier, ProcessTerminate, NoManagerCommand,
       ProcessGetInstances, ProcessFoundSolution, ProcessDisconnect, SendReply,
       Leave, vars, server_vars

(* No step takes back a number: what a result takes off                    *)
(* num_currently_processing it adds to started, and a task keeps its place *)
(* in the table.                                                           *)
LEMMA HandedGrows ==
    ASSUME SchedulerAssumption, IInv, [Next]_vars,
           NEW t \in DOMAIN available_tasks
    PROVE  /\ t \in DOMAIN available_tasks'
           /\ Handed(t) \in Nat /\ Handed(t)' \in Nat
           /\ Handed(t) <= Handed(t)'
<1>1. /\ available_tasks \in Seq(TaskInfo)
      /\ available_tasks[t] \in TaskInfo
      /\ available_tasks[t].started \in Nat /\ available_tasks[t].cp \in Nat
      /\ Handed(t) \in Nat
  <2>1. available_tasks \in Seq(TaskInfo)
    BY DEF IInv, TypeOK
  <2>2. available_tasks[t] \in TaskInfo
    BY <2>1, ElementOfSeq, LenProperties
  <2>. QED  BY <2>1, <2>2 DEF TaskInfo, Handed
<1>2. CASE Give
  <2>1. PICK u : u = Head(task_order)
    OBVIOUS
  <2>2. u \in DOMAIN available_tasks /\ NextJob.num \in Nat
    BY <1>2, <2>1, NextJobProperties DEF Give, HandOut
  <2>3. PICK exhausted :
            available_tasks' =
                [available_tasks EXCEPT
                    ![u] = GivenOut(available_tasks[u], NextJob.num, exhausted)]
    BY <1>2, <2>1 DEF Give, HandOut
  <2>4. available_tasks[u] \in TaskInfo
    BY <1>1, <2>2, ElementOfSeq, LenProperties
  <2>5. /\ GivenOut(available_tasks[u], NextJob.num, exhausted).started
               = available_tasks[u].started
        /\ GivenOut(available_tasks[u], NextJob.num, exhausted).cp
               = available_tasks[u].cp + NextJob.num
    BY <2>4 DEF GivenOut, TaskInfo
  <2>6. /\ t \in DOMAIN available_tasks'
        /\ t # u => available_tasks'[t] = available_tasks[t]
        /\ t = u => available_tasks'[t] =
                        GivenOut(available_tasks[u], NextJob.num, exhausted)
    BY <1>1, <2>3
  <2>. QED  BY <1>1, <2>2, <2>5, <2>6 DEF Handed
<1>3. CASE \E inst \in out, solved \in BOOLEAN : Return(inst, solved)
  <2>1. PICK inst \in out, solved \in BOOLEAN : Return(inst, solved)
    BY <1>3
  <2>2. PICK u : u = inst[1]
    OBVIOUS
  <2>3. u \in DOMAIN available_tasks /\ available_tasks[u].cp \in Nat \ {0}
    BY <2>1, <2>2, OutCounted
  <2>4. /\ DOMAIN available_tasks' = DOMAIN available_tasks
        /\ t # u => available_tasks'[t] = available_tasks[t]
        /\ t = u => /\ available_tasks'[t].started = available_tasks[t].started + 1
                    /\ available_tasks'[t].cp = available_tasks[t].cp - 1
    BY <2>1, <2>2, ReturnEffect
  <2>. QED  BY <1>1, <2>3, <2>4 DEF Handed
<1>4. CASE \E n \in FileSizes : ProcessAddFile(n)
  <2>1. PICK n \in FileSizes : ProcessAddFile(n)
    BY <1>4
  <2>2. NewTask(n) \in TaskInfo
    BY DEF NewTask, TaskInfo, SchedulerAssumption
  <2>3. t \in DOMAIN available_tasks' /\ available_tasks'[t] = available_tasks[t]
    BY <1>1, <2>1, <2>2, AppendProperties, LenProperties DEF ProcessAddFile
  <2>. QED  BY <1>1, <2>3 DEF Handed
<1>5. CASE UNCHANGED available_tasks
  BY <1>1, <1>5 DEF Handed
<1>. QED  BY <1>2, <1>3, <1>4, <1>5, Untouched

(* What is given out now has a number that was not handed out before.      *)
LEMMA NewlyNumbered ==
    ASSUME IInv, [Next]_vars, NEW inst \in out' \ out
    PROVE  /\ inst[1] \in DOMAIN available_tasks
           /\ ~(inst[2] <= Handed(inst[1]))
<1>1. Give
  BY Untouched DEF Return
<1>2. PICK t : t = Head(task_order)
  OBVIOUS
<1>3. /\ t \in DOMAIN available_tasks
      /\ NextJob = Job(t, Handed(t) + 1, NextJob.num)
      /\ Handed(t) \in Nat
      /\ NextJob.num \in Nat
  BY <1>1, <1>2, NextJobProperties DEF Give, HandOut
<1>4. InstancesOf(NextJob) = {t} \X (Handed(t) + 1 .. Handed(t) + NextJob.num)
  <2>1. Handed(t) + 1 + NextJob.num - 1 = Handed(t) + NextJob.num
    BY <1>3
  <2>. QED  BY <1>3, <2>1 DEF InstancesOf, Job
<1>5. inst[1] = t /\ inst[2] \in Handed(t) + 1 .. Handed(t) + NextJob.num
  BY <1>1, <1>4 DEF Give
<1>. QED  BY <1>3, <1>5

(* Everything ever given out was numbered when it was.                     *)
GivenNumbered ==
    /\ given \subseteq Instance
    /\ \A inst \in given : /\ inst[1] \in DOMAIN available_tasks
                           /\ inst[2] <= Handed(inst[1])

(* The numbers handed out only grow, so that what was given out stays      *)
(* below them whatever happens to it.                                      *)
LEMMA GivenStep ==
    ASSUME SchedulerAssumption, IInv, GivenNumbered, [HistoryNext]_history_vars
    PROVE  /\ IInv' /\ GivenNumbered'
           /\ (out' \ out) \cap given = {}
<1>1. [Next]_vars
  BY DEF HistoryNext, history_vars
<1>2. IInv'
  BY <1>1, StepInv
<1>3. ASSUME NEW inst \in given
      PROVE  /\ inst[1] \in DOMAIN available_tasks'
             /\ inst[2] <= Handed(inst[1])'
  <2>1. PICK t : t = inst[1]
    OBVIOUS
  <2>2. t \in DOMAIN available_tasks /\ inst[2] \in Nat /\ inst[2] <= Handed(t)
    BY <1>3, <2>1 DEF GivenNumbered, Instance
  <2>3. /\ t \in DOMAIN available_tasks'
        /\ Handed(t) \in Nat /\ Handed(t)' \in Nat
        /\ Handed(t) <= Handed(t)'
    BY <1>1, <2>2, HandedGrows
  <2>4. inst[2] <= Handed(t)'
    BY <2>2, <2>3
  <2>. QED  BY <2>1, <2>3, <2>4 DEF Handed
<1>4. ASSUME NEW inst \in out'
      PROVE  /\ inst \in Instance
             /\ inst[1] \in DOMAIN available_tasks'
             /\ inst[2] <= Handed(inst[1])'
  BY <1>2, <1>4 DEF IInv, TypeOK, OutNumbered, Handed
<1>5. given' = given \/ given' = given \cup out'
  BY DEF HistoryNext, Remember, history_vars
<1>6. GivenNumbered'
  BY <1>3, <1>4, <1>5 DEF GivenNumbered, Handed
<1>7. (out' \ out) \cap given = {}
  BY <1>1, NewlyNumbered DEF GivenNumbered
<1>. QED  BY <1>2, <1>6, <1>7

(* No start assignment is ever given out again, neither while it is at a   *)
(* worker nor after it was returned.                                       *)
THEOREM InstancesGivenOutOnce == HistorySpec => GivenOutOnce
<1>1. HistoryInit => IInv /\ GivenNumbered
  BY InitInv DEF HistoryInit, Init, GivenNumbered
<1>2. IInv /\ GivenNumbered /\ [HistoryNext]_history_vars
          => /\ IInv' /\ GivenNumbered'
             /\ [(out' \ out) \cap given = {}]_history_vars
  BY GivenStep, SchedulerAssumption
<1>. QED  BY <1>1, <1>2, PTL DEF HistorySpec, GivenOutOnce

(* A task that left the deque is never scheduled again.                    *)
THEOREM TasksLeaveForGood == Spec => LeavesForGood
<1>1. ASSUME SchedulerAssumption, IInv, [Next]_vars,
             NEW t \in DOMAIN available_tasks, ~available_tasks[t].is_scheduled
      PROVE  ~available_tasks'[t].is_scheduled
  <2>1. CASE Give
    <3>1. PICK u : u = Head(task_order)
      OBVIOUS
    <3>2. available_tasks[u].is_scheduled
      BY <1>1, <2>1, <3>1, NextJobProperties DEF Give, HandOut
    <3>3. available_tasks'[t] = available_tasks[t]
      BY <1>1, <2>1, <3>1, <3>2 DEF Give, HandOut
    <3>. QED  BY <1>1, <3>3
  <2>2. CASE \E inst \in out, solved \in BOOLEAN : Return(inst, solved)
    <3>1. PICK inst \in out, solved \in BOOLEAN : Return(inst, solved)
      BY <2>2
    <3>2. PICK u : u = inst[1]
      OBVIOUS
    <3>. QED  BY <1>1, <3>1, <3>2, ReturnEffect
  <2>3. CASE \E n \in FileSizes : ProcessAddFile(n)
    <3>1. available_tasks \in Seq(TaskInfo)
      BY <1>1 DEF IInv, TypeOK
    <3>2. PICK n \in FileSizes : ProcessAddFile(n)
      BY <2>3
    <3>3. NewTask(n) \in TaskInfo
      BY <1>1 DEF NewTask, TaskInfo, SchedulerAssumption
    <3>4. available_tasks'[t] = available_tasks[t]
      BY <1>1, <3>1, <3>2, <3>3, AppendProperties, LenProperties
         DEF ProcessAddFile
    <3>. QED  BY <1>1, <3>4
  <2>. QED  BY <1>1, <2>1, <2>2, <2>3, Untouched
<1>2. IInv /\ [Next]_vars =>
          [\A t \in DOMAIN available_tasks :
               ~available_tasks[t].is_scheduled
                   => ~available_tasks'[t].is_scheduled]_vars
  BY <1>1, SchedulerAssumption
<1>. QED  BY <1>2, Invariant, PTL DEF Spec, LeavesForGood

(* The statistics are reported when no instance is out; then what is not   *)
(* in the deque is worked off, and the deque is empty unless there is a    *)
(* solution.                                                               *)
THEOREM StatisticsComplete == Spec => CompleteStatistics
<1>1. ASSUME SchedulerAssumption, IInv, [Next]_vars,
             statistic_send' # statistic_send
      PROVE  /\ out' = {}
             /\ \/ solution_found'
                \/ \A t \in DOMAIN available_tasks' : WorkedOff(t)'
  <2>1. PICK inst \in out, solved \in BOOLEAN : Return(inst, solved)
    BY <1>1, Untouched DEF Give, HandOut, ProcessAddFile
  <2>2. /\ num_instances_in_processing - 1 = 0
        /\ task_order' = <<>> \/ solution_found'
    BY <1>1, <2>1 DEF Return, ProcessDoneProcessing, Finished
  <2>3. out' = {}
    <3>1. IsFiniteSet(out \ {inst}) /\ Cardinality(out \ {inst}) = 0
      BY <1>1, <2>2, OutCounted, FS_RemoveElement DEF IInv, OutNumbered
    <3>. QED  BY <2>1, <3>1, FS_EmptySet DEF Return
  <2>4. IInv'
    BY <1>1, StepInv
  <2>5. ASSUME task_order' = <<>>, NEW t \in DOMAIN available_tasks'
        PROVE  WorkedOff(t)'
    <3>1. /\ available_tasks'[t] \in TaskInfo
          /\ available_tasks'[t].n \in Nat
          /\ available_tasks'[t].started \in Nat
      <4>1. available_tasks' \in Seq(TaskInfo)
        BY <2>4 DEF IInv, TypeOK
      <4>2. available_tasks'[t] \in TaskInfo
        BY <2>5, <4>1, ElementOfSeq, LenProperties
      <4>. QED  BY <4>2 DEF TaskInfo
    <3>2. available_tasks'[t].cp = 0
      <4>1. OutOf(t)' = {}
        BY <2>3 DEF OutOf
      <4>2. available_tasks'[t].cp = Cardinality(OutOf(t)')
        BY <2>4, <2>5 DEF IInv, Accounting, OutOf
      <4>. QED  BY <4>1, <4>2, FS_EmptySet
    <3>3. ~HasMore(t)'
      BY <2>4, <2>5 DEF IInv, QueueExact, HasMore, Handed
    <3>4. available_tasks'[t].n > 0 =>
              available_tasks'[t].started + available_tasks'[t].cp
                  <= available_tasks'[t].n
      BY <2>4, <2>5 DEF IInv, QueueExact, Handed
    <3>. QED  BY <3>1, <3>2, <3>3, <3>4 DEF WorkedOff, HasMore, Handed
  <2>. QED  BY <2>2, <2>3, <2>5
<1>2. IInv /\ [Next]_vars =>
          [statistic_send' # statistic_send =>
              /\ out' = {}
              /\ \/ solution_found'
                 \/ \A t \in DOMAIN available_tasks' : WorkedOff(t)']_vars
  BY <1>1, SchedulerAssumption
<1>. QED  BY <1>2, Invariant, PTL DEF Spec, CompleteStatistics

(* After a solution nothing is given out.                                  *)
THEOREM NothingGivenAfterSolution == Spec => NothingAfterSolution
<1>1. ASSUME IInv, [Next]_vars, solution_found
      PROVE  out' \subseteq out
  <2>1. ~Give
    BY <1>1 DEF IInv, ServingUnsolved, Give, HandOut
  <2>. QED  BY <1>1, <2>1, Untouched DEF Return
<1>2. IInv /\ [Next]_vars => [solution_found => out' \subseteq out]_vars
  BY <1>1
<1>. QED  BY <1>2, Invariant, PTL DEF Spec, NothingAfterSolution
=============================================================================
