-------------------------- MODULE ClusterFlow_proofs --------------------------
(***************************************************************************)
(* Where the instances are, proved: each step of Cluster leaves every      *)
(* instance in its place, moves some from one place to the next, or drops  *)
(* them after a worker was told to stop (or died); GET_INSTANCES alone     *)
(* puts new ones in, DONE_PROCESSING alone takes one out.  Hence the part  *)
(* Flow of ClusterInvariant is kept.                                       *)
(***************************************************************************)
EXTENDS ClusterControl_proofs

(* The instances in a channel or a queue, by what it contains.             *)
SentIn(channel) ==
    UNION {InstancesOfJobs(channel[i].jobs) :
              i \in {j \in DOMAIN channel : channel[j].tag = "SEND_INSTANCES"}}

ReturnedIn(channel) ==
    {channel[i].inst :
        i \in {j \in DOMAIN channel : channel[j].tag = "DONE_PROCESSING"}}

DoneIn(queue) == {queue[i].inst : i \in DOMAIN queue}

SolvingIn(threads) ==
    {threads[i].inst : i \in {j \in Thread : threads[j].inst # NoInstance}}

(* What a message carries.                                                 *)
Carried(msg) ==
    IF msg.tag = "SEND_INSTANCES" THEN InstancesOfJobs(msg.jobs) ELSE {}

-----------------------------------------------------------------------------
(* The jobs of SEND_INSTANCES: one more is given out (server.hpp:371).     *)
LEMMA JobsAppended ==
    ASSUME NEW jobs \in Seq(JobType), NEW job \in JobType
    PROVE  /\ InstancesOfJobs(Append(jobs, job)) =
                  InstancesOfJobs(jobs) \cup InstancesOf(job)
           /\ /\ JobsApart(jobs)
              /\ InstancesOfJobs(jobs) \cap InstancesOf(job) = {}
              => JobsApart(Append(jobs, job))
<1>. DEFINE more == Append(jobs, job)
            n == Len(jobs)
<1>1. /\ n \in Nat /\ DOMAIN jobs = 1 .. n /\ DOMAIN more = 1 .. n + 1
      /\ more[n + 1] = job
      /\ \A i \in 1 .. n : more[i] = jobs[i]
  BY LastOfAppend
<1>. HIDE DEF more, n
<1>2. \A i \in DOMAIN more : i \in DOMAIN jobs \/ i = n + 1
  BY <1>1
<1>3. InstancesOfJobs(more) = InstancesOfJobs(jobs) \cup InstancesOf(job)
  <2>1. ASSUME NEW inst \in InstancesOfJobs(more)
        PROVE  inst \in InstancesOfJobs(jobs) \cup InstancesOf(job)
    BY <1>1, <1>2, <2>1 DEF InstancesOfJobs
  <2>2. ASSUME NEW inst \in InstancesOfJobs(jobs)
        PROVE  inst \in InstancesOfJobs(more)
    <3>1. PICK i \in DOMAIN jobs : inst \in InstancesOf(jobs[i])
      BY DEF InstancesOfJobs
    <3>2. i \in DOMAIN more /\ inst \in InstancesOf(more[i])
      BY <1>1, <3>1
    <3>. QED  BY <3>2 DEF InstancesOfJobs
  <2>3. ASSUME NEW inst \in InstancesOf(job)
        PROVE  inst \in InstancesOfJobs(more)
    <3>2. n + 1 \in DOMAIN more /\ inst \in InstancesOf(more[n + 1])
      BY <1>1, <2>3
    <3>. QED  BY <3>2 DEF InstancesOfJobs
  <2>. QED  BY <2>1, <2>2, <2>3
<1>4. ASSUME JobsApart(jobs), InstancesOfJobs(jobs) \cap InstancesOf(job) = {},
             NEW i \in DOMAIN more, NEW j \in DOMAIN more, i # j
      PROVE  InstancesOf(more[i]) \cap InstancesOf(more[j]) = {}
  <2>1. \A k \in DOMAIN jobs : InstancesOf(jobs[k]) \cap InstancesOf(job) = {}
    BY <1>4 DEF InstancesOfJobs
  <2>2. CASE i \in DOMAIN jobs /\ j \in DOMAIN jobs
    BY <1>1, <1>4, <2>2 DEF JobsApart
  <2>3. CASE i \in DOMAIN jobs /\ j = n + 1
    BY <1>1, <2>1, <2>3
  <2>4. CASE i = n + 1 /\ j \in DOMAIN jobs
    BY <1>1, <2>1, <2>4
  <2>. QED  BY <1>2, <1>4, <2>2, <2>3, <2>4
<1>. QED  BY <1>3, <1>4 DEF JobsApart, more

(* ... and taken one after the other (worker.cpp, create_tasks).           *)
LEMMA JobsTaken ==
    ASSUME NEW jobs \in Seq(JobType), jobs # <<>>
    PROVE  /\ Head(jobs) \in JobType /\ Tail(jobs) \in Seq(JobType)
           /\ InstancesOfJobs(jobs) =
                  InstancesOf(Head(jobs)) \cup InstancesOfJobs(Tail(jobs))
           /\ JobsApart(jobs) =>
                  /\ JobsApart(Tail(jobs))
                  /\ InstancesOf(Head(jobs)) \cap InstancesOfJobs(Tail(jobs)) = {}
<1>. DEFINE rest == Tail(jobs)
            n == Len(jobs)
<1>1. /\ n \in Nat \ {0} /\ DOMAIN jobs = 1 .. n /\ DOMAIN rest = 1 .. n - 1
      /\ Head(jobs) = jobs[1] /\ 1 \in DOMAIN jobs
      /\ \A i \in DOMAIN rest : i + 1 \in DOMAIN jobs /\ rest[i] = jobs[i + 1]
      /\ Head(jobs) \in JobType /\ rest \in Seq(JobType)
  BY FirstOfSeq
<1>. HIDE DEF rest, n
<1>2. \A i \in DOMAIN jobs : i = 1 \/ (i - 1 \in DOMAIN rest /\ i = i - 1 + 1)
  BY <1>1
<1>3. InstancesOfJobs(jobs) = InstancesOf(jobs[1]) \cup InstancesOfJobs(rest)
  <2>1. ASSUME NEW inst \in InstancesOfJobs(jobs)
        PROVE  inst \in InstancesOf(jobs[1]) \cup InstancesOfJobs(rest)
    <3>1. PICK i \in DOMAIN jobs : inst \in InstancesOf(jobs[i])
      BY DEF InstancesOfJobs
    <3>2. CASE i # 1
      <4>1. i - 1 \in DOMAIN rest /\ rest[i - 1] = jobs[i]
        BY <1>1, <1>2, <3>2
      <4>. QED  BY <3>1, <4>1 DEF InstancesOfJobs
    <3>. QED  BY <3>1, <3>2
  <2>2. ASSUME NEW inst \in InstancesOfJobs(rest)
        PROVE  inst \in InstancesOfJobs(jobs)
    <3>1. PICK i \in DOMAIN rest : inst \in InstancesOf(rest[i])
      BY DEF InstancesOfJobs
    <3>2. i + 1 \in DOMAIN jobs /\ inst \in InstancesOf(jobs[i + 1])
      BY <1>1, <3>1
    <3>. QED  BY <3>2 DEF InstancesOfJobs
  <2>3. InstancesOf(jobs[1]) \subseteq InstancesOfJobs(jobs)
    BY <1>1 DEF InstancesOfJobs
  <2>. QED  BY <2>1, <2>2, <2>3
<1>4. ASSUME JobsApart(jobs)
      PROVE  /\ JobsApart(rest)
             /\ InstancesOf(jobs[1]) \cap InstancesOfJobs(rest) = {}
  <2>1. ASSUME NEW i \in DOMAIN rest, NEW j \in DOMAIN rest, i # j
        PROVE  InstancesOf(rest[i]) \cap InstancesOf(rest[j]) = {}
    <3>1. i + 1 # j + 1
      BY <1>1, <2>1
    <3>. QED  BY <1>1, <1>4, <3>1 DEF JobsApart
  <2>2. ASSUME NEW i \in DOMAIN rest
        PROVE  InstancesOf(jobs[1]) \cap InstancesOf(rest[i]) = {}
    <3>1. i + 1 # 1
      BY <1>1
    <3>. QED  BY <1>1, <1>4, <3>1 DEF JobsApart
  <2>. QED  BY <2>1, <2>2 DEF JobsApart, InstancesOfJobs
<1>. QED  BY <1>1, <1>3, <1>4 DEF rest

(* No jobs, no instances.                                                  *)
LEMMA NoJobs == InstancesOfJobs(<<>>) = {} /\ JobsApart(<<>>)
BY DEF InstancesOfJobs, JobsApart

(* What a message to a worker adds to the channel ...                      *)
LEMMA SentAppended ==
    ASSUME NEW channel \in Seq(FromServer), NEW msg \in FromServer
    PROVE  SentIn(Append(channel, msg)) = SentIn(channel) \cup Carried(msg)
<1>. DEFINE more == Append(channel, msg)
            n == Len(channel)
<1>1. /\ n \in Nat /\ DOMAIN channel = 1 .. n /\ DOMAIN more = 1 .. n + 1
      /\ more[n + 1] = msg
      /\ \A i \in 1 .. n : more[i] = channel[i]
  BY LastOfAppend
<1>. HIDE DEF more, n
<1>2. \A i \in DOMAIN more : i \in DOMAIN channel \/ i = n + 1
  BY <1>1
<1>3. ASSUME NEW inst \in SentIn(more)
      PROVE  inst \in SentIn(channel) \cup Carried(msg)
  <2>1. PICK i \in DOMAIN more : /\ more[i].tag = "SEND_INSTANCES"
                                 /\ inst \in InstancesOfJobs(more[i].jobs)
    BY DEF SentIn
  <2>2. CASE i \in DOMAIN channel
    BY <1>1, <2>1, <2>2 DEF SentIn
  <2>3. CASE i = n + 1
    BY <1>1, <2>1, <2>3 DEF Carried
  <2>. QED  BY <1>2, <2>2, <2>3
<1>4. ASSUME NEW inst \in SentIn(channel)
      PROVE  inst \in SentIn(more)
  <2>1. PICK i \in DOMAIN channel : /\ channel[i].tag = "SEND_INSTANCES"
                                    /\ inst \in InstancesOfJobs(channel[i].jobs)
    BY DEF SentIn
  <2>2. i \in DOMAIN more /\ more[i] = channel[i]
    BY <1>1
  <2>. QED  BY <2>1, <2>2 DEF SentIn
<1>5. ASSUME NEW inst \in Carried(msg)
      PROVE  inst \in SentIn(more)
  <2>1. n + 1 \in DOMAIN more
    BY <1>1
  <2>. QED  BY <1>1, <1>5, <2>1 DEF SentIn, Carried
<1>. QED  BY <1>3, <1>4, <1>5 DEF more

(* ... and what is left of it when the first one is taken.  There is one   *)
(* answer in a channel at most.                                            *)
LEMMA SentTaken ==
    ASSUME NEW channel \in Seq(FromServer), channel # <<>>,
           \A i, j \in DOMAIN channel :
               /\ channel[i].tag = "SEND_INSTANCES"
               /\ channel[j].tag = "SEND_INSTANCES"
               => i = j
    PROVE  SentIn(Tail(channel)) = SentIn(channel) \ Carried(Head(channel))
           /\ Carried(Head(channel)) \subseteq SentIn(channel)
<1>. DEFINE rest == Tail(channel)
            n == Len(channel)
<1>1. /\ n \in Nat \ {0} /\ DOMAIN channel = 1 .. n /\ DOMAIN rest = 1 .. n - 1
      /\ Head(channel) = channel[1] /\ 1 \in DOMAIN channel
      /\ \A i \in DOMAIN rest : i + 1 \in DOMAIN channel /\ rest[i] = channel[i + 1]
  BY FirstOfSeq
<1>. HIDE DEF rest, n
<1>2. \A i \in DOMAIN channel : i = 1 \/ (i - 1 \in DOMAIN rest /\ i = i - 1 + 1)
  BY <1>1
<1>3. ASSUME NEW inst \in SentIn(rest)
      PROVE  inst \in SentIn(channel) \ Carried(channel[1])
  <2>1. PICK i \in DOMAIN rest : /\ rest[i].tag = "SEND_INSTANCES"
                                 /\ inst \in InstancesOfJobs(rest[i].jobs)
    BY DEF SentIn
  <2>2. i + 1 \in DOMAIN channel /\ rest[i] = channel[i + 1] /\ i + 1 # 1
    BY <1>1
  <2>3. channel[1].tag # "SEND_INSTANCES"
    BY <1>1, <2>1, <2>2
  <2>. QED  BY <2>1, <2>2, <2>3 DEF SentIn, Carried
<1>4. ASSUME NEW inst \in SentIn(channel), inst \notin Carried(channel[1])
      PROVE  inst \in SentIn(rest)
  <2>1. PICK i \in DOMAIN channel : /\ channel[i].tag = "SEND_INSTANCES"
                                    /\ inst \in InstancesOfJobs(channel[i].jobs)
    BY DEF SentIn
  <2>2. i # 1
    BY <1>4, <2>1 DEF Carried
  <2>3. i - 1 \in DOMAIN rest /\ rest[i - 1] = channel[i]
    BY <1>1, <1>2, <2>2
  <2>. QED  BY <2>1, <2>3 DEF SentIn
<1>5. Carried(channel[1]) \subseteq SentIn(channel)
  BY <1>1 DEF Carried, SentIn
<1>. QED  BY <1>1, <1>3, <1>4, <1>5 DEF rest

(* The results in a channel, each there once, when others follow ...       *)
ReturnedOnce(channel) ==
    \A i, j \in DOMAIN channel :
        /\ channel[i].tag = "DONE_PROCESSING"
        /\ channel[j].tag = "DONE_PROCESSING"
        /\ channel[i].inst = channel[j].inst
        => i = j

(* What is returned in two parts of a channel to the server is what is     *)
(* returned in the whole, once if the parts are apart.                     *)
LEMMA ReturnedAppended ==
    ASSUME NEW S, NEW left \in Seq(S), NEW right \in Seq(S)
    PROVE  /\ ReturnedIn(left \o right) = ReturnedIn(left) \cup ReturnedIn(right)
           /\ /\ ReturnedOnce(left) /\ ReturnedOnce(right)
              /\ ReturnedIn(left) \cap ReturnedIn(right) = {}
              => ReturnedOnce(left \o right)
<1>. DEFINE both == left \o right
            n == Len(left)
            m == Len(right)
<1>1. /\ n \in Nat /\ m \in Nat /\ DOMAIN left = 1 .. n /\ DOMAIN right = 1 .. m
      /\ DOMAIN both = 1 .. n + m
      /\ \A i \in DOMAIN left : both[i] = left[i]
      /\ \A i \in DOMAIN right : both[n + i] = right[i]
  BY PartsOfConcat
<1>. HIDE DEF both, n, m
<1>2. ASSUME NEW i \in DOMAIN both
      PROVE  i \in DOMAIN left \/ \E k \in DOMAIN right : i = n + k
  <2>1. CASE i > n
    <3>1. i - n \in DOMAIN right /\ i = n + (i - n)
      BY <1>1, <2>1
    <3>. QED  BY <3>1
  <2>. QED  BY <1>1, <2>1
<1>3. /\ \A i \in DOMAIN left : i \in DOMAIN both
      /\ \A i \in DOMAIN right : n + i \in DOMAIN both
  BY <1>1
<1>4. ReturnedIn(both) = ReturnedIn(left) \cup ReturnedIn(right)
  <2>1. ASSUME NEW inst \in ReturnedIn(both)
        PROVE  inst \in ReturnedIn(left) \cup ReturnedIn(right)
    <3>1. PICK i \in DOMAIN both : /\ both[i].tag = "DONE_PROCESSING"
                                   /\ inst = both[i].inst
      BY DEF ReturnedIn
    <3>2. CASE i \in DOMAIN left
      BY <1>1, <3>1, <3>2 DEF ReturnedIn
    <3>3. ASSUME NEW k \in DOMAIN right, i = n + k
          PROVE  inst \in ReturnedIn(right)
      BY <1>1, <3>1, <3>3 DEF ReturnedIn
    <3>. QED  BY <1>2, <3>2, <3>3
  <2>2. ASSUME NEW inst \in ReturnedIn(left)
        PROVE  inst \in ReturnedIn(both)
    BY <1>1, <1>3 DEF ReturnedIn
  <2>3. ASSUME NEW inst \in ReturnedIn(right)
        PROVE  inst \in ReturnedIn(both)
    <3>1. PICK i \in DOMAIN right : /\ right[i].tag = "DONE_PROCESSING"
                                    /\ inst = right[i].inst
      BY DEF ReturnedIn
    <3>2. n + i \in DOMAIN both /\ both[n + i] = right[i]
      BY <1>1, <1>3
    <3>. QED  BY <3>1, <3>2 DEF ReturnedIn
  <2>. QED  BY <2>1, <2>2, <2>3
<1>5. ASSUME ReturnedOnce(left), ReturnedOnce(right),
             ReturnedIn(left) \cap ReturnedIn(right) = {},
             NEW i \in DOMAIN both, NEW j \in DOMAIN both,
             both[i].tag = "DONE_PROCESSING", both[j].tag = "DONE_PROCESSING",
             both[i].inst = both[j].inst
      PROVE  i = j
  <2>1. ASSUME NEW a \in DOMAIN left, NEW b \in DOMAIN right,
               left[a].tag = "DONE_PROCESSING", right[b].tag = "DONE_PROCESSING"
        PROVE  left[a].inst # right[b].inst
    BY <1>5, <2>1 DEF ReturnedIn
  <2>2. CASE i \in DOMAIN left /\ j \in DOMAIN left
    BY <1>1, <1>5, <2>2 DEF ReturnedOnce
  <2>3. CASE i \in DOMAIN left /\ j \notin DOMAIN left
    <3>1. PICK k \in DOMAIN right : j = n + k
      BY <1>2, <2>3
    <3>. QED  BY <1>1, <1>5, <2>1, <2>3, <3>1
  <2>4. CASE i \notin DOMAIN left /\ j \in DOMAIN left
    <3>1. PICK k \in DOMAIN right : i = n + k
      BY <1>2, <2>4
    <3>. QED  BY <1>1, <1>5, <2>1, <2>4, <3>1
  <2>5. CASE i \notin DOMAIN left /\ j \notin DOMAIN left
    <3>1. PICK k \in DOMAIN right : i = n + k
      BY <1>2, <2>5
    <3>2. PICK l \in DOMAIN right : j = n + l
      BY <1>2, <2>5
    <3>. QED  BY <1>1, <1>5, <3>1, <3>2 DEF ReturnedOnce
  <2>. QED  BY <2>2, <2>3, <2>4, <2>5
<1>. QED  BY <1>4, <1>5 DEF both, ReturnedOnce

(* A single message, or none.                                              *)
LEMMA ReturnedSingle ==
    ASSUME NEW msg
    PROVE  /\ ReturnedIn(<<msg>>) =
                  IF msg.tag = "DONE_PROCESSING" THEN {msg.inst} ELSE {}
           /\ ReturnedOnce(<<msg>>)
           /\ ReturnedIn(<<>>) = {} /\ ReturnedOnce(<<>>)
<1>. DEFINE one == <<msg>>
<1>1. DOMAIN one = {1} /\ one[1] = msg
  OBVIOUS
<1>. HIDE DEF one
<1>2. ReturnedIn(one) = IF msg.tag = "DONE_PROCESSING" THEN {msg.inst} ELSE {}
  BY <1>1 DEF ReturnedIn
<1>3. ReturnedOnce(one)
  BY <1>1 DEF ReturnedOnce
<1>4. ReturnedIn(<<>>) = {} /\ ReturnedOnce(<<>>)
  BY DEF ReturnedIn, ReturnedOnce
<1>. QED  BY <1>2, <1>3, <1>4 DEF one

(* ... and when the first is taken.                                        *)
LEMMA ReturnedTaken ==
    ASSUME NEW channel \in Seq(FromWorker), channel # <<>>, ReturnedOnce(channel)
    PROVE  /\ ReturnedIn(Tail(channel)) =
                  IF Head(channel).tag = "DONE_PROCESSING"
                  THEN ReturnedIn(channel) \ {Head(channel).inst}
                  ELSE ReturnedIn(channel)
           /\ Head(channel).tag = "DONE_PROCESSING" =>
                  Head(channel).inst \in ReturnedIn(channel)
           /\ ReturnedOnce(Tail(channel))
<1>. DEFINE rest == Tail(channel)
            n == Len(channel)
<1>1. /\ n \in Nat \ {0} /\ DOMAIN channel = 1 .. n /\ DOMAIN rest = 1 .. n - 1
      /\ Head(channel) = channel[1] /\ 1 \in DOMAIN channel
      /\ \A i \in DOMAIN rest : i + 1 \in DOMAIN channel /\ rest[i] = channel[i + 1]
  BY FirstOfSeq
<1>. HIDE DEF rest, n
<1>2. \A i \in DOMAIN channel : i = 1 \/ (i - 1 \in DOMAIN rest /\ i = i - 1 + 1)
  BY <1>1
<1>3. ASSUME NEW inst \in ReturnedIn(rest)
      PROVE  /\ inst \in ReturnedIn(channel)
             /\ channel[1].tag = "DONE_PROCESSING" => inst # channel[1].inst
  <2>1. PICK i \in DOMAIN rest : /\ rest[i].tag = "DONE_PROCESSING"
                                 /\ inst = rest[i].inst
    BY DEF ReturnedIn
  <2>2. i + 1 \in DOMAIN channel /\ rest[i] = channel[i + 1] /\ i + 1 # 1
    BY <1>1
  <2>3. channel[1].tag = "DONE_PROCESSING" => inst # channel[1].inst
    BY <1>1, <2>1, <2>2 DEF ReturnedOnce
  <2>. QED  BY <2>1, <2>2, <2>3 DEF ReturnedIn
<1>4. ASSUME NEW inst \in ReturnedIn(channel),
             channel[1].tag = "DONE_PROCESSING" => inst # channel[1].inst
      PROVE  inst \in ReturnedIn(rest)
  <2>1. PICK i \in DOMAIN channel : /\ channel[i].tag = "DONE_PROCESSING"
                                    /\ inst = channel[i].inst
    BY DEF ReturnedIn
  <2>2. i # 1
    BY <1>4, <2>1
  <2>3. i - 1 \in DOMAIN rest /\ rest[i - 1] = channel[i]
    BY <1>1, <1>2, <2>2
  <2>. QED  BY <2>1, <2>3 DEF ReturnedIn
<1>5. channel[1].tag = "DONE_PROCESSING" =>
          ReturnedIn(rest) = ReturnedIn(channel) \ {channel[1].inst}
  BY <1>3, <1>4
<1>6. channel[1].tag # "DONE_PROCESSING" =>
          ReturnedIn(rest) = ReturnedIn(channel)
  BY <1>3, <1>4
<1>7. channel[1].tag = "DONE_PROCESSING" => channel[1].inst \in ReturnedIn(channel)
  BY <1>1 DEF ReturnedIn
<1>8. ASSUME NEW i \in DOMAIN rest, NEW j \in DOMAIN rest,
             rest[i].tag = "DONE_PROCESSING", rest[j].tag = "DONE_PROCESSING",
             rest[i].inst = rest[j].inst
      PROVE  i = j
  <2>1. i + 1 = j + 1
    BY <1>1, <1>8 DEF ReturnedOnce
  <2>. QED  BY <1>1, <2>1
<1>9. ReturnedOnce(rest)
  BY <1>8 DEF ReturnedOnce
<1>. QED  BY <1>1, <1>5, <1>6, <1>7, <1>9 DEF rest

(* Results wait in tasks_done: one more ...                                *)
LEMMA DoneAppended ==
    ASSUME NEW queue \in Seq(DoneType), NEW done \in DoneType
    PROVE  /\ DoneIn(Append(queue, done)) = DoneIn(queue) \cup {done.inst}
           /\ (\A i, j \in DOMAIN queue : queue[i].inst = queue[j].inst => i = j)
              /\ done.inst \notin DoneIn(queue)
              => \A i, j \in DOMAIN Append(queue, done) :
                     Append(queue, done)[i].inst = Append(queue, done)[j].inst
                         => i = j
<1>. DEFINE more == Append(queue, done)
            n == Len(queue)
<1>1. /\ n \in Nat /\ DOMAIN queue = 1 .. n /\ DOMAIN more = 1 .. n + 1
      /\ more[n + 1] = done
      /\ \A i \in 1 .. n : more[i] = queue[i]
  BY LastOfAppend
<1>. HIDE DEF more, n
<1>2. \A i \in DOMAIN more : i \in DOMAIN queue \/ i = n + 1
  BY <1>1
<1>3. DoneIn(more) = DoneIn(queue) \cup {done.inst}
  <2>1. DoneIn(more) \subseteq DoneIn(queue) \cup {done.inst}
    BY <1>1, <1>2 DEF DoneIn
  <2>2. DoneIn(queue) \subseteq DoneIn(more)
    BY <1>1 DEF DoneIn
  <2>3. done.inst \in DoneIn(more)
    <3>1. n + 1 \in DOMAIN more
      BY <1>1
    <3>. QED  BY <1>1, <3>1 DEF DoneIn
  <2>. QED  BY <2>1, <2>2, <2>3
<1>4. ASSUME \A i, j \in DOMAIN queue : queue[i].inst = queue[j].inst => i = j,
             done.inst \notin DoneIn(queue),
             NEW i \in DOMAIN more, NEW j \in DOMAIN more,
             more[i].inst = more[j].inst
      PROVE  i = j
  <2>1. \A k \in DOMAIN queue : queue[k].inst # done.inst
    BY <1>4 DEF DoneIn
  <2>. QED  BY <1>1, <1>2, <1>4, <2>1
<1>. QED  BY <1>3, <1>4 DEF more

(* ... and the first returned.                                             *)
LEMMA DoneTaken ==
    ASSUME NEW queue \in Seq(DoneType), queue # <<>>,
           \A i, j \in DOMAIN queue : queue[i].inst = queue[j].inst => i = j
    PROVE  /\ DoneIn(Tail(queue)) = DoneIn(queue) \ {Head(queue).inst}
           /\ Head(queue).inst \in DoneIn(queue)
           /\ \A i, j \in DOMAIN Tail(queue) :
                  Tail(queue)[i].inst = Tail(queue)[j].inst => i = j
<1>. DEFINE rest == Tail(queue)
            n == Len(queue)
<1>1. /\ n \in Nat \ {0} /\ DOMAIN queue = 1 .. n /\ DOMAIN rest = 1 .. n - 1
      /\ Head(queue) = queue[1] /\ 1 \in DOMAIN queue
      /\ \A i \in DOMAIN rest : i + 1 \in DOMAIN queue /\ rest[i] = queue[i + 1]
  BY FirstOfSeq
<1>. HIDE DEF rest, n
<1>2. \A i \in DOMAIN queue : i = 1 \/ (i - 1 \in DOMAIN rest /\ i = i - 1 + 1)
  BY <1>1
<1>3. ASSUME NEW inst \in DoneIn(rest)
      PROVE  inst \in DoneIn(queue) /\ inst # queue[1].inst
  <2>1. PICK i \in DOMAIN rest : inst = rest[i].inst
    BY DEF DoneIn
  <2>2. i + 1 \in DOMAIN queue /\ rest[i] = queue[i + 1] /\ i + 1 # 1
    BY <1>1
  <2>. QED  BY <1>1, <2>1, <2>2 DEF DoneIn
<1>4. ASSUME NEW inst \in DoneIn(queue), inst # queue[1].inst
      PROVE  inst \in DoneIn(rest)
  <2>1. PICK i \in DOMAIN queue : inst = queue[i].inst
    BY DEF DoneIn
  <2>2. i - 1 \in DOMAIN rest /\ rest[i - 1] = queue[i]
    BY <1>1, <1>2, <1>4, <2>1
  <2>. QED  BY <2>1, <2>2 DEF DoneIn
<1>5. DoneIn(rest) = DoneIn(queue) \ {queue[1].inst}
  BY <1>3, <1>4
<1>6. queue[1].inst \in DoneIn(queue)
  BY <1>1 DEF DoneIn
<1>7. ASSUME NEW i \in DOMAIN rest, NEW j \in DOMAIN rest,
             rest[i].inst = rest[j].inst
      PROVE  i = j
  <2>1. i + 1 = j + 1
    BY <1>1, <1>7
  <2>. QED  BY <1>1, <2>1
<1>. QED  BY <1>1, <1>5, <1>6, <1>7 DEF rest

(* The queue of instances to solve: the tasks of a job are pushed ...      *)
LEMMA QueueAppended ==
    ASSUME NEW queue \in Seq(Instance), NEW job \in JobType
    PROVE  /\ ToSet(queue \o TasksOfJob(job)) = ToSet(queue) \cup InstancesOf(job)
           /\ (\A i, j \in DOMAIN queue : queue[i] = queue[j] => i = j)
              /\ ToSet(queue) \cap InstancesOf(job) = {}
              => \A i, j \in DOMAIN (queue \o TasksOfJob(job)) :
                     (queue \o TasksOfJob(job))[i] = (queue \o TasksOfJob(job))[j]
                         => i = j
<1>. DEFINE new  == TasksOfJob(job)
            more == queue \o new
            n == Len(queue)
<1>1. /\ new \in Seq(Instance) /\ Len(new) = job.num
      /\ \A k \in 1 .. job.num : new[k] = <<job.task, job.first + k - 1>>
  BY TasksOfJobType
<1>2. job.task \in Nat /\ job.first \in Nat /\ job.num \in Nat
  BY DEF JobType
<1>3. /\ n \in Nat /\ DOMAIN queue = 1 .. n /\ DOMAIN new = 1 .. job.num
      /\ DOMAIN more = 1 .. n + job.num
      /\ \A i \in 1 .. n : more[i] = queue[i]
      /\ \A k \in 1 .. job.num : more[n + k] = new[k]
  <2>. HIDE DEF new
  <2>1. /\ n \in Nat /\ Len(new) \in Nat
        /\ DOMAIN queue = 1 .. n /\ DOMAIN new = 1 .. Len(new)
        /\ DOMAIN more = 1 .. n + Len(new)
        /\ \A i \in DOMAIN queue : more[i] = queue[i]
        /\ \A k \in DOMAIN new : more[n + k] = new[k]
    BY <1>1, PartsOfConcat
  <2>. HIDE DEF more, n
  <2>. QED  BY <1>1, <2>1
<1>4. /\ \A k \in DOMAIN new : new[k] \in InstancesOf(job)
      /\ \A inst \in InstancesOf(job) : \E k \in DOMAIN new : new[k] = inst
      /\ \A k, l \in DOMAIN new : new[k] = new[l] => k = l
  <2>. HIDE DEF new, more, n
  <2>1. ASSUME NEW k \in 1 .. job.num
        PROVE  new[k] \in InstancesOf(job)
    <3>1. job.first + k - 1 \in job.first .. job.first + job.num - 1
      BY <1>2
    <3>2. new[k] = <<job.task, job.first + k - 1>>
      BY <1>1
    <3>. QED  BY <3>1, <3>2 DEF InstancesOf
  <2>2. ASSUME NEW inst \in InstancesOf(job)
        PROVE  \E k \in DOMAIN new : new[k] = inst
    <3>1. PICK m \in job.first .. job.first + job.num - 1 : inst = <<job.task, m>>
      BY DEF InstancesOf
    <3>2. PICK k \in 1 .. job.num : k = m - job.first + 1
      BY <1>2
    <3>3. job.first + k - 1 = m
      BY <1>2, <3>2
    <3>. QED  BY <1>1, <1>3, <3>1, <3>3
  <2>3. \A k, l \in 1 .. job.num : new[k] = new[l] => k = l
    <3>1. ASSUME NEW k \in 1 .. job.num, NEW l \in 1 .. job.num, new[k] = new[l]
          PROVE  k = l
      <4>1. job.first + k - 1 = job.first + l - 1
        BY <1>1, <3>1
      <4>. QED  BY <1>2, <4>1
    <3>. QED  BY <3>1
  <2>. QED  BY <1>3, <2>1, <2>2, <2>3
<1>. HIDE DEF more, new, n
<1>5. \A i \in DOMAIN more :
          i \in DOMAIN queue \/ \E k \in DOMAIN new : i = n + k
  <2>1. ASSUME NEW i \in DOMAIN more, i \notin DOMAIN queue
        PROVE  \E k \in DOMAIN new : i = n + k
    <3>1. PICK k \in 1 .. job.num : k = i - n
      BY <1>2, <1>3, <2>1
    <3>. QED  BY <1>2, <1>3, <2>1, <3>1
  <2>. QED  BY <2>1
<1>6. ToSet(more) = ToSet(queue) \cup InstancesOf(job)
  <2>1. ASSUME NEW i \in DOMAIN more
        PROVE  more[i] \in ToSet(queue) \cup InstancesOf(job)
    BY <1>3, <1>4, <1>5 DEF ToSet
  <2>2. ASSUME NEW i \in DOMAIN queue
        PROVE  queue[i] \in ToSet(more)
    <3>1. i \in DOMAIN more /\ more[i] = queue[i]
      BY <1>2, <1>3
    <3>. QED  BY <3>1 DEF ToSet
  <2>3. ASSUME NEW inst \in InstancesOf(job)
        PROVE  inst \in ToSet(more)
    <3>1. PICK k \in DOMAIN new : new[k] = inst
      BY <1>4
    <3>2. n + k \in DOMAIN more /\ more[n + k] = inst
      BY <1>2, <1>3, <3>1
    <3>. QED  BY <3>2 DEF ToSet
  <2>4. ToSet(more) \subseteq ToSet(queue) \cup InstancesOf(job)
    BY <2>1 DEF ToSet
  <2>5. ToSet(queue) \subseteq ToSet(more)
    BY <2>2 DEF ToSet
  <2>. QED  BY <2>3, <2>4, <2>5
<1>7. ASSUME \A i, j \in DOMAIN queue : queue[i] = queue[j] => i = j,
             ToSet(queue) \cap InstancesOf(job) = {},
             NEW i \in DOMAIN more, NEW j \in DOMAIN more, more[i] = more[j]
      PROVE  i = j
  <2>1. \A k \in DOMAIN queue, l \in DOMAIN new : more[k] # more[n + l]
    <3>1. \A k \in DOMAIN queue : more[k] \in ToSet(queue)
      BY <1>3 DEF ToSet
    <3>2. \A l \in DOMAIN new : more[n + l] \in InstancesOf(job)
      BY <1>3, <1>4
    <3>. QED  BY <1>7, <3>1, <3>2
  <2>2. CASE i \in DOMAIN queue /\ j \in DOMAIN queue
    BY <1>3, <1>7, <2>2
  <2>3. CASE i \notin DOMAIN queue /\ j \notin DOMAIN queue
    <3>1. PICK k \in DOMAIN new : i = n + k
      BY <1>5, <2>3
    <3>2. PICK l \in DOMAIN new : j = n + l
      BY <1>5, <2>3
    <3>3. new[k] = new[l]
      BY <1>3, <1>7, <3>1, <3>2
    <3>. QED  BY <1>4, <3>1, <3>2, <3>3
  <2>. QED  BY <1>5, <1>7, <2>1, <2>2, <2>3
<1>. QED  BY <1>6, <1>7 DEF more, new

(* ... and a solver thread pops the first.                                 *)
LEMMA QueueTaken ==
    ASSUME NEW queue \in Seq(Instance), queue # <<>>,
           \A i, j \in DOMAIN queue : queue[i] = queue[j] => i = j
    PROVE  /\ ToSet(Tail(queue)) = ToSet(queue) \ {Head(queue)}
           /\ Head(queue) \in ToSet(queue)
           /\ \A i, j \in DOMAIN Tail(queue) :
                  Tail(queue)[i] = Tail(queue)[j] => i = j
<1>. DEFINE rest == Tail(queue)
            n == Len(queue)
<1>1. /\ n \in Nat \ {0} /\ DOMAIN queue = 1 .. n /\ DOMAIN rest = 1 .. n - 1
      /\ Head(queue) = queue[1] /\ 1 \in DOMAIN queue
      /\ \A i \in DOMAIN rest : i + 1 \in DOMAIN queue /\ rest[i] = queue[i + 1]
  BY FirstOfSeq
<1>. HIDE DEF rest, n
<1>2. \A i \in DOMAIN queue : i = 1 \/ (i - 1 \in DOMAIN rest /\ i = i - 1 + 1)
  BY <1>1
<1>3. ASSUME NEW inst \in ToSet(rest)
      PROVE  inst \in ToSet(queue) /\ inst # queue[1]
  <2>1. PICK i \in DOMAIN rest : inst = rest[i]
    BY DEF ToSet
  <2>2. i + 1 \in DOMAIN queue /\ rest[i] = queue[i + 1] /\ i + 1 # 1
    BY <1>1
  <2>. QED  BY <1>1, <2>1, <2>2 DEF ToSet
<1>4. ASSUME NEW inst \in ToSet(queue), inst # queue[1]
      PROVE  inst \in ToSet(rest)
  <2>1. PICK i \in DOMAIN queue : inst = queue[i]
    BY DEF ToSet
  <2>2. i - 1 \in DOMAIN rest /\ rest[i - 1] = queue[i]
    BY <1>1, <1>2, <1>4, <2>1
  <2>. QED  BY <2>1, <2>2 DEF ToSet
<1>5. ToSet(rest) = ToSet(queue) \ {queue[1]}
  BY <1>3, <1>4
<1>6. queue[1] \in ToSet(queue)
  BY <1>1 DEF ToSet
<1>7. ASSUME NEW i \in DOMAIN rest, NEW j \in DOMAIN rest, rest[i] = rest[j]
      PROVE  i = j
  <2>1. i + 1 = j + 1
    BY <1>1, <1>7
  <2>. QED  BY <1>1, <2>1
<1>. QED  BY <1>1, <1>5, <1>6, <1>7 DEF rest

(* A solver thread takes, keeps or gives up an instance.                   *)
LEMMA ThreadChanged ==
    ASSUME NEW threads \in [Thread -> ThreadType], NEW i \in Thread,
           NEW t \in ThreadType, NEW more, more = [threads EXCEPT ![i] = t],
           \A j, k \in Thread : /\ threads[j].inst = threads[k].inst
                                /\ threads[j].inst # NoInstance
                                => j = k
    PROVE  /\ threads[i].inst # NoInstance =>
                  threads[i].inst \in SolvingIn(threads)
           /\ t.inst = NoInstance =>
                  SolvingIn(more) = SolvingIn(threads) \ {threads[i].inst}
           /\ threads[i].inst = NoInstance /\ t.inst # NoInstance =>
                  SolvingIn(more) = SolvingIn(threads) \cup {t.inst}
           /\ t.inst = threads[i].inst => SolvingIn(more) = SolvingIn(threads)
           /\ \/ t.inst = NoInstance \/ t.inst \notin SolvingIn(threads)
              \/ t.inst = threads[i].inst
              => \A j, k \in Thread : /\ more[j].inst = more[k].inst
                                      /\ more[j].inst # NoInstance
                                      => j = k
<1>1. more[i] = t /\ \A j \in Thread \ {i} : more[j] = threads[j]
  OBVIOUS
<1>2. threads[i].inst # NoInstance => threads[i].inst \in SolvingIn(threads)
  BY DEF SolvingIn
<1>3. t.inst = NoInstance =>
          SolvingIn(more) = SolvingIn(threads) \ {threads[i].inst}
  <2>1. ASSUME t.inst = NoInstance
        PROVE  SolvingIn(more) = SolvingIn(threads) \ {threads[i].inst}
    <3>1. ASSUME NEW inst \in SolvingIn(more)
          PROVE  inst \in SolvingIn(threads) \ {threads[i].inst}
      <4>1. PICK j \in Thread : more[j].inst = inst /\ inst # NoInstance
        BY DEF SolvingIn
      <4>2. j # i /\ threads[j].inst = inst
        BY <1>1, <2>1, <4>1
      <4>. QED  BY <4>1, <4>2 DEF SolvingIn
    <3>2. ASSUME NEW inst \in SolvingIn(threads), inst # threads[i].inst
          PROVE  inst \in SolvingIn(more)
      <4>1. PICK j \in Thread : threads[j].inst = inst /\ inst # NoInstance
        BY DEF SolvingIn
      <4>2. j # i /\ more[j].inst = inst
        BY <1>1, <3>2, <4>1
      <4>. QED  BY <4>1, <4>2 DEF SolvingIn
    <3>. QED  BY <3>1, <3>2
  <2>. QED  BY <2>1
<1>4. threads[i].inst = NoInstance /\ t.inst # NoInstance =>
          SolvingIn(more) = SolvingIn(threads) \cup {t.inst}
  <2>1. ASSUME threads[i].inst = NoInstance, t.inst # NoInstance
        PROVE  SolvingIn(more) = SolvingIn(threads) \cup {t.inst}
    <3>1. ASSUME NEW inst \in SolvingIn(more)
          PROVE  inst \in SolvingIn(threads) \cup {t.inst}
      <4>1. PICK j \in Thread : more[j].inst = inst /\ inst # NoInstance
        BY DEF SolvingIn
      <4>. QED  BY <1>1, <4>1 DEF SolvingIn
    <3>2. ASSUME NEW inst \in SolvingIn(threads)
          PROVE  inst \in SolvingIn(more)
      <4>1. PICK j \in Thread : threads[j].inst = inst /\ inst # NoInstance
        BY DEF SolvingIn
      <4>2. j # i /\ more[j].inst = inst
        BY <1>1, <2>1, <4>1
      <4>. QED  BY <4>1, <4>2 DEF SolvingIn
    <3>3. t.inst \in SolvingIn(more)
      BY <1>1, <2>1 DEF SolvingIn
    <3>. QED  BY <3>1, <3>2, <3>3
  <2>. QED  BY <2>1
<1>5. t.inst = threads[i].inst => SolvingIn(more) = SolvingIn(threads)
  <2>1. ASSUME t.inst = threads[i].inst
        PROVE  SolvingIn(more) = SolvingIn(threads)
    <3>1. \A j \in Thread : more[j].inst = threads[j].inst
      BY <1>1, <2>1
    <3>. QED  BY <3>1 DEF SolvingIn
  <2>. QED  BY <2>1
<1>6. ASSUME \/ t.inst = NoInstance \/ t.inst \notin SolvingIn(threads)
             \/ t.inst = threads[i].inst,
             NEW j \in Thread, NEW k \in Thread, more[j].inst = more[k].inst,
             more[j].inst # NoInstance
      PROVE  j = k
  <2>1. \A l \in Thread : threads[l].inst # NoInstance =>
            threads[l].inst \in SolvingIn(threads)
    BY DEF SolvingIn
  <2>. QED  BY <1>1, <1>6, <2>1
<1>. QED  BY <1>2, <1>3, <1>4, <1>5, <1>6

-----------------------------------------------------------------------------
(* The places, kind by kind, in a state and in the next.                   *)
LEMMA PlacesByKind ==
    ASSUME NEW w \in Worker
    PROVE  /\ /\ Places[w]["reply"] = Replied(w)
              /\ Places[w]["sent"] = SentIn(s2w[w])
              /\ Places[w]["jobs"] = Unqueued(w)
              /\ Places[w]["queue"] = ToSet(tasks[w])
              /\ Places[w]["thread"] = SolvingIn(thread[w])
              /\ Places[w]["done"] = DoneIn(tasks_done[w])
              /\ Places[w]["returned"] = ReturnedIn(w2s[w])
           /\ /\ Places'[w]["reply"] = Replied(w)'
              /\ Places'[w]["sent"] = SentIn(s2w'[w])
              /\ Places'[w]["jobs"] = Unqueued(w)'
              /\ Places'[w]["queue"] = ToSet(tasks'[w])
              /\ Places'[w]["thread"] = SolvingIn(thread'[w])
              /\ Places'[w]["done"] = DoneIn(tasks_done'[w])
              /\ Places'[w]["returned"] = ReturnedIn(w2s'[w])
<1>1. Places[w] = Held(w) /\ Places'[w] = Held(w)'
  BY DEF Places
<1>2. /\ Sent(w) = SentIn(s2w[w]) /\ Sent(w)' = SentIn(s2w'[w])
      /\ Solving(w) = SolvingIn(thread[w]) /\ Solving(w)' = SolvingIn(thread'[w])
      /\ Done(w) = DoneIn(tasks_done[w]) /\ Done(w)' = DoneIn(tasks_done'[w])
      /\ Returned(w) = ReturnedIn(w2s[w]) /\ Returned(w)' = ReturnedIn(w2s'[w])
  BY DEF Sent, SentIn, Solving, SolvingIn, Done, DoneIn, Returned, ReturnedIn
<1>3. /\ Held(w)["reply"] = Replied(w) /\ Held(w)["sent"] = Sent(w)
      /\ Held(w)["jobs"] = Unqueued(w) /\ Held(w)["queue"] = ToSet(tasks[w])
      /\ Held(w)["thread"] = Solving(w) /\ Held(w)["done"] = Done(w)
      /\ Held(w)["returned"] = Returned(w)
  BY DEF Held, Kind
<1>4. /\ Held(w)'["reply"] = Replied(w)' /\ Held(w)'["sent"] = Sent(w)'
      /\ Held(w)'["jobs"] = Unqueued(w)' /\ Held(w)'["queue"] = ToSet(tasks'[w])
      /\ Held(w)'["thread"] = Solving(w)' /\ Held(w)'["done"] = Done(w)'
      /\ Held(w)'["returned"] = Returned(w)'
  BY DEF Held, Kind
<1>. QED  BY <1>1, <1>2, <1>3, <1>4

(* A place is as full as before when its variable is.                      *)
LEMMA PlacesStay ==
    ASSUME NEW w \in Worker
    PROVE  /\ reply' = reply => Places'[w]["reply"] = Places[w]["reply"]
           /\ s2w'[w] = s2w[w] => Places'[w]["sent"] = Places[w]["sent"]
           /\ /\ w_jobs'[w] = w_jobs[w]
              /\ w_pc'[w] = "store" <=> w_pc[w] = "store"
              => Places'[w]["jobs"] = Places[w]["jobs"]
           /\ tasks'[w] = tasks[w] => Places'[w]["queue"] = Places[w]["queue"]
           /\ thread'[w] = thread[w] => Places'[w]["thread"] = Places[w]["thread"]
           /\ tasks_done'[w] = tasks_done[w] =>
                  Places'[w]["done"] = Places[w]["done"]
           /\ w2s'[w] = w2s[w] => Places'[w]["returned"] = Places[w]["returned"]
<1>1. reply' = reply => Replied(w)' = Replied(w)
  BY DEF Replied
<1>2. /\ w_jobs'[w] = w_jobs[w]
      /\ w_pc'[w] = "store" <=> w_pc[w] = "store"
      => Unqueued(w)' = Unqueued(w)
  BY DEF Unqueued, At
<1>. QED  BY <1>1, <1>2, PlacesByKind

(* X goes from place a of worker w to place b, or away when a = b.         *)
Moved(w, a, b, X) ==
    \A v \in Worker, k \in Kind :
        Places'[v][k] =
            IF v = w /\ k = a THEN Places[v][k] \ X
            ELSE IF v = w /\ k = b THEN Places[v][k] \cup X
            ELSE Places[v][k]

Kept == \A v \in Worker, k \in Kind : Places'[v][k] = Places[v][k]

(* What a step of the program does to the instances.                       *)
FlowStep ==
    /\ Lost => Lost'
    /\ \/ Kept /\ out' = out
       \/ \E w \in Worker, a, b \in Kind : \E X :
              /\ a # b /\ X \subseteq Places[w][a]
              /\ Moved(w, a, b, X) /\ out' = out
       \/ \E w \in Worker, a \in Kind : \E X :
              Moved(w, a, a, X) /\ Lost' /\ out' = out
       \/ \E w \in Worker : \E X :
              /\ X \cap out = {}
              /\ Moved(w, "nowhere", "reply", X) /\ out' = out \cup X
       \/ \E w \in Worker : \E inst :
              /\ inst \in Places[w]["returned"]
              /\ Moved(w, "returned", "returned", {inst}) /\ out' = out \ {inst}

(* Such a step loses no instance and puts none in two places.              *)
LEMMA PlacesKept ==
    ASSUME Apart, Accounted, FlowStep
    PROVE  Apart' /\ Accounted'
<1>. DEFINE P == Places
            Q == Places'
<1>1. /\ \A w1, w2 \in Worker, k1, k2 \in Kind : \A i :
             i \in P[w1][k1] /\ i \in P[w2][k2] => w1 = w2 /\ k1 = k2
      /\ \A w \in Worker, k \in Kind : \A i : i \in P[w][k] => i \in out
      /\ \A inst \in out : Lost \/ \E w \in Worker, k \in Kind : inst \in P[w][k]
      /\ Lost => Lost'
  BY DEF Apart, ApartIn, Accounted, FlowStep
<1>2. SUFFICES
      /\ \A w1, w2 \in Worker, k1, k2 \in Kind : \A i :
             i \in Q[w1][k1] /\ i \in Q[w2][k2] => w1 = w2 /\ k1 = k2
      /\ \A w \in Worker, k \in Kind : \A i : i \in Q[w][k] => i \in out'
      /\ \A inst \in out' : Lost' \/ \E w \in Worker, k \in Kind : inst \in Q[w][k]
  BY DEF Apart, ApartIn, Accounted
<1>3. CASE Kept /\ out' = out
  BY <1>1, <1>3 DEF Kept
<1>4. CASE \E w \in Worker, a, b \in Kind : \E X :
              /\ a # b /\ X \subseteq Places[w][a]
              /\ Moved(w, a, b, X) /\ out' = out
  <2>1. PICK w, a, b, X :
              /\ w \in Worker /\ a \in Kind /\ b \in Kind
              /\ a # b /\ X \subseteq P[w][a]
              /\ Moved(w, a, b, X) /\ out' = out
    BY <1>4
  <2>2. /\ \A v \in Worker, k \in Kind : \A i : i \in Q[v][k] =>
               \/ i \in P[v][k] /\ ~(v = w /\ k = a /\ i \in X)
               \/ v = w /\ k = b /\ i \in X
        /\ \A v \in Worker, k \in Kind : \A i : i \in P[v][k] =>
               i \in Q[v][k] \/ i \in Q[w][b]
        /\ \A i : i \in X => i \in P[w][a]
    BY <2>1 DEF Moved
  <2>. HIDE DEF P, Q
  <2>3. ASSUME NEW w1 \in Worker, NEW w2 \in Worker, NEW k1 \in Kind,
               NEW k2 \in Kind, NEW i, i \in Q[w1][k1], i \in Q[w2][k2]
        PROVE  w1 = w2 /\ k1 = k2
    BY <1>1, <2>1, <2>2, <2>3
  <2>4. \A v \in Worker, k \in Kind : \A i : i \in Q[v][k] => i \in out'
    BY <1>1, <2>1, <2>2
  <2>5. ASSUME NEW i \in out', ~Lost'
        PROVE  \E v \in Worker, k \in Kind : i \in Q[v][k]
    BY <1>1, <2>1, <2>2, <2>5
  <2>. QED  BY <2>3, <2>4, <2>5
<1>5. CASE \E w \in Worker, a \in Kind : \E X :
              Moved(w, a, a, X) /\ Lost' /\ out' = out
  <2>1. \A v \in Worker, k \in Kind : \A i : i \in Q[v][k] => i \in P[v][k]
    BY <1>5 DEF Moved
  <2>. HIDE DEF P, Q
  <2>. QED  BY <1>1, <1>5, <2>1
<1>6. CASE \E w \in Worker : \E X :
              /\ X \cap out = {}
              /\ Moved(w, "nowhere", "reply", X) /\ out' = out \cup X
  <2>1. PICK w, X :
              /\ w \in Worker
              /\ X \cap out = {}
              /\ Moved(w, "nowhere", "reply", X) /\ out' = out \cup X
    BY <1>6
  <2>2. /\ \A v \in Worker, k \in Kind : \A i :
               i \in Q[v][k] <=> \/ i \in P[v][k]
                                 \/ v = w /\ k = "reply" /\ i \in X
        /\ \A i : i \in X => i \notin out
        /\ \A i : i \in out' <=> i \in out \/ i \in X
        /\ "reply" \in Kind
    BY <2>1 DEF Moved, Kind
  <2>. HIDE DEF P, Q
  <2>3. ASSUME NEW w1 \in Worker, NEW w2 \in Worker, NEW k1 \in Kind,
               NEW k2 \in Kind, NEW i, i \in Q[w1][k1], i \in Q[w2][k2]
        PROVE  w1 = w2 /\ k1 = k2
    BY <1>1, <2>2, <2>3
  <2>4. \A v \in Worker, k \in Kind : \A i : i \in Q[v][k] => i \in out'
    BY <1>1, <2>2
  <2>5. ASSUME NEW i \in out', ~Lost'
        PROVE  \E v \in Worker, k \in Kind : i \in Q[v][k]
    BY <1>1, <2>1, <2>2, <2>5
  <2>. QED  BY <2>3, <2>4, <2>5
<1>7. CASE \E w \in Worker : \E inst :
              /\ inst \in Places[w]["returned"]
              /\ Moved(w, "returned", "returned", {inst}) /\ out' = out \ {inst}
  <2>1. PICK w, inst :
              /\ w \in Worker
              /\ inst \in P[w]["returned"]
              /\ Moved(w, "returned", "returned", {inst}) /\ out' = out \ {inst}
    BY <1>7
  <2>2. /\ \A v \in Worker, k \in Kind : \A i :
               i \in Q[v][k] <=> /\ i \in P[v][k]
                                 /\ ~(v = w /\ k = "returned" /\ i = inst)
        /\ \A i : i \in out' <=> i \in out /\ i # inst
        /\ "returned" \in Kind
    BY <2>1 DEF Moved, Kind
  <2>. HIDE DEF P, Q
  <2>3. ASSUME NEW w1 \in Worker, NEW w2 \in Worker, NEW k1 \in Kind,
               NEW k2 \in Kind, NEW i, i \in Q[w1][k1], i \in Q[w2][k2]
        PROVE  w1 = w2 /\ k1 = k2
    BY <1>1, <2>2, <2>3
  <2>4. ASSUME NEW v \in Worker, NEW k \in Kind, NEW i, i \in Q[v][k]
        PROVE  i \in out'
    <3>1. i \in P[v][k] /\ ~(v = w /\ k = "returned" /\ i = inst)
      BY <2>2, <2>4
    <3>2. i # inst
      BY <1>1, <2>1, <2>2, <3>1
    <3>. QED  BY <1>1, <2>2, <3>1, <3>2
  <2>5. ASSUME NEW i \in out', ~Lost'
        PROVE  \E v \in Worker, k \in Kind : i \in Q[v][k]
    BY <1>1, <2>2, <2>5
  <2>. QED  BY <2>3, <2>4, <2>5
<1>. QED  BY <1>3, <1>4, <1>5, <1>6, <1>7 DEF FlowStep

-----------------------------------------------------------------------------
SameAt(v) ==
    /\ s2w'[v] = s2w[v] /\ w_jobs'[v] = w_jobs[v] /\ tasks'[v] = tasks[v]
    /\ thread'[v] = thread[v] /\ tasks_done'[v] = tasks_done[v]
    /\ w2s'[v] = w2s[v]

(* A step of one worker changes nothing at another.                        *)
LEMMA Elsewhere ==
    ASSUME WorkerTypes, ChannelTypes, NEW w \in Worker,
           MainAlone(w) \/ \E i \in Thread : ThreadAlone(w, i),
           NEW v \in Worker \ {w}
    PROVE  /\ \A k \in Kind : Places'[v][k] = Places[v][k]
           /\ SameAt(v)
<1>1. reply' = reply
  BY DEF MainAlone, ThreadAlone, server_vars
<1>2. s2w'[v] = s2w[v]
  <2>1. CASE MainAlone(w)
    BY <2>1 DEF MainAlone, MainThread, Activate, ReturnTask, NothingToReturn,
      Probe, Await, CreateTasks, UnreadableFormula, StoreCounter, Join,
      Disconnect, ReceiveFromServer, ChannelTypes
  <2>2. CASE \E i \in Thread : ThreadAlone(w, i)
    BY <2>2, SolverLeaves DEF ThreadAlone
  <2>. QED  BY <2>1, <2>2
<1>3. w2s'[v] = w2s[v]
  <2>1. CASE MainAlone(w)
    BY <2>1 DEF MainAlone, MainThread, Activate, ReturnTask, NothingToReturn,
      Probe, Await, CreateTasks, UnreadableFormula, StoreCounter, Join,
      Disconnect, ReceiveFromServer, Send, ChannelTypes
  <2>2. CASE \E i \in Thread : ThreadAlone(w, i)
    BY <2>2, SolverLeaves DEF ThreadAlone
  <2>. QED  BY <2>1, <2>2
<1>4. w_pc'[v] = w_pc[v]
  <2>1. CASE MainAlone(w)
    BY <2>1 DEF MainAlone, MainThread, Activate, ReturnTask, NothingToReturn,
      Probe, Await, CreateTasks, UnreadableFormula, StoreCounter, Join,
      Disconnect, Goto, WorkerTypes
  <2>2. CASE \E i \in Thread : ThreadAlone(w, i)
    BY <2>2, SolverLeaves DEF ThreadAlone
  <2>. QED  BY <2>1, <2>2
<1>5. w_jobs'[v] = w_jobs[v]
  <2>1. CASE MainAlone(w)
    BY <2>1 DEF MainAlone, MainThread, Activate, ReturnTask, NothingToReturn,
      Probe, Await, CreateTasks, UnreadableFormula, StoreCounter, Join,
      Disconnect, WorkerTypes
  <2>2. CASE \E i \in Thread : ThreadAlone(w, i)
    BY <2>2, SolverLeaves DEF ThreadAlone
  <2>. QED  BY <2>1, <2>2
<1>6. tasks'[v] = tasks[v] /\ tasks_done'[v] = tasks_done[v]
  <2>1. CASE MainAlone(w)
    BY <2>1 DEF MainAlone, MainThread, Activate, ReturnTask, NothingToReturn,
      Probe, Await, CreateTasks, UnreadableFormula, StoreCounter, Join,
      Disconnect, WorkerTypes
  <2>2. CASE \E i \in Thread : ThreadAlone(w, i)
    BY <2>2 DEF ThreadAlone, SolverThread, PopTask, StopPolling, StartTask,
      FinishTask, StoreIncremented, WorkerTypes
  <2>. QED  BY <2>1, <2>2
<1>7. thread'[v] = thread[v]
  <2>1. CASE MainAlone(w)
    BY <2>1 DEF MainAlone, MainThread, Activate, ReturnTask, NothingToReturn,
      Probe, Await, CreateTasks, UnreadableFormula, StoreCounter, Join,
      Disconnect, WorkerTypes
  <2>2. CASE \E i \in Thread : ThreadAlone(w, i)
    BY <2>2 DEF ThreadAlone, SolverThread, PopTask, StopPolling, StartTask,
      FinishTask, StoreIncremented, SetThread, WorkerTypes
  <2>. QED  BY <2>1, <2>2
<1>. QED
  BY <1>1, <1>2, <1>3, <1>4, <1>5, <1>6, <1>7, PlacesStay DEF Kind, SameAt

(* At the worker itself it is enough to look at each kind.                 *)
LEMMA MovedHere ==
    ASSUME NEW w \in Worker,
           \A v \in Worker \ {w}, k \in Kind : Places'[v][k] = Places[v][k],
           NEW a, NEW b, NEW X,
           \A k \in Kind : Places'[w][k] = IF k = a THEN Places[w][k] \ X
                                           ELSE IF k = b THEN Places[w][k] \cup X
                                           ELSE Places[w][k]
    PROVE  Moved(w, a, b, X)
BY DEF Moved

(* Once somebody is told to stop, or dies, that stays so.                  *)
LEMMA LostStays ==
    ASSUME WorkerTypes, ChannelTypes, Stopping, Farewell, Next
    PROVE  Lost => Lost'
<1>1. terminated_workers => terminated_workers'
  BY TerminationNoted
<1>2. ASSUME NEW w \in Worker, w_pc[w] = "aborted"
      PROVE  w_pc'[w] = "aborted"
  <2>1. MainAlone(w) => FALSE
    BY <1>2, MainMoves DEF MainAlone
  <2>. QED  BY <1>2, <2>1, WhereNext
<1>. QED  BY <1>1, <1>2 DEF Lost

(* What a worker sends: its results, a request or a farewell.  Only        *)
(* return_task sends results, and each is one instance.                    *)
LEMMA WorkerReturns ==
    ASSUME WorkerTypes, ChannelTypes, NEW w \in Worker,
           ReturnTask(w) \/ Probe(w) \/ Disconnect(w)
    PROVE  \E msgs \in Seq(FromWorker) :
               /\ w2s'[w] = w2s[w] \o msgs
               /\ ReturnedOnce(msgs)
               /\ ReturnedIn(msgs) =
                      IF ReturnTask(w) /\ Head(tasks_done[w]).outcome # "failed"
                      THEN {Head(tasks_done[w]).inst} ELSE {}
<1>1. w2s[w] \in Seq(FromWorker)
  BY DEF ChannelTypes
<1>2. CASE ReturnTask(w) /\ Head(tasks_done[w]).outcome # "failed"
  <2>. DEFINE done == Head(tasks_done[w])
              told == DoneProcessing(done.inst, done.outcome = "solved")
              news == FoundSolution(done.inst[1])
  <2>1. done \in DoneType
    BY <1>2, FirstOfSeq DEF ReturnTask, WorkerTypes
  <2>2. done.inst \in Instance /\ done.inst[1] \in Nat
    BY <2>1 DEF DoneType, Instance
  <2>3. told \in FromWorker /\ news \in FromWorker
    BY <2>2, WorkerMessages
  <2>4. /\ told.tag = "DONE_PROCESSING" /\ told.inst = done.inst
        /\ news.tag = "FOUND_SOLUTION"
    BY WorkerTags
  <2>5. w2s'[w] = w2s[w] \o ((IF done.outcome = "solved" THEN <<news>> ELSE <<>>)
                               \o <<told>>)
    BY <1>2 DEF ReturnTask, Send, ChannelTypes, ReturnMessages
  <2>. HIDE DEF told, news
  <2>6. PICK first \in Seq(FromWorker) :
            /\ first = IF done.outcome = "solved" THEN <<news>> ELSE <<>>
            /\ ReturnedIn(first) = {} /\ ReturnedOnce(first)
    <3>1. <<news>> \in Seq(FromWorker) /\ <<>> \in Seq(FromWorker)
      BY <2>3, SingleSeq, EmptySeq
    <3>2. /\ ReturnedIn(<<news>>) = {} /\ ReturnedOnce(<<news>>)
          /\ ReturnedIn(<<>>) = {} /\ ReturnedOnce(<<>>)
      BY <2>4, ReturnedSingle
    <3>3. CASE done.outcome = "solved"
      BY <3>1, <3>2, <3>3
    <3>4. CASE done.outcome # "solved"
      BY <3>1, <3>2, <3>4
    <3>. QED  BY <3>3, <3>4
  <2>7. PICK last \in Seq(FromWorker) :
            /\ last = <<told>>
            /\ ReturnedIn(last) = {done.inst} /\ ReturnedOnce(last)
    BY <2>3, <2>4, SingleSeq, ReturnedSingle
  <2>8. PICK msgs \in Seq(FromWorker) :
            /\ msgs = first \o last
            /\ ReturnedIn(msgs) = {done.inst} /\ ReturnedOnce(msgs)
    <3>1. first \o last \in Seq(FromWorker)
      BY PartsOfConcat
    <3>2. ReturnedIn(first \o last) = ReturnedIn(first) \cup ReturnedIn(last)
      BY ReturnedAppended
    <3>3. ReturnedIn(first) \cap ReturnedIn(last) = {}
      BY <2>6
    <3>4. ReturnedOnce(first \o last)
      BY <2>6, <2>7, <3>3, ReturnedAppended
    <3>. QED  BY <2>6, <2>7, <3>1, <3>2, <3>4
  <2>9. w2s'[w] = w2s[w] \o msgs
    BY <2>5, <2>6, <2>7, <2>8
  <2>. QED  BY <1>2, <2>8, <2>9
<1>3. CASE ~(ReturnTask(w) /\ Head(tasks_done[w]).outcome # "failed")
  <2>1. \/ w2s'[w] = w2s[w] \o <<>>
        \/ \E msg \in FromWorker : /\ w2s'[w] = w2s[w] \o <<msg>>
                                   /\ msg.tag # "DONE_PROCESSING"
    <3>1. CASE ReturnTask(w)
      <4>1. \/ w2s'[w] = w2s[w]
            \/ w2s'[w] = w2s[w] \o <<DisconnectWorker>>
        BY <1>3, <3>1 DEF ReturnTask, Send, ChannelTypes
      <4>. QED  BY <1>1, <4>1, ConcatEmptySeq, WorkerMessages, WorkerTags
    <3>2. CASE Probe(w)
      <4>1. \/ w2s'[w] = w2s[w] \o <<>>
            \/ w2s'[w] = w2s[w] \o <<GetInstances(instances_to_get[w])>>
        BY <3>2 DEF Probe, Send, ChannelTypes
      <4>2. GetInstances(instances_to_get[w]) \in FromWorker
        BY DEF FromWorker, WorkerTypes
      <4>. QED  BY <4>1, <4>2, WorkerTags
    <3>3. CASE Disconnect(w)
      <4>1. w2s'[w] = w2s[w] \o <<DisconnectWorker>>
        BY <3>3 DEF Disconnect, Send, ChannelTypes
      <4>. QED  BY <4>1, WorkerMessages, WorkerTags
    <3>. QED  BY <3>1, <3>2, <3>3
  <2>2. \E msgs \in Seq(FromWorker) : /\ w2s'[w] = w2s[w] \o msgs
                                      /\ ReturnedIn(msgs) = {}
                                      /\ ReturnedOnce(msgs)
    <3>1. CASE w2s'[w] = w2s[w] \o <<>>
      BY <3>1, EmptySeq, ReturnedSingle
    <3>2. ASSUME NEW msg \in FromWorker, w2s'[w] = w2s[w] \o <<msg>>,
                 msg.tag # "DONE_PROCESSING"
          PROVE  \E msgs \in Seq(FromWorker) : /\ w2s'[w] = w2s[w] \o msgs
                                               /\ ReturnedIn(msgs) = {}
                                               /\ ReturnedOnce(msgs)
      <4>1. PICK msgs \in Seq(FromWorker) : msgs = <<msg>>
        BY SingleSeq
      <4>2. ReturnedIn(msgs) = {} /\ ReturnedOnce(msgs)
        BY <3>2, <4>1, ReturnedSingle
      <4>. QED  BY <3>2, <4>1, <4>2
    <3>. QED  BY <2>1, <3>1, <3>2
  <2>. QED  BY <1>3, <2>2
<1>. QED  BY <1>2, <1>3

(* No queue, channel or thread holds an instance twice.                    *)
SentOnce(channel) ==
    \A i \in DOMAIN channel :
        channel[i].tag = "SEND_INSTANCES" => JobsApart(channel[i].jobs)

QueueOnce(queue) == \A i, j \in DOMAIN queue : queue[i] = queue[j] => i = j

SolvingOnce(threads) ==
    \A i, j \in Thread : /\ threads[i].inst = threads[j].inst
                         /\ threads[i].inst # NoInstance
                         => i = j

DoneOnce(queue) ==
    \A i, j \in DOMAIN queue : queue[i].inst = queue[j].inst => i = j

(* Once, place by place: in no place does an instance stand twice (the     *)
(* answer, the channels, the queues and the threads).                      *)
LEMMA OnceParts ==
    /\ Once <=>
           /\ JobsApart(reply.jobs)
           /\ \A w \in Worker :
                  /\ SentOnce(s2w[w]) /\ JobsApart(w_jobs[w])
                  /\ QueueOnce(tasks[w]) /\ SolvingOnce(thread[w])
                  /\ DoneOnce(tasks_done[w]) /\ ReturnedOnce(w2s[w])
    /\ Once' <=>
           /\ JobsApart(reply'.jobs)
           /\ \A w \in Worker :
                  /\ SentOnce(s2w'[w]) /\ JobsApart(w_jobs'[w])
                  /\ QueueOnce(tasks'[w]) /\ SolvingOnce(thread'[w])
                  /\ DoneOnce(tasks_done'[w]) /\ ReturnedOnce(w2s'[w])
BY Zenon DEF Once, SentOnce, QueueOnce, SolvingOnce, DoneOnce, ReturnedOnce

(* After a step of one worker it is enough to look at that worker.         *)
LEMMA OnceHere ==
    ASSUME Once, reply' = reply, NEW w \in Worker,
           \A v \in Worker \ {w} : SameAt(v),
           SentOnce(s2w'[w]), JobsApart(w_jobs'[w]), QueueOnce(tasks'[w]),
           SolvingOnce(thread'[w]), DoneOnce(tasks_done'[w]),
           ReturnedOnce(w2s'[w])
    PROVE  Once'
BY OnceParts DEF SameAt

(* The forms of a step of one worker: the instances stay, ...              *)
LEMMA StayHere ==
    ASSUME NEW w \in Worker, Lost => Lost', out' = out,
           \A v \in Worker \ {w}, k \in Kind : Places'[v][k] = Places[v][k],
           \A k \in Kind : Places'[w][k] = Places[w][k]
    PROVE  FlowStep
BY DEF FlowStep, Kept

(* ... some go from one place to another ...                               *)
LEMMA GoOn ==
    ASSUME NEW w \in Worker, Lost => Lost', out' = out,
           NEW a \in Kind, NEW b \in Kind, a # b, NEW X,
           X \subseteq Places[w][a], Moved(w, a, b, X)
    PROVE  FlowStep
BY DEF FlowStep

(* ... or they are dropped.                                                *)
LEMMA DropHere ==
    ASSUME NEW w \in Worker, Lost', out' = out, NEW a \in Kind, NEW X,
           Moved(w, a, a, X)
    PROVE  FlowStep
BY DEF FlowStep

(* A message that carries no instances changes nothing when it is taken.   *)
LEMMA SentOnceTaken ==
    ASSUME NEW channel \in Seq(FromServer), channel # <<>>, SentOnce(channel)
    PROVE  /\ SentOnce(Tail(channel))
           /\ Head(channel).tag = "SEND_INSTANCES" => JobsApart(Head(channel).jobs)
<1>. DEFINE rest == Tail(channel)
            n == Len(channel)
<1>1. /\ n \in Nat \ {0} /\ DOMAIN channel = 1 .. n /\ DOMAIN rest = 1 .. n - 1
      /\ Head(channel) = channel[1] /\ 1 \in DOMAIN channel
      /\ \A i \in DOMAIN rest : i + 1 \in DOMAIN channel /\ rest[i] = channel[i + 1]
  BY FirstOfSeq
<1>. HIDE DEF rest, n
<1>2. SentOnce(rest)
  BY <1>1 DEF SentOnce
<1>. QED  BY <1>1, <1>2 DEF rest, SentOnce

-----------------------------------------------------------------------------
(* The main thread of a worker, step by step.                              *)
FlowOfMain(w) ==
    /\ WorkerTypes /\ ChannelTypes /\ Threads /\ Stopping /\ Requesting
    /\ Apart /\ Once
    /\ MainAlone(w)
    /\ Lost => Lost'
    /\ out' = out /\ reply' = reply
    /\ \A v \in Worker \ {w}, k \in Kind : Places'[v][k] = Places[v][k]
    /\ \A v \in Worker \ {w} : SameAt(v)

(* recieve_server_cmd until ACTIVATE_WORKER: what it does not touch keeps  *)
(* every instance where it is.                                             *)
LEMMA ActivateFlow ==
    ASSUME NEW w \in Worker, FlowOfMain(w), Activate(w)
    PROVE  FlowStep /\ Once'
<1>1. /\ w_pc[w] = "activate" /\ s2w[w] \in Seq(FromServer) /\ s2w[w] # <<>>
      /\ s2w'[w] = Tail(s2w[w])
      /\ UNCHANGED <<w2s, tasks, tasks_done, w_jobs>>
  BY DEF Activate, At, ReceiveFromServer, FlowOfMain, ChannelTypes
<1>2. Head(s2w[w]).tag # "SEND_INSTANCES"
  BY <1>1, FirstOfSeq DEF FlowOfMain, Requesting
<1>3. SentIn(Tail(s2w[w])) = SentIn(s2w[w])
  <2>1. SentIn(Tail(s2w[w])) = SentIn(s2w[w]) \ Carried(Head(s2w[w]))
    BY <1>1, SentTaken DEF FlowOfMain, Requesting
  <2>. QED  BY <1>2, <2>1 DEF Carried
<1>4. w_pc'[w] # "store"
  BY <1>1 DEF Activate, Goto, FlowOfMain, WorkerTypes, LoopOrJoin
<1>5. SolvingIn(thread'[w]) = SolvingIn(thread[w]) /\ SolvingOnce(thread'[w])
  <2>1. \A i \in Thread : thread[w][i].inst = NoInstance
    BY <1>1 DEF FlowOfMain, Threads
  <2>2. thread'[w] = thread[w]
        \/ \A i \in Thread : thread'[w][i].inst = NoInstance
    BY DEF Activate, FlowOfMain, WorkerTypes, IdleThread
  <2>3. \A i \in Thread : thread'[w][i].inst = NoInstance
    BY <2>1, <2>2
  <2>. QED  BY <2>1, <2>3 DEF SolvingIn, SolvingOnce
<1>6. \A k \in Kind : Places'[w][k] = Places[w][k]
  BY <1>1, <1>3, <1>4, <1>5, PlacesStay, PlacesByKind DEF Kind, FlowOfMain
<1>7. FlowStep
  BY <1>6, StayHere DEF FlowOfMain
<1>8. Once'
  BY <1>1, <1>5, SentOnceTaken, OnceParts, OnceHere DEF FlowOfMain
<1>. QED  BY <1>7, <1>8

(* A result goes from tasks_done to the server; one that failed is gone,   *)
(* but so is the worker then, or it was told to stop.                      *)
LEMMA ReturnFlow ==
    ASSUME NEW w \in Worker, FlowOfMain(w), ReturnTask(w)
    PROVE  FlowStep /\ Once'
<1>. DEFINE done == Head(tasks_done[w])
<1>1. /\ tasks_done[w] \in Seq(DoneType) /\ tasks_done[w] # <<>>
      /\ tasks_done'[w] = Tail(tasks_done[w])
      /\ UNCHANGED <<s2w, tasks, thread, w_jobs>>
      /\ w_pc[w] # "store" /\ w_pc'[w] # "store"
  BY DEF ReturnTask, At, Goto, FlowOfMain, WorkerTypes
<1>2. DoneOnce(tasks_done[w]) /\ ReturnedOnce(w2s[w])
  BY OnceParts DEF FlowOfMain
<1>3. /\ DoneIn(Tail(tasks_done[w])) = DoneIn(tasks_done[w]) \ {done.inst}
      /\ done.inst \in DoneIn(tasks_done[w])
      /\ DoneOnce(Tail(tasks_done[w]))
  BY <1>1, <1>2, DoneTaken DEF DoneOnce
<1>4. PICK msgs \in Seq(FromWorker) :
               /\ w2s'[w] = w2s[w] \o msgs
               /\ ReturnedOnce(msgs)
               /\ ReturnedIn(msgs) =
                      IF ReturnTask(w) /\ Head(tasks_done[w]).outcome # "failed"
                      THEN {Head(tasks_done[w]).inst} ELSE {}
  BY WorkerReturns DEF FlowOfMain
<1>5. ReturnedIn(w2s'[w]) = ReturnedIn(w2s[w]) \cup ReturnedIn(msgs)
  BY <1>4, ReturnedAppended DEF FlowOfMain, ChannelTypes
<1>6. ReturnedIn(w2s[w]) \cap {done.inst} = {}
  <2>1. Places[w]["returned"] \cap Places[w]["done"] = {}
    BY DEF FlowOfMain, Apart, ApartIn, Kind
  <2>. QED  BY <1>3, <2>1, PlacesByKind
<1>7. ReturnedOnce(w2s'[w])
  <2>1. ReturnedIn(w2s[w]) \cap ReturnedIn(msgs) = {}
    BY <1>4, <1>6
  <2>. QED  BY <1>2, <1>4, <2>1, ReturnedAppended DEF FlowOfMain, ChannelTypes
<1>8. Once'
  BY <1>1, <1>3, <1>7, OnceParts, OnceHere DEF FlowOfMain
<1>9. CASE done.outcome # "failed"
  <2>1. ReturnedIn(w2s'[w]) = ReturnedIn(w2s[w]) \cup {done.inst}
    BY <1>4, <1>5, <1>9
  <2>2. \A k \in Kind : Places'[w][k] =
            IF k = "done" THEN Places[w][k] \ {done.inst}
            ELSE IF k = "returned" THEN Places[w][k] \cup {done.inst}
            ELSE Places[w][k]
    <3>1. /\ Places'[w]["done"] = Places[w]["done"] \ {done.inst}
          /\ Places'[w]["returned"] = Places[w]["returned"] \cup {done.inst}
      BY <1>1, <1>3, <2>1, PlacesByKind
    <3>2. \A k \in Kind \ {"done", "returned"} : Places'[w][k] = Places[w][k]
      BY <1>1, PlacesStay DEF Kind, FlowOfMain
    <3>. QED  BY <3>1, <3>2
  <2>3. {done.inst} \subseteq Places[w]["done"]
    BY <1>3, PlacesByKind
  <2>4. "done" \in Kind /\ "returned" \in Kind
    BY DEF Kind
  <2>. HIDE DEF done
  <2>5. Moved(w, "done", "returned", {done.inst})
    BY <2>2, MovedHere DEF FlowOfMain
  <2>6. FlowStep
    BY <2>3, <2>4, <2>5, GoOn DEF FlowOfMain
  <2>. QED  BY <1>8, <2>6
<1>10. CASE done.outcome = "failed"
  <2>1. ReturnedIn(w2s'[w]) = ReturnedIn(w2s[w])
    BY <1>4, <1>5, <1>10
  <2>2. \A k \in Kind : Places'[w][k] =
            IF k = "done" THEN Places[w][k] \ {done.inst} ELSE Places[w][k]
    <3>1. /\ Places'[w]["done"] = Places[w]["done"] \ {done.inst}
          /\ Places'[w]["returned"] = Places[w]["returned"]
      BY <1>1, <1>3, <2>1, PlacesByKind
    <3>2. \A k \in Kind \ {"done", "returned"} : Places'[w][k] = Places[w][k]
      BY <1>1, PlacesStay DEF Kind, FlowOfMain
    <3>. QED  BY <3>1, <3>2
  <2>3. Lost'
    <3>1. CASE w_pc[w] = "loop"
      <4>1. w_pc'[w] = "aborted"
        BY <1>10, <3>1 DEF ReturnTask, At, Goto, FlowOfMain, WorkerTypes
      <4>. QED  BY <4>1 DEF Lost
    <3>2. CASE w_pc[w] = "flush"
      BY <3>2 DEF FlowOfMain, Stopping, Lost
    <3>. QED  BY <3>1, <3>2 DEF ReturnTask, At
  <2>4. "done" \in Kind
    BY DEF Kind
  <2>. HIDE DEF done
  <2>5. Moved(w, "done", "done", {done.inst})
    BY <2>2, MovedHere DEF FlowOfMain
  <2>6. FlowStep
    BY <2>3, <2>4, <2>5, DropHere DEF FlowOfMain
  <2>. QED  BY <1>8, <2>6
<1>. QED  BY <1>9, <1>10

(* The steps in between leave the instances alone: a request or a farewell *)
(* carries none, and a job whose tasks are queued is counted as queued.    *)
LEMMA QuietFlow ==
    ASSUME NEW w \in Worker, FlowOfMain(w),
           \/ NothingToReturn(w) \/ Probe(w) \/ UnreadableFormula(w)
           \/ StoreCounter(w) \/ Join(w) \/ Disconnect(w)
    PROVE  FlowStep /\ Once'
<1>1. UNCHANGED <<tasks, tasks_done, thread, s2w>>
  BY DEF NothingToReturn, Probe, UnreadableFormula, StoreCounter, Join,
    Disconnect
<1>2. ReturnedIn(w2s'[w]) = ReturnedIn(w2s[w]) /\ ReturnedOnce(w2s'[w])
  <2>1. ReturnedOnce(w2s[w])
    BY OnceParts DEF FlowOfMain
  <2>2. CASE Probe(w) \/ Disconnect(w)
    <3>1. ~ReturnTask(w)
      <4>1. w_pc'[w] \in {"await", "loop", "join"} \/ tasks_done[w] = <<>>
        BY <2>2 DEF Probe, Disconnect, Goto, LoopOrJoin, FlowOfMain,
           WorkerTypes
      <4>2. w_pc[w] = "probe" \/ tasks_done[w] = <<>>
        BY <2>2 DEF Probe, Disconnect, At
      <4>. QED  BY <4>2 DEF ReturnTask, At
    <3>2. PICK msgs \in Seq(FromWorker) :
               /\ w2s'[w] = w2s[w] \o msgs
               /\ ReturnedOnce(msgs)
               /\ ReturnedIn(msgs) =
                      IF ReturnTask(w) /\ Head(tasks_done[w]).outcome # "failed"
                      THEN {Head(tasks_done[w]).inst} ELSE {}
      BY <2>2, WorkerReturns DEF FlowOfMain
    <3>3. ReturnedIn(msgs) = {}
      BY <3>1, <3>2
    <3>4. ReturnedIn(w2s'[w]) = ReturnedIn(w2s[w]) \cup ReturnedIn(msgs)
      BY <3>2, ReturnedAppended DEF FlowOfMain, ChannelTypes
    <3>5. ReturnedIn(w2s[w]) \cap ReturnedIn(msgs) = {}
      BY <3>3
    <3>6. ReturnedOnce(w2s'[w])
      BY <2>1, <3>2, <3>5, ReturnedAppended DEF FlowOfMain, ChannelTypes
    <3>. QED  BY <3>3, <3>4, <3>6
  <2>3. CASE UNCHANGED w2s
    BY <2>1, <2>3
  <2>. QED
    BY <2>2, <2>3 DEF NothingToReturn, UnreadableFormula, StoreCounter, Join
<1>3. Unqueued(w)' = Unqueued(w) /\ JobsApart(w_jobs'[w])
  <2>1. JobsApart(w_jobs[w])
    BY OnceParts DEF FlowOfMain
  <2>2. CASE StoreCounter(w)
    <3>1. /\ w_pc[w] = "store" /\ w_pc'[w] # "store"
          /\ w_jobs'[w] = Tail(w_jobs[w]) /\ w_jobs[w] \in Seq(JobType)
      BY <2>2 DEF StoreCounter, At, Goto, NextJobOrLoop, FlowOfMain,
         WorkerTypes
    <3>2. w_jobs[w] # <<>>
      BY <3>1 DEF FlowOfMain, Threads
    <3>3. JobsApart(Tail(w_jobs[w]))
      BY <2>1, <3>1, <3>2, JobsTaken
    <3>. QED  BY <3>1, <3>3 DEF Unqueued, At
  <2>3. CASE UNCHANGED w_jobs /\ w_pc[w] # "store" /\ w_pc'[w] # "store"
    BY <2>1, <2>3 DEF Unqueued, At
  <2>4. ASSUME ~StoreCounter(w)
        PROVE  UNCHANGED w_jobs /\ w_pc[w] # "store" /\ w_pc'[w] # "store"
    BY <2>4 DEF NothingToReturn, Probe, UnreadableFormula, Join, Disconnect,
      At, Goto, LoopOrJoin, FlowOfMain, WorkerTypes
  <2>. QED  BY <2>2, <2>3, <2>4
<1>4. \A k \in Kind : Places'[w][k] = Places[w][k]
  BY <1>1, <1>2, <1>3, PlacesStay, PlacesByKind DEF Kind, FlowOfMain
<1>5. FlowStep
  BY <1>4, StayHere DEF FlowOfMain
<1>6. Once'
  BY <1>1, <1>2, <1>3, OnceParts, OnceHere DEF FlowOfMain
<1>. QED  BY <1>5, <1>6

(* The jobs of an answer are taken over, or thrown away after a TERMINATE. *)
LEMMA AwaitFlow ==
    ASSUME NEW w \in Worker, FlowOfMain(w), Await(w)
    PROVE  FlowStep /\ Once'
<1>. DEFINE msg == Head(s2w[w])
            X   == Carried(msg)
<1>1. /\ w_pc[w] = "await" /\ s2w[w] \in Seq(FromServer) /\ s2w[w] # <<>>
      /\ s2w'[w] = Tail(s2w[w])
      /\ UNCHANGED <<w2s, tasks, tasks_done, thread>>
      /\ w_pc'[w] # "store"
      /\ w_jobs'[w] = IF w_running[w] /\ msg.tag = "SEND_INSTANCES" THEN msg.jobs
                      ELSE <<>>
  BY DEF Await, At, Goto, LoopOrJoin, ReceiveFromServer, FlowOfMain,
     ChannelTypes,
    WorkerTypes
<1>2. /\ SentIn(Tail(s2w[w])) = SentIn(s2w[w]) \ X
      /\ X \subseteq SentIn(s2w[w])
  BY <1>1, SentTaken DEF FlowOfMain, Requesting
<1>3. /\ SentOnce(Tail(s2w[w]))
      /\ msg.tag = "SEND_INSTANCES" => JobsApart(msg.jobs)
  BY <1>1, SentOnceTaken, OnceParts DEF FlowOfMain
<1>4. Unqueued(w) = {}
  BY <1>1, NoJobs DEF FlowOfMain, Threads, Unqueued, At
<1>5. Unqueued(w)' = InstancesOfJobs(w_jobs'[w])
  BY <1>1 DEF Unqueued, At
<1>6. JobsApart(w_jobs'[w])
  BY <1>1, <1>3, NoJobs
<1>7. Once'
  BY <1>1, <1>3, <1>6, OnceParts, OnceHere DEF FlowOfMain
<1>8. "sent" \in Kind /\ "jobs" \in Kind
  BY DEF Kind
<1>9. \A k \in Kind \ {"sent", "jobs"} : Places'[w][k] = Places[w][k]
  BY <1>1, PlacesStay DEF Kind, FlowOfMain
<1>10. Places'[w]["sent"] = Places[w]["sent"] \ X
  BY <1>1, <1>2, PlacesByKind
<1>11. X \subseteq Places[w]["sent"]
  BY <1>2, PlacesByKind
<1>12. CASE w_running[w]
  <2>1. InstancesOfJobs(w_jobs'[w]) = X
    BY <1>1, <1>12, NoJobs DEF Carried
  <2>2. Places'[w]["jobs"] = Places[w]["jobs"] \cup X
    BY <1>4, <1>5, <2>1, PlacesByKind
  <2>. HIDE DEF X
  <2>3. \A k \in Kind : Places'[w][k] =
            IF k = "sent" THEN Places[w][k] \ X
            ELSE IF k = "jobs" THEN Places[w][k] \cup X
            ELSE Places[w][k]
    BY <1>9, <1>10, <2>2
  <2>4. Moved(w, "sent", "jobs", X)
    BY <2>3, MovedHere DEF FlowOfMain
  <2>5. FlowStep
    BY <1>8, <1>11, <2>4, GoOn DEF FlowOfMain
  <2>. QED  BY <1>7, <2>5
<1>13. CASE ~w_running[w]
  <2>1. Places'[w]["jobs"] = Places[w]["jobs"]
    BY <1>1, <1>4, <1>5, <1>13, NoJobs, PlacesByKind
  <2>2. Lost'
    BY <1>13 DEF FlowOfMain, Stopping, Lost
  <2>. HIDE DEF X
  <2>3. \A k \in Kind : Places'[w][k] =
            IF k = "sent" THEN Places[w][k] \ X ELSE Places[w][k]
    BY <1>9, <1>10, <2>1
  <2>4. Moved(w, "sent", "sent", X)
    BY <2>3, MovedHere DEF FlowOfMain
  <2>5. FlowStep
    BY <1>8, <2>2, <2>4, DropHere DEF FlowOfMain
  <2>. QED  BY <1>7, <2>5
<1>. QED  BY <1>12, <1>13

(* The tasks of a job are pushed.                                          *)
LEMMA CreateFlow ==
    ASSUME NEW w \in Worker, FlowOfMain(w), CreateTasks(w)
    PROVE  FlowStep /\ Once'
<1>. DEFINE job == Head(w_jobs[w])
            X   == InstancesOf(job)
<1>1. /\ w_pc[w] = "create" /\ w_jobs[w] \in Seq(JobType)
      /\ tasks[w] \in Seq(Instance)
      /\ tasks'[w] = tasks[w] \o TasksOfJob(job)
      /\ UNCHANGED <<w2s, s2w, tasks_done, thread>>
  BY DEF CreateTasks, At, FlowOfMain, WorkerTypes
<1>2. w_jobs[w] # <<>>
  BY <1>1 DEF FlowOfMain, Threads
<1>3. JobsApart(w_jobs[w]) /\ QueueOnce(tasks[w])
  BY OnceParts DEF FlowOfMain
<1>4. /\ job \in JobType
      /\ InstancesOfJobs(w_jobs[w]) = X \cup InstancesOfJobs(Tail(w_jobs[w]))
      /\ JobsApart(Tail(w_jobs[w]))
      /\ X \cap InstancesOfJobs(Tail(w_jobs[w])) = {}
  BY <1>1, <1>2, <1>3, JobsTaken
<1>5. Unqueued(w) = InstancesOfJobs(w_jobs[w])
  BY <1>1 DEF Unqueued, At
<1>6. /\ Unqueued(w)' = InstancesOfJobs(Tail(w_jobs[w]))
      /\ w_jobs'[w] \in {w_jobs[w], Tail(w_jobs[w])}
  <2>1. \/ w_pc'[w] = "store" /\ w_jobs'[w] = w_jobs[w]
        \/ w_pc'[w] # "store" /\ w_jobs'[w] = Tail(w_jobs[w])
    BY DEF CreateTasks, Goto, NextJobOrLoop, FlowOfMain, WorkerTypes
  <2>. QED  BY <2>1 DEF Unqueued, At
<1>7. X \cap ToSet(tasks[w]) = {}
  <2>1. Places[w]["jobs"] \cap Places[w]["queue"] = {}
    BY DEF FlowOfMain, Apart, ApartIn, Kind
  <2>. QED  BY <1>4, <1>5, <2>1, PlacesByKind
<1>8. /\ ToSet(tasks'[w]) = ToSet(tasks[w]) \cup X
      /\ QueueOnce(tasks'[w])
  <2>1. ToSet(tasks[w] \o TasksOfJob(job)) = ToSet(tasks[w]) \cup X
    BY <1>1, <1>4, QueueAppended
  <2>2. /\ QueueOnce(tasks[w]) /\ ToSet(tasks[w]) \cap InstancesOf(job) = {}
        => QueueOnce(tasks[w] \o TasksOfJob(job))
    BY <1>1, <1>4, QueueAppended DEF QueueOnce
  <2>3. ToSet(tasks[w]) \cap InstancesOf(job) = {}
    BY <1>7
  <2>. HIDE DEF X, job
  <2>. QED  BY <1>1, <1>3, <2>1, <2>2, <2>3
<1>9. Once'
  BY <1>1, <1>3, <1>4, <1>6, <1>8, OnceParts, OnceHere DEF FlowOfMain
<1>10. "jobs" \in Kind /\ "queue" \in Kind
  BY DEF Kind
<1>11. \A k \in Kind \ {"jobs", "queue"} : Places'[w][k] = Places[w][k]
  BY <1>1, PlacesStay DEF Kind, FlowOfMain
<1>12. /\ Places'[w]["jobs"] = Places[w]["jobs"] \ X
       /\ Places'[w]["queue"] = Places[w]["queue"] \cup X
       /\ X \subseteq Places[w]["jobs"]
  <2>. HIDE DEF X
  <2>. QED  BY <1>4, <1>5, <1>6, <1>8, PlacesByKind
<1>. HIDE DEF X
<1>13. \A k \in Kind : Places'[w][k] =
           IF k = "jobs" THEN Places[w][k] \ X
           ELSE IF k = "queue" THEN Places[w][k] \cup X
           ELSE Places[w][k]
  BY <1>11, <1>12
<1>14. Moved(w, "jobs", "queue", X)
  BY <1>13, MovedHere DEF FlowOfMain
<1>15. FlowStep
  BY <1>10, <1>12, <1>14, GoOn DEF FlowOfMain
<1>. QED  BY <1>9, <1>15

(* A main thread's step moves instances from one of its places to the      *)
(* next: receiving, creating tasks, returning them.                        *)
LEMMA MainFlow ==
    ASSUME NEW w \in Worker, FlowOfMain(w)
    PROVE  FlowStep /\ Once'
<1>1. MainThread(w)
  BY DEF FlowOfMain, MainAlone
<1>. QED
  BY <1>1, ActivateFlow, ReturnFlow, QuietFlow, AwaitFlow, CreateFlow
  DEF MainThread

-----------------------------------------------------------------------------
(* The solver threads of a worker.                                         *)
FlowOfThread(w, i) ==
    /\ WorkerTypes /\ Threads /\ Stopping
    /\ Apart /\ Once /\ Working
    /\ SolverThread(w, i)
    /\ Lost => Lost'
    /\ out' = out /\ reply' = reply
    /\ \A v \in Worker \ {w}, k \in Kind : Places'[v][k] = Places[v][k]
    /\ \A v \in Worker \ {w} : SameAt(v)
    /\ UNCHANGED <<w2s, w_pc, w_jobs, s2w, terminated_workers>>
    /\ NoInstance \notin ToSet(tasks[w])

(* What no thread works on is nobody's: tasks are numbered from 1.         *)
LEMMA NoInstanceOut ==
    ASSUME SchedProofs!IInv
    PROVE  NoInstance \notin out
<1>1. available_tasks \in Seq(SchedProofs!TaskInfo)
  BY DEF SchedProofs!IInv, SchedProofs!TypeOK
<1>2. DOMAIN available_tasks = 1 .. Len(available_tasks)
  BY <1>1, LenProperties
<1>3. \A inst \in out : inst[1] \in DOMAIN available_tasks
  BY DEF SchedProofs!IInv, SchedProofs!OutNumbered
<1>. QED  BY <1>2, <1>3 DEF NoInstance

(* get_task takes the first instance of the queue.                         *)
LEMMA PopFlow ==
    ASSUME NEW w \in Worker, NEW i \in Thread, FlowOfThread(w, i), PopTask(w, i)
    PROVE  FlowStep /\ Once'
<1>. DEFINE inst == Head(tasks[w])
            t == [pc |-> "got", inst |-> inst, loaded |-> 0]
<1>1. /\ tasks[w] \in Seq(Instance) /\ tasks[w] # <<>>
      /\ tasks'[w] = Tail(tasks[w])
      /\ thread[w] \in [Thread -> ThreadType]
      /\ thread'[w] = [thread[w] EXCEPT ![i] = t]
      /\ UNCHANGED tasks_done
  BY DEF PopTask, SetThread, FlowOfThread, WorkerTypes
<1>2. thread[w][i].inst = NoInstance
  BY DEF PopTask, FlowOfThread, Threads
<1>3. QueueOnce(tasks[w]) /\ SolvingOnce(thread[w])
  BY OnceParts DEF FlowOfThread
<1>4. /\ ToSet(Tail(tasks[w])) = ToSet(tasks[w]) \ {inst}
      /\ inst \in ToSet(tasks[w])
      /\ QueueOnce(Tail(tasks[w]))
  BY <1>1, <1>3, QueueTaken DEF QueueOnce
<1>5. inst \in Instance /\ inst # NoInstance
  BY <1>1, <1>4, FirstOfSeq DEF FlowOfThread
<1>6. t \in ThreadType /\ t.inst = inst
  BY <1>5 DEF ThreadType
<1>7. inst \notin SolvingIn(thread[w])
  <2>1. Places[w]["queue"] \cap Places[w]["thread"] = {}
    BY DEF FlowOfThread, Apart, ApartIn, Kind
  <2>. QED  BY <1>4, <2>1, PlacesByKind
<1>8. /\ SolvingIn(thread'[w]) = SolvingIn(thread[w]) \cup {inst}
      /\ SolvingOnce(thread'[w])
  <2>. HIDE DEF inst, t
  <2>. QED  BY <1>1, <1>2, <1>3, <1>5, <1>6, <1>7, ThreadChanged
               DEF SolvingOnce
<1>9. Once'
  BY <1>1, <1>4, <1>8, OnceParts, OnceHere DEF FlowOfThread
<1>10. "queue" \in Kind /\ "thread" \in Kind
  BY DEF Kind
<1>11. \A k \in Kind \ {"queue", "thread"} : Places'[w][k] = Places[w][k]
  BY <1>1, PlacesStay DEF Kind, FlowOfThread
<1>12. /\ Places'[w]["queue"] = Places[w]["queue"] \ {inst}
       /\ Places'[w]["thread"] = Places[w]["thread"] \cup {inst}
       /\ {inst} \subseteq Places[w]["queue"]
  BY <1>1, <1>4, <1>8, PlacesByKind
<1>. HIDE DEF inst
<1>13. \A k \in Kind : Places'[w][k] =
           IF k = "queue" THEN Places[w][k] \ {inst}
           ELSE IF k = "thread" THEN Places[w][k] \cup {inst}
           ELSE Places[w][k]
  BY <1>11, <1>12
<1>14. Moved(w, "queue", "thread", {inst})
  BY <1>13, MovedHere DEF FlowOfThread
<1>15. FlowStep
  BY <1>10, <1>12, <1>14, GoOn DEF FlowOfThread
<1>. QED  BY <1>9, <1>15

(* An instance whose solver run begins is the one that was popped, unless  *)
(* the worker was told to stop: then it is dropped.                        *)
LEMMA StartFlow ==
    ASSUME NEW w \in Worker, NEW i \in Thread, FlowOfThread(w, i),
           StartTask(w, i)
    PROVE  FlowStep /\ Once'
<1>. DEFINE inst == thread[w][i].inst
            t == IF w_running[w] THEN [thread[w][i] EXCEPT !.pc = "exec"]
                 ELSE IdleThread("exit")
<1>1. /\ thread[w] \in [Thread -> ThreadType]
      /\ thread'[w] = [thread[w] EXCEPT ![i] = t]
      /\ UNCHANGED <<tasks, tasks_done>>
  BY DEF StartTask, SetThread, FlowOfThread, WorkerTypes
<1>2. /\ t \in ThreadType
      /\ t.inst = IF w_running[w] THEN inst ELSE NoInstance
  <2>1. thread[w][i] \in ThreadType
    BY <1>1
  <2>. QED  BY <2>1 DEF ThreadType, IdleThread, NoInstance, Instance
<1>3. SolvingOnce(thread[w])
  BY OnceParts DEF FlowOfThread
<1>4. \A k \in Kind \ {"thread"} : Places'[w][k] = Places[w][k]
  BY <1>1, PlacesStay DEF Kind, FlowOfThread
<1>5. SolvingOnce(thread'[w])
  <2>. HIDE DEF t
  <2>. QED  BY <1>1, <1>2, <1>3, ThreadChanged DEF SolvingOnce
<1>6. Once'
  BY <1>1, <1>5, OnceParts, OnceHere DEF FlowOfThread
<1>7. CASE w_running[w]
  <2>1. SolvingIn(thread'[w]) = SolvingIn(thread[w])
    <3>. HIDE DEF t
    <3>. QED  BY <1>1, <1>2, <1>3, <1>7, ThreadChanged DEF SolvingOnce
  <2>2. \A k \in Kind : Places'[w][k] = Places[w][k]
    BY <1>4, <2>1, PlacesByKind
  <2>3. FlowStep
    BY <2>2, StayHere DEF FlowOfThread
  <2>. QED  BY <1>6, <2>3
<1>8. CASE ~w_running[w]
  <2>1. SolvingIn(thread'[w]) = SolvingIn(thread[w]) \ {inst}
    <3>. HIDE DEF t
    <3>. QED  BY <1>1, <1>2, <1>3, <1>8, ThreadChanged DEF SolvingOnce
  <2>2. Places'[w]["thread"] = Places[w]["thread"] \ {inst}
    BY <2>1, PlacesByKind
  <2>. HIDE DEF inst
  <2>3. \A k \in Kind : Places'[w][k] =
            IF k = "thread" THEN Places[w][k] \ {inst} ELSE Places[w][k]
    BY <1>4, <2>2
  <2>4. Moved(w, "thread", "thread", {inst})
    BY <2>3, MovedHere DEF FlowOfThread
  <2>5. Lost' /\ "thread" \in Kind
    BY <1>8 DEF FlowOfThread, Stopping, Lost, Kind
  <2>6. FlowStep
    BY <2>4, <2>5, DropHere DEF FlowOfThread
  <2>. QED  BY <1>6, <2>6
<1>. QED  BY <1>7, <1>8

(* The result of a solver run is queued.                                   *)
LEMMA FinishFlow ==
    ASSUME NEW w \in Worker, NEW i \in Thread, FlowOfThread(w, i),
           NEW outcome \in Outcomes, FinishTask(w, i, outcome)
    PROVE  FlowStep /\ Once'
<1>. DEFINE inst == thread[w][i].inst
            done == [inst |-> inst, outcome |-> outcome]
<1>1. /\ thread[w] \in [Thread -> ThreadType]
      /\ tasks_done[w] \in Seq(DoneType)
      /\ tasks_done'[w] = Append(tasks_done[w], done)
      /\ UNCHANGED tasks
  BY DEF FinishTask, FlowOfThread, WorkerTypes
<1>2. inst \in Instance /\ inst # NoInstance
  BY <1>1 DEF ThreadType, FinishTask, FlowOfThread, Working
<1>3. done \in DoneType /\ done.inst = inst
  BY <1>2 DEF DoneType
<1>4. PICK t \in ThreadType : /\ thread'[w] = [thread[w] EXCEPT ![i] = t]
                              /\ t.inst = NoInstance
  <2>. DEFINE idle == IdleThread(PollOrExit(w_running[w]))
              load == [pc |-> "store", inst |-> NoInstance,
                       loaded |-> instances_to_get[w]]
  <2>1. \/ thread'[w] = [thread[w] EXCEPT ![i] = idle]
        \/ thread'[w] = [thread[w] EXCEPT ![i] = load]
    BY DEF FinishTask, SetThread, FlowOfThread, WorkerTypes
  <2>2. /\ NoInstance \in Instance /\ instances_to_get[w] \in Int
    BY DEF NoInstance, Instance, FlowOfThread, WorkerTypes
  <2>3. /\ idle \in ThreadType /\ idle.inst = NoInstance
        /\ load \in ThreadType /\ load.inst = NoInstance
    BY <2>2 DEF IdleThread, ThreadType, PollOrExit
  <2>. HIDE DEF idle, load
  <2>. QED  BY <2>1, <2>3
<1>5. SolvingOnce(thread[w]) /\ DoneOnce(tasks_done[w])
  BY OnceParts DEF FlowOfThread
<1>6. /\ SolvingIn(thread'[w]) = SolvingIn(thread[w]) \ {inst}
      /\ SolvingOnce(thread'[w])
      /\ inst \in SolvingIn(thread[w])
  BY <1>1, <1>2, <1>4, <1>5, ThreadChanged DEF SolvingOnce
<1>7. inst \notin DoneIn(tasks_done[w])
  <2>1. Places[w]["thread"] \cap Places[w]["done"] = {}
    BY DEF FlowOfThread, Apart, ApartIn, Kind
  <2>. QED  BY <1>6, <2>1, PlacesByKind
<1>8. /\ DoneIn(tasks_done'[w]) = DoneIn(tasks_done[w]) \cup {inst}
      /\ DoneOnce(tasks_done'[w])
  <2>. HIDE DEF inst, done
  <2>. QED  BY <1>1, <1>3, <1>5, <1>7, DoneAppended DEF DoneOnce
<1>9. Once'
  BY <1>1, <1>6, <1>8, OnceParts, OnceHere DEF FlowOfThread
<1>10. "thread" \in Kind /\ "done" \in Kind
  BY DEF Kind
<1>11. \A k \in Kind \ {"thread", "done"} : Places'[w][k] = Places[w][k]
  BY <1>1, PlacesStay DEF Kind, FlowOfThread
<1>12. /\ Places'[w]["thread"] = Places[w]["thread"] \ {inst}
       /\ Places'[w]["done"] = Places[w]["done"] \cup {inst}
       /\ {inst} \subseteq Places[w]["thread"]
  BY <1>6, <1>8, PlacesByKind
<1>. HIDE DEF inst
<1>13. \A k \in Kind : Places'[w][k] =
           IF k = "thread" THEN Places[w][k] \ {inst}
           ELSE IF k = "done" THEN Places[w][k] \cup {inst}
           ELSE Places[w][k]
  BY <1>11, <1>12
<1>14. Moved(w, "thread", "done", {inst})
  BY <1>13, MovedHere DEF FlowOfThread
<1>15. FlowStep
  BY <1>10, <1>12, <1>14, GoOn DEF FlowOfThread
<1>. QED  BY <1>9, <1>15

(* A thread that polls, exits or counts has no instance.                   *)
LEMMA IdleFlow ==
    ASSUME NEW w \in Worker, NEW i \in Thread, FlowOfThread(w, i),
           StopPolling(w, i) \/ StoreIncremented(w, i)
    PROVE  FlowStep /\ Once'
<1>1. /\ thread[w] \in [Thread -> ThreadType]
      /\ UNCHANGED <<tasks, tasks_done>>
  BY DEF StopPolling, StoreIncremented, FlowOfThread, WorkerTypes
<1>2. thread[w][i].inst = NoInstance
  BY DEF StopPolling, StoreIncremented, FlowOfThread, Threads
<1>3. PICK t \in ThreadType : /\ thread'[w] = [thread[w] EXCEPT ![i] = t]
                              /\ t.inst = NoInstance
  <2>1. \E pc \in {"poll", "exit"} :
            thread'[w] = [thread[w] EXCEPT ![i] = IdleThread(pc)]
    BY DEF StopPolling, StoreIncremented, SetThread, FlowOfThread, WorkerTypes,
      PollOrExit
  <2>2. \A pc \in {"poll", "exit"} : /\ IdleThread(pc) \in ThreadType
                                     /\ IdleThread(pc).inst = NoInstance
    BY DEF IdleThread, ThreadType, NoInstance, Instance
  <2>. QED  BY <2>1, <2>2
<1>4. SolvingOnce(thread[w])
  BY OnceParts DEF FlowOfThread
<1>5. SolvingIn(thread'[w]) = SolvingIn(thread[w]) /\ SolvingOnce(thread'[w])
  BY <1>1, <1>2, <1>3, <1>4, ThreadChanged DEF SolvingOnce
<1>6. \A k \in Kind : Places'[w][k] = Places[w][k]
  BY <1>1, <1>5, PlacesStay, PlacesByKind DEF Kind, FlowOfThread
<1>7. FlowStep
  BY <1>6, StayHere DEF FlowOfThread
<1>8. Once'
  BY <1>1, <1>5, OnceParts, OnceHere DEF FlowOfThread
<1>. QED  BY <1>7, <1>8

(* A solver thread's step moves one task: from the queue to the thread,    *)
(* and from the thread to tasks_done.                                      *)
LEMMA ThreadFlow ==
    ASSUME NEW w \in Worker, NEW i \in Thread, FlowOfThread(w, i)
    PROVE  FlowStep /\ Once'
<1>1. SolverThread(w, i)
  BY DEF FlowOfThread
<1>. QED
  BY <1>1, PopFlow, StartFlow, FinishFlow, IdleFlow DEF SolverThread

(* get_task is the only way to an instance, and returns a real one.        *)
LEMMA WorkingKept ==
    ASSUME WorkerTypes, Threads, Working, Next,
           \A w \in Worker : NoInstance \notin ToSet(tasks[w])
    PROVE  Working'
<1>1. ASSUME NEW w \in Worker, MainThread(w), NEW v \in Worker, NEW j \in Thread,
             thread'[v][j].pc \in {"got", "exec"}
      PROVE  thread'[v][j].inst # NoInstance
  <2>1. thread'[v][j] = thread[v][j] \/ thread'[v][j].pc \in {"poll", "exit"}
    BY <1>1 DEF MainThread, Activate, ReturnTask, NothingToReturn, Probe,
       Await,
      CreateTasks, UnreadableFormula, StoreCounter, Join, Disconnect,
      IdleThread, PollOrExit, WorkerTypes
  <2>. QED  BY <1>1, <2>1 DEF Working
<1>2. ASSUME NEW w \in Worker, NEW i \in Thread, SolverThread(w, i),
             NEW v \in Worker, NEW j \in Thread,
             thread'[v][j].pc \in {"got", "exec"}
      PROVE  thread'[v][j].inst # NoInstance
  <2>1. CASE PopTask(w, i)
    <3>1. tasks[w] \in Seq(Instance) /\ tasks[w] # <<>>
      BY <2>1 DEF PopTask, WorkerTypes
    <3>2. Head(tasks[w]) \in ToSet(tasks[w])
      BY <3>1, FirstOfSeq DEF ToSet
    <3>3. \/ thread'[v][j] = thread[v][j]
          \/ /\ v = w
             /\ thread'[v][j].inst = Head(tasks[w])
      BY <2>1 DEF PopTask, SetThread, WorkerTypes
    <3>. QED  BY <1>2, <3>2, <3>3 DEF Working
  <2>2. CASE StartTask(w, i)
    <3>1. \/ thread'[v][j] = thread[v][j]
          \/ thread'[v][j].pc = "exit"
          \/ /\ thread[v][j].pc = "got"
             /\ thread'[v][j].inst = thread[v][j].inst
      BY <2>2 DEF StartTask, SetThread, WorkerTypes, IdleThread, ThreadType
    <3>. QED  BY <1>2, <3>1 DEF Working
  <2>3. CASE \/ StopPolling(w, i) \/ StoreIncremented(w, i)
             \/ \E outcome \in Outcomes : FinishTask(w, i, outcome)
    <3>1. \/ thread'[v][j] = thread[v][j]
          \/ thread'[v][j].pc \in {"poll", "exit", "store"}
      <4>1. PICK t : /\ thread' = [thread EXCEPT ![w][i] = t]
                     /\ t.pc \in {"poll", "exit", "store"}
        <5>1. IdleThread("exit").pc = "exit" /\ IdleThread("poll").pc = "poll"
          BY DEF IdleThread
        <5>2. IdleThread(PollOrExit(w_running[w])).pc \in {"poll", "exit"}
          BY <5>1 DEF PollOrExit
        <5>3. CASE StopPolling(w, i)
          BY <5>1, <5>3 DEF StopPolling, SetThread
        <5>4. CASE StoreIncremented(w, i)
          BY <5>2, <5>4 DEF StoreIncremented, SetThread
        <5>5. CASE \E outcome \in Outcomes : FinishTask(w, i, outcome)
          <6>. DEFINE t == [pc |-> "store", inst |-> NoInstance,
                            loaded |-> instances_to_get[w]]
          <6>1. thread' = [thread EXCEPT ![w][i] = t]
            BY <5>5 DEF FinishTask, SetThread
          <6>2. t.pc = "store"
            OBVIOUS
          <6>. HIDE DEF t
          <6>. QED  BY <6>1, <6>2
        <5>. QED  BY <2>3, <5>3, <5>4, <5>5
      <4>. QED  BY <4>1 DEF WorkerTypes
    <3>. QED  BY <1>2, <3>1 DEF Working
  <2>. QED  BY <1>2, <2>1, <2>2, <2>3 DEF SolverThread
<1>3. ASSUME UNCHANGED thread
      PROVE  Working'
  BY <1>3 DEF Working
<1>. QED  BY <1>1, <1>2, <1>3, OtherSteps DEF Working, MainAlone, ThreadAlone

-----------------------------------------------------------------------------
(* The server, the manager and whoever connects: inside the workers they   *)
(* touch no instance.                                                      *)
FlowOfOther ==
    /\ SchedProofs!IInv /\ SchedProofs!SchedulerAssumption
    /\ WorkerTypes /\ ChannelTypes /\ Stopping /\ Serving /\ Farewell
    /\ Apart /\ Once /\ Accounted
    /\ Next
    /\ \A w \in Worker : ~MainAlone(w)
    /\ \A w \in Worker, i \in Thread : ~ThreadAlone(w, i)
    /\ Lost => Lost'

InWorker == {"jobs", "queue", "thread", "done"}

(* The other processes do not touch what is inside a worker.               *)
LEMMA InsideUntouched ==
    ASSUME FlowOfOther, NEW w \in Worker
    PROVE  /\ \A k \in InWorker : Places'[w][k] = Places[w][k]
           /\ JobsApart(w_jobs'[w]) /\ QueueOnce(tasks'[w])
           /\ SolvingOnce(thread'[w]) /\ DoneOnce(tasks_done'[w])
<1>1. UNCHANGED <<tasks, tasks_done, w_jobs, thread>>
  BY OtherSteps DEF FlowOfOther
<1>2. w_pc'[w] = "store" <=> w_pc[w] = "store"
  BY WhereNext DEF FlowOfOther
<1>3. \A k \in InWorker : Places'[w][k] = Places[w][k]
  BY <1>1, <1>2, PlacesStay DEF InWorker
<1>. QED  BY <1>1, <1>3, OnceParts DEF FlowOfOther

(* Orders and wake-ups carry no instance.                                  *)
LEMMA SentUntouched ==
    ASSUME FlowOfOther, ~(ServerAlone /\ SendReply), NEW w \in Worker
    PROVE  SentIn(s2w'[w]) = SentIn(s2w[w]) /\ SentOnce(s2w'[w])
<1>1. s2w[w] \in Seq(FromServer) /\ SentOnce(s2w[w])
  BY OnceParts DEF FlowOfOther, ChannelTypes
<1>2. \/ s2w'[w] = s2w[w]
      \/ s2w'[w] = Append(s2w[w], ActivateWorker)
      \/ s2w'[w] = Append(s2w[w], TerminateWorker)
  BY ToWorkers DEF FlowOfOther
<1>3. ASSUME NEW msg \in FromServer, msg.tag # "SEND_INSTANCES",
             s2w'[w] = Append(s2w[w], msg)
      PROVE  SentIn(s2w'[w]) = SentIn(s2w[w]) /\ SentOnce(s2w'[w])
  <2>1. SentIn(s2w'[w]) = SentIn(s2w[w])
    <3>1. Carried(msg) = {}
      BY <1>3 DEF Carried
    <3>. QED  BY <1>1, <1>3, <3>1, SentAppended
  <2>2. SentOnce(s2w'[w])
    <3>. DEFINE n == Len(s2w[w])
    <3>1. /\ n \in Nat /\ DOMAIN s2w[w] = 1 .. n /\ DOMAIN s2w'[w] = 1 .. n + 1
          /\ s2w'[w][n + 1] = msg
          /\ \A i \in 1 .. n : s2w'[w][i] = s2w[w][i]
      BY <1>1, <1>3, LastOfAppend
    <3>. HIDE DEF n
    <3>2. \A i \in DOMAIN s2w'[w] : i \in DOMAIN s2w[w] \/ i = n + 1
      BY <3>1
    <3>. QED  BY <1>1, <1>3, <3>1, <3>2 DEF SentOnce
  <2>. QED  BY <2>1, <2>2
<1>4. /\ ActivateWorker \in FromServer /\ ActivateWorker.tag # "SEND_INSTANCES"
      /\ TerminateWorker \in FromServer /\ TerminateWorker.tag # "SEND_INSTANCES"
  BY DEF FromServer, ActivateWorker, TerminateWorker
<1>. QED  BY <1>1, <1>2, <1>3, <1>4

(* The server takes messages of the workers; only DONE_PROCESSING returns  *)
(* an instance.                                                            *)
LEMMA ReturnedUntouched ==
    ASSUME FlowOfOther, NEW w \in Worker
    PROVE  /\ \/ ReturnedIn(w2s'[w]) = ReturnedIn(w2s[w])
              \/ ServeWorker(w) /\ Head(w2s[w]).tag = "DONE_PROCESSING"
           /\ ReturnedOnce(w2s'[w])
<1>1. w2s[w] \in Seq(FromWorker) /\ ReturnedOnce(w2s[w])
  BY OnceParts DEF FlowOfOther, ChannelTypes
<1>2. \/ w2s'[w] = w2s[w]
      \/ ServeWorker(w) /\ w2s[w] # <<>> /\ w2s'[w] = Tail(w2s[w])
  BY FromWorkers DEF FlowOfOther
<1>3. CASE w2s'[w] = w2s[w]
  BY <1>1, <1>3
<1>4. CASE ServeWorker(w) /\ w2s[w] # <<>> /\ w2s'[w] = Tail(w2s[w])
  <2>1. ReturnedOnce(Tail(w2s[w]))
    BY <1>1, <1>4, ReturnedTaken
  <2>2. Head(w2s[w]).tag # "DONE_PROCESSING" =>
            ReturnedIn(Tail(w2s[w])) = ReturnedIn(w2s[w])
    BY <1>1, <1>4, ReturnedTaken
  <2>. QED  BY <1>4, <2>1, <2>2
<1>. QED  BY <1>2, <1>3, <1>4

(* What is out changes in two places only.                                 *)
LEMMA OutForms ==
    ASSUME Next
    PROVE  \/ out' = out
           \/ ServerAlone /\ HandOut /\ out' = out \cup InstancesOf(NextJob)
           \/ \E w \in Worker :
                  /\ ServeWorker(w) /\ Head(w2s[w]).tag = "DONE_PROCESSING"
                  /\ out' = out \ {Head(w2s[w]).inst}
<1>1. ASSUME NEW w \in Worker, ServeWorker(w)
      PROVE  \/ out' = out
             \/ /\ Head(w2s[w]).tag = "DONE_PROCESSING"
                /\ out' = out \ {Head(w2s[w]).inst}
  BY <1>1 DEF ServeWorker
<1>. QED  BY <1>1 DEF Next, MainAlone, ThreadAlone, ManagerAlone, LookupFails,
              Spawn, WorkerBarrier, Connect, ServerBarrier, ServerAlone,
              ServeManager

(* GET_INSTANCES: new instances go into the answer.                        *)
LEMMA HandOutFlow ==
    ASSUME FlowOfOther, ServerAlone, HandOut
    PROVE  FlowStep /\ Once'
<1>. DEFINE X == InstancesOf(NextJob)
            w == reply.to
<1>1. /\ MoreToHandOut /\ srv_pc = "handout"
      /\ UNCHANGED <<s2w, w2s>>
      /\ reply' = [to |-> w, left |-> reply.left - NextJob.num,
                   jobs |-> Append(reply.jobs, NextJob)]
      /\ out' = out \cup X
  <2>1. MoreToHandOut /\ srv_pc = "handout"
    BY DEF HandOut, MoreToHandOut
  <2>2. out' = out \cup X
    BY <2>1 DEF ServerAlone, SendReply, Leave, NoManagerCommand
  <2>. QED  BY <2>1, <2>2 DEF HandOut, ServerAlone, worker_vars
<1>2. w \in Worker
  BY <1>1, ServerTypes DEF FlowOfOther, Serving
<1>3. /\ NextJob \in [task : Nat, first : Nat, num : Nat \ {0}]
      /\ X \cap out = {}
  BY <1>1, NextJobNew DEF FlowOfOther
<1>4. reply.jobs \in Seq(JobType) /\ NextJob \in JobType
  BY <1>3 DEF JobType, FlowOfOther, ChannelTypes
<1>5. Replied(w) \cap X = {}
  <2>1. Places[w]["reply"] \subseteq out
    BY <1>2 DEF FlowOfOther, Accounted, Kind
  <2>. QED  BY <1>2, <1>3, <2>1, PlacesByKind
<1>6. InstancesOfJobs(reply.jobs) = Replied(w)
  BY DEF Replied
<1>7. /\ InstancesOfJobs(reply'.jobs) = InstancesOfJobs(reply.jobs) \cup X
      /\ JobsApart(reply'.jobs)
  <2>1. JobsApart(reply.jobs)
    BY OnceParts DEF FlowOfOther
  <2>2. reply'.jobs = Append(reply.jobs, NextJob)
    BY <1>1
  <2>3. InstancesOfJobs(reply.jobs) \cap InstancesOf(NextJob) = {}
    BY <1>5, <1>6
  <2>. HIDE DEF X
  <2>4. InstancesOfJobs(reply'.jobs) =
            InstancesOfJobs(reply.jobs) \cup InstancesOf(NextJob)
    BY <1>4, <2>2, JobsAppended
  <2>5. JobsApart(reply'.jobs)
    BY <1>4, <2>1, <2>2, <2>3, JobsAppended
  <2>. QED  BY <2>4, <2>5 DEF X
<1>8. Once'
  BY <1>1, <1>7, InsideUntouched, OnceParts DEF FlowOfOther
<1>9. \A v \in Worker : Replied(v)' = IF v = w THEN Replied(v) \cup X
                                      ELSE Replied(v)
  <2>1. reply'.to = w
    BY <1>1
  <2>. QED  BY <1>7, <2>1 DEF Replied
<1>. HIDE DEF X
<1>10. \A v \in Worker, k \in Kind : Places'[v][k] =
           IF v = w /\ k = "reply" THEN Places[v][k] \cup X ELSE Places[v][k]
  <2>1. ASSUME NEW v \in Worker
        PROVE  \A k \in Kind : Places'[v][k] =
           IF v = w /\ k = "reply" THEN Places[v][k] \cup X ELSE Places[v][k]
    <3>1. /\ Places'[v]["sent"] = Places[v]["sent"]
          /\ Places'[v]["returned"] = Places[v]["returned"]
      BY <1>1, PlacesStay
    <3>2. Places'[v]["reply"] = IF v = w THEN Places[v]["reply"] \cup X
                                ELSE Places[v]["reply"]
      <4>1. /\ Places[v]["reply"] = Replied(v)
            /\ Places'[v]["reply"] = Replied(v)'
        BY PlacesByKind
      <4>2. Replied(v)' = IF v = w THEN Replied(v) \cup X ELSE Replied(v)
        BY <1>9
      <4>. QED  BY <4>1, <4>2, Zenon
    <3>. QED  BY <3>1, <3>2, InsideUntouched DEF Kind, InWorker
  <2>. QED  BY <2>1
<1>11. Moved(w, "nowhere", "reply", X)
  BY <1>10 DEF Moved, Kind
<1>12. FlowStep
  <2>1. X \cap out = {} /\ out' = out \cup X
    BY <1>1, <1>3 DEF X
  <2>. QED  BY <1>2, <1>11, <2>1 DEF FlowStep, FlowOfOther
<1>. QED  BY <1>8, <1>12

(* The answer goes out.                                                    *)
LEMMA SendReplyFlow ==
    ASSUME FlowOfOther, ServerAlone, SendReply
    PROVE  FlowStep /\ Once'
<1>. DEFINE X == InstancesOfJobs(reply.jobs)
            w == reply.to
            msg == SendInstances(reply.jobs)
<1>1. /\ srv_pc = "handout"
      /\ UNCHANGED w2s
      /\ reply' = NoReply
      /\ s2w' = Broadcast({w}, msg)
      /\ out' = out
  BY DEF SendReply, HandOut, ServerAlone, worker_vars
<1>2. w \in Worker
  BY <1>1, ServerTypes DEF FlowOfOther, Serving
<1>3. /\ reply.jobs \in Seq(JobType) /\ s2w[w] \in Seq(FromServer)
      /\ JobsApart(reply.jobs) /\ SentOnce(s2w[w])
  BY <1>2, OnceParts DEF FlowOfOther, ChannelTypes
<1>4. /\ msg \in FromServer /\ msg.tag = "SEND_INSTANCES" /\ msg.jobs = reply.jobs
  BY <1>3 DEF FromServer, SendInstances
<1>5. Carried(msg) = X
  BY <1>4 DEF Carried
<1>6. /\ s2w'[w] = Append(s2w[w], msg)
      /\ \A v \in Worker \ {w} : s2w'[v] = s2w[v]
  BY <1>1, <1>2 DEF Broadcast
<1>. HIDE DEF msg, X
<1>7. SentIn(s2w'[w]) = SentIn(s2w[w]) \cup X
  BY <1>3, <1>4, <1>5, <1>6, SentAppended
<1>8. SentOnce(s2w'[w])
  <2>. DEFINE n == Len(s2w[w])
  <2>1. /\ n \in Nat /\ DOMAIN s2w[w] = 1 .. n /\ DOMAIN s2w'[w] = 1 .. n + 1
        /\ s2w'[w][n + 1] = msg
        /\ \A i \in 1 .. n : s2w'[w][i] = s2w[w][i]
    BY <1>3, <1>4, <1>6, LastOfAppend
  <2>. HIDE DEF n
  <2>2. \A i \in DOMAIN s2w'[w] : i \in DOMAIN s2w[w] \/ i = n + 1
    BY <2>1
  <2>. QED  BY <1>3, <1>4, <2>1, <2>2 DEF SentOnce
<1>9. Once'
  <2>1. JobsApart(reply'.jobs)
    BY <1>1, NoJobs DEF NoReply
  <2>2. \A v \in Worker : SentOnce(s2w'[v])
    BY <1>6, <1>8, OnceParts DEF FlowOfOther
  <2>. QED  BY <1>1, <2>1, <2>2, InsideUntouched, OnceParts DEF FlowOfOther
<1>10. \A v \in Worker : /\ Replied(v)' = {}
                         /\ Replied(v) = IF v = w THEN X ELSE {}
  <2>1. reply'.to \notin Worker
    BY <1>1, ClusterAssumption DEF NoReply
  <2>. QED  BY <2>1 DEF Replied, X
<1>11. ASSUME NEW v \in Worker
       PROVE  \A k \in Kind : Places'[v][k] =
                  IF v = w /\ k = "reply" THEN Places[v][k] \ X
                  ELSE IF v = w /\ k = "sent" THEN Places[v][k] \cup X
                  ELSE Places[v][k]
  <2>1. Places'[v]["returned"] = Places[v]["returned"]
    BY <1>1, PlacesStay
  <2>2. Places'[v]["reply"] = IF v = w THEN Places[v]["reply"] \ X
                              ELSE Places[v]["reply"]
    <3>1. /\ Places[v]["reply"] = Replied(v)
          /\ Places'[v]["reply"] = Replied(v)'
      BY PlacesByKind
    <3>2. Replied(v)' = IF v = w THEN Replied(v) \ X ELSE Replied(v)
      BY <1>10
    <3>. QED  BY <3>1, <3>2, Zenon
  <2>3. Places'[v]["sent"] = IF v = w THEN Places[v]["sent"] \cup X
                             ELSE Places[v]["sent"]
    <3>1. /\ Places[v]["sent"] = SentIn(s2w[v])
          /\ Places'[v]["sent"] = SentIn(s2w'[v])
      BY PlacesByKind
    <3>. QED  BY <1>6, <1>7, <3>1
  <2>. QED  BY <2>1, <2>2, <2>3, InsideUntouched DEF Kind, InWorker
<1>12. Moved(w, "reply", "sent", X)
  BY <1>11 DEF Moved
<1>13. /\ "reply" \in Kind /\ "sent" \in Kind
       /\ X \subseteq Places[w]["reply"]
  BY <1>2, <1>10, PlacesByKind DEF Kind
<1>14. FlowStep
  BY <1>1, <1>2, <1>12, <1>13, GoOn DEF FlowOfOther
<1>. QED  BY <1>9, <1>14

(* DONE_PROCESSING: an instance is back.                                   *)
LEMMA DoneFlow ==
    ASSUME FlowOfOther, NEW w \in Worker, ServeWorker(w),
           Head(w2s[w]).tag = "DONE_PROCESSING"
    PROVE  /\ FlowStep /\ Once'
           /\ Head(w2s[w]).inst \in Places[w]["returned"]
<1>. DEFINE inst == Head(w2s[w]).inst
<1>1. /\ w2s[w] # <<>> /\ w2s'[w] = Tail(w2s[w])
      /\ w2s[w] \in Seq(FromWorker) /\ ReturnedOnce(w2s[w])
      /\ \A v \in Worker \ {w} : w2s'[v] = w2s[v]
      /\ reply' = reply /\ srv_pc = "testany"
      /\ out' = out \ {inst}
  BY OnceParts DEF ServeWorker, Ready, ProcessDoneProcessing, FlowOfOther,
    ChannelTypes
<1>2. /\ ReturnedIn(Tail(w2s[w])) = ReturnedIn(w2s[w]) \ {inst}
      /\ inst \in ReturnedIn(w2s[w])
  BY <1>1, ReturnedTaken
<1>3. ~SendReply
  BY <1>1 DEF SendReply
<1>4. Once'
  BY <1>1, <1>3, InsideUntouched, SentUntouched, ReturnedUntouched, OnceParts
  DEF FlowOfOther
<1>. HIDE DEF inst
<1>5. ASSUME NEW v \in Worker
      PROVE  \A k \in Kind : Places'[v][k] =
                 IF v = w /\ k = "returned" THEN Places[v][k] \ {inst}
                 ELSE Places[v][k]
  <2>1. Places'[v]["reply"] = Places[v]["reply"]
    BY <1>1, PlacesStay
  <2>2. Places'[v]["sent"] = Places[v]["sent"]
    BY <1>3, SentUntouched, PlacesByKind
  <2>3. Places'[v]["returned"] = IF v = w THEN Places[v]["returned"] \ {inst}
                                 ELSE Places[v]["returned"]
    <3>1. /\ Places[v]["returned"] = ReturnedIn(w2s[v])
          /\ Places'[v]["returned"] = ReturnedIn(w2s'[v])
      BY PlacesByKind
    <3>. QED  BY <1>1, <1>2, <3>1
  <2>. QED  BY <2>1, <2>2, <2>3, InsideUntouched DEF Kind, InWorker
<1>6. Moved(w, "returned", "returned", {inst})
  BY <1>5 DEF Moved
<1>7. inst \in Places[w]["returned"]
  BY <1>2, PlacesByKind
<1>8. FlowStep
  BY <1>1, <1>6, <1>7 DEF FlowStep, FlowOfOther
<1>. QED  BY <1>4, <1>7, <1>8 DEF inst

(* Nothing else concerns an instance.                                      *)
LEMMA RestFlow ==
    ASSUME FlowOfOther, ~(ServerAlone /\ HandOut), ~(ServerAlone /\ SendReply),
           \A w \in Worker :
               ~(ServeWorker(w) /\ Head(w2s[w]).tag = "DONE_PROCESSING")
    PROVE  FlowStep /\ Once'
<1>1. out' = out
  BY OutForms DEF FlowOfOther
<1>2. /\ \A v \in Worker : Replied(v)' = Replied(v)
      /\ JobsApart(reply'.jobs)
  <2>1. CASE reply' = reply
    BY <2>1, OnceParts DEF Replied, FlowOfOther
  <2>2. ASSUME NEW w \in Worker, ServeWorker(w),
               Head(w2s[w]).tag = "GET_INSTANCES",
               reply' = [to |-> w, left |-> Served(Head(w2s[w]).num),
                         jobs |-> <<>>]
        PROVE  /\ \A v \in Worker : Replied(v)' = Replied(v)
               /\ JobsApart(reply'.jobs)
    <3>1. srv_pc = "testany"
      BY <2>2 DEF ServeWorker, ProcessGetInstances, ProcessFoundSolution,
        ProcessDoneProcessing, ProcessDisconnect
    <3>2. reply = NoReply
      BY <3>1 DEF FlowOfOther, Serving
    <3>3. InstancesOfJobs(reply.jobs) = {} /\ InstancesOfJobs(reply'.jobs) = {}
      BY <2>2, <3>2, NoJobs DEF NoReply
    <3>4. JobsApart(reply'.jobs)
      BY <2>2, NoJobs
    <3>. QED  BY <3>3, <3>4 DEF Replied
  <2>. QED  BY <2>1, <2>2, ReplyForms DEF FlowOfOther
<1>3. Once'
  BY <1>2, InsideUntouched, SentUntouched, ReturnedUntouched, OnceParts
  DEF FlowOfOther
<1>4. ASSUME NEW v \in Worker
      PROVE  \A k \in Kind : Places'[v][k] = Places[v][k]
  <2>1. Places'[v]["reply"] = Places[v]["reply"]
    <3>1. Replied(v)' = Replied(v)
      BY <1>2
    <3>. QED  BY <3>1, PlacesByKind
  <2>2. Places'[v]["sent"] = Places[v]["sent"]
    BY SentUntouched, PlacesByKind
  <2>3. Places'[v]["returned"] = Places[v]["returned"]
    BY ReturnedUntouched, PlacesByKind
  <2>. QED  BY <2>1, <2>2, <2>3, InsideUntouched DEF Kind, InWorker
<1>5. FlowStep
  BY <1>1, <1>4 DEF FlowStep, Kept, FlowOfOther
<1>. QED  BY <1>3, <1>5

(* The server's and the manager's steps move instances only between the    *)
(* server's tasks, the answer and the channels.                            *)
LEMMA OtherFlow ==
    ASSUME FlowOfOther
    PROVE  FlowStep /\ Once'
BY HandOutFlow, SendReplyFlow, DoneFlow, RestFlow

-----------------------------------------------------------------------------
(* The tasks a channel brings news of.                                     *)
NewsIn(channel) ==
    {channel[i].task :
        i \in {j \in DOMAIN channel : channel[j].tag = "FOUND_SOLUTION"}}

(* No news of a solution come into a channel but those that are sent.      *)
LEMMA NewsAppended ==
    ASSUME NEW S, NEW left \in Seq(S), NEW right \in Seq(S)
    PROVE  NewsIn(left \o right) \subseteq NewsIn(left) \cup NewsIn(right)
<1>. DEFINE both == left \o right
            n == Len(left)
            m == Len(right)
<1>1. /\ n \in Nat /\ m \in Nat /\ DOMAIN left = 1 .. n /\ DOMAIN right = 1 .. m
      /\ DOMAIN both = 1 .. n + m
      /\ \A i \in DOMAIN left : both[i] = left[i]
      /\ \A i \in DOMAIN right : both[n + i] = right[i]
  BY PartsOfConcat
<1>. HIDE DEF both, n, m
<1>2. ASSUME NEW i \in DOMAIN both
      PROVE  i \in DOMAIN left \/ \E k \in DOMAIN right : i = n + k
  <2>1. CASE i > n
    <3>1. i - n \in DOMAIN right /\ i = n + (i - n)
      BY <1>1, <2>1
    <3>. QED  BY <3>1
  <2>. QED  BY <1>1, <2>1
<1>3. ASSUME NEW t \in NewsIn(both)
      PROVE  t \in NewsIn(left) \cup NewsIn(right)
  <2>1. PICK i \in DOMAIN both : /\ both[i].tag = "FOUND_SOLUTION"
                                 /\ t = both[i].task
    BY DEF NewsIn
  <2>2. CASE i \in DOMAIN left
    BY <1>1, <2>1, <2>2 DEF NewsIn
  <2>3. ASSUME NEW k \in DOMAIN right, i = n + k
        PROVE  t \in NewsIn(right)
    BY <1>1, <2>1, <2>3 DEF NewsIn
  <2>. QED  BY <1>2, <2>2, <2>3
<1>. QED  BY <1>3 DEF both

(* FOUND_SOLUTION at the head of a channel is news of that channel         *)
(* (process_w2s_FOUND_SOLUTION).                                           *)
LEMMA NewsTaken ==
    ASSUME NEW channel \in Seq(FromWorker), channel # <<>>
    PROVE  /\ NewsIn(Tail(channel)) \subseteq NewsIn(channel)
           /\ Head(channel).tag = "FOUND_SOLUTION" =>
                  Head(channel).task \in NewsIn(channel)
<1>. DEFINE rest == Tail(channel)
            n == Len(channel)
<1>1. /\ n \in Nat \ {0} /\ DOMAIN channel = 1 .. n /\ DOMAIN rest = 1 .. n - 1
      /\ Head(channel) = channel[1] /\ 1 \in DOMAIN channel
      /\ \A i \in DOMAIN rest : i + 1 \in DOMAIN channel /\ rest[i] = channel[i + 1]
  BY FirstOfSeq
<1>. HIDE DEF rest, n
<1>2. NewsIn(rest) \subseteq NewsIn(channel)
  BY <1>1 DEF NewsIn
<1>3. Head(channel).tag = "FOUND_SOLUTION" =>
          Head(channel).task \in NewsIn(channel)
  BY <1>1 DEF NewsIn
<1>. QED  BY <1>2, <1>3 DEF rest

(* One command is news of one task, and only if it is FOUND_SOLUTION.      *)
LEMMA NewsSingle ==
    ASSUME NEW msg
    PROVE  /\ NewsIn(<<msg>>) \subseteq {msg.task}
           /\ msg.tag # "FOUND_SOLUTION" => NewsIn(<<msg>>) = {}
           /\ NewsIn(<<>>) = {}
<1>. DEFINE one == <<msg>>
<1>1. DOMAIN one = {1} /\ one[1] = msg
  OBVIOUS
<1>. HIDE DEF one
<1>2. NewsIn(one) \subseteq {msg.task}
  BY <1>1 DEF NewsIn
<1>3. msg.tag # "FOUND_SOLUTION" => NewsIn(one) = {}
  BY <1>1 DEF NewsIn
<1>4. NewsIn(<<>>) = {}
  BY DEF NewsIn
<1>. QED  BY <1>2, <1>3, <1>4 DEF one

(* Only return_task brings news, of the task whose result it returns.      *)
LEMMA WorkerNews ==
    ASSUME WorkerTypes, ChannelTypes, NEW w \in Worker,
           ReturnTask(w) \/ Probe(w) \/ Disconnect(w)
    PROVE  \/ NewsIn(w2s'[w]) \subseteq NewsIn(w2s[w])
           \/ /\ ReturnTask(w)
              /\ NewsIn(w2s'[w]) \subseteq
                     NewsIn(w2s[w]) \cup {Head(tasks_done[w]).inst[1]}
<1>. DEFINE done == Head(tasks_done[w])
            told == DoneProcessing(done.inst, done.outcome = "solved")
            news == FoundSolution(done.inst[1])
<1>1. w2s[w] \in Seq(FromWorker)
  BY DEF ChannelTypes
<1>2. ASSUME NEW msg \in FromWorker, w2s'[w] = w2s[w] \o <<msg>>
      PROVE  /\ NewsIn(w2s'[w]) \subseteq NewsIn(w2s[w]) \cup NewsIn(<<msg>>)
             /\ NewsIn(<<msg>>) \subseteq {msg.task}
             /\ msg.tag # "FOUND_SOLUTION" => NewsIn(<<msg>>) = {}
  <2>1. <<msg>> \in Seq(FromWorker)
    BY SingleSeq
  <2>2. NewsIn(w2s'[w]) \subseteq NewsIn(w2s[w]) \cup NewsIn(<<msg>>)
    BY <1>1, <1>2, <2>1, NewsAppended
  <2>. QED  BY <2>2, NewsSingle
<1>3. CASE ReturnTask(w) /\ done.outcome # "failed"
  <2>1. done \in DoneType
    BY <1>3, FirstOfSeq DEF ReturnTask, WorkerTypes
  <2>2. done.inst \in Instance /\ done.inst[1] \in Nat
    BY <2>1 DEF DoneType, Instance
  <2>3. told \in FromWorker /\ news \in FromWorker
    BY <2>2, WorkerMessages
  <2>4. told.tag = "DONE_PROCESSING" /\ news.task = done.inst[1]
    BY WorkerTags DEF FoundSolution
  <2>5. \/ w2s'[w] = w2s[w] \o (<<news>> \o <<told>>)
        \/ w2s'[w] = w2s[w] \o (<<>> \o <<told>>)
    BY <1>3 DEF ReturnTask, Send, ChannelTypes, ReturnMessages
  <2>. HIDE DEF told, news, done
  <2>6. /\ <<news>> \in Seq(FromWorker) /\ <<told>> \in Seq(FromWorker)
        /\ <<>> \in Seq(FromWorker)
    BY <2>3, SingleSeq, EmptySeq
  <2>7. /\ NewsIn(<<news>>) \subseteq {done.inst[1]}
        /\ NewsIn(<<told>>) = {} /\ NewsIn(<<>>) = {}
    <3>1. told.tag # "FOUND_SOLUTION"
      BY <2>4
    <3>. QED  BY <2>4, <3>1, NewsSingle
  <2>8. ASSUME NEW first \in Seq(FromWorker), NewsIn(first) \subseteq {done.inst[1]},
               w2s'[w] = w2s[w] \o (first \o <<told>>)
        PROVE  NewsIn(w2s'[w]) \subseteq NewsIn(w2s[w]) \cup {done.inst[1]}
    <3>1. PICK msgs \in Seq(FromWorker) : msgs = first \o <<told>>
      BY <2>6, <2>8, PartsOfConcat
    <3>2. NewsIn(msgs) \subseteq NewsIn(first) \cup NewsIn(<<told>>)
      BY <2>6, <2>8, <3>1, NewsAppended
    <3>3. NewsIn(w2s'[w]) \subseteq NewsIn(w2s[w]) \cup NewsIn(msgs)
      BY <1>1, <2>8, <3>1, NewsAppended
    <3>. QED  BY <2>7, <2>8, <3>2, <3>3
  <2>9. NewsIn(w2s'[w]) \subseteq NewsIn(w2s[w]) \cup {done.inst[1]}
    BY <2>5, <2>6, <2>7, <2>8
  <2>. QED  BY <1>3, <2>9 DEF done
<1>4. CASE ~(ReturnTask(w) /\ done.outcome # "failed")
  <2>1. \/ w2s'[w] = w2s[w]
        \/ w2s'[w] = w2s[w] \o <<>>
        \/ w2s'[w] = w2s[w] \o <<DisconnectWorker>>
        \/ w2s'[w] = w2s[w] \o <<GetInstances(instances_to_get[w])>>
    BY <1>4 DEF ReturnTask, Probe, Disconnect, Send, ChannelTypes
  <2>2. /\ GetInstances(instances_to_get[w]) \in FromWorker
        /\ GetInstances(instances_to_get[w]).tag # "FOUND_SOLUTION"
        /\ DisconnectWorker \in FromWorker
        /\ DisconnectWorker.tag # "FOUND_SOLUTION"
    BY DEF FromWorker, WorkerTypes, GetInstances, DisconnectWorker
  <2>3. w2s[w] \o <<>> = w2s[w]
    BY <1>1, ConcatEmptySeq
  <2>4. NewsIn(w2s'[w]) \subseteq NewsIn(w2s[w])
    <3>1. ASSUME NEW msg \in FromWorker, msg.tag # "FOUND_SOLUTION",
                 w2s'[w] = w2s[w] \o <<msg>>
          PROVE  NewsIn(w2s'[w]) \subseteq NewsIn(w2s[w])
      BY <1>2, <3>1
    <3>. QED  BY <2>1, <2>2, <2>3, <3>1
  <2>. QED  BY <2>4
<1>. QED  BY <1>3, <1>4

(* A file once added stays.                                                *)
LEMMA TasksStay ==
    ASSUME SchedProofs!IInv, Next
    PROVE  DOMAIN available_tasks \subseteq DOMAIN available_tasks'
<1>1. available_tasks \in Seq(TaskInfo)
  BY ServerTypes
<1>2. ASSUME NEW n, available_tasks' = Append(available_tasks, NewTask(n))
      PROVE  DOMAIN available_tasks \subseteq DOMAIN available_tasks'
  <2>1. /\ DOMAIN available_tasks = 1 .. Len(available_tasks)
        /\ Len(available_tasks) \in Nat
    BY <1>1, LenProperties
  <2>2. DOMAIN Append(available_tasks, NewTask(n)) = 1 .. Len(available_tasks) + 1
    BY <1>1, LastOfAppend
  <2>. QED  BY <1>2, <2>1, <2>2
<1>3. ASSUME HandOut
      PROVE  DOMAIN available_tasks' = DOMAIN available_tasks
  BY <1>3 DEF HandOut
<1>4. ASSUME NEW t, NEW solved, ProcessDoneProcessing(t, solved)
      PROVE  DOMAIN available_tasks' = DOMAIN available_tasks
  BY <1>4 DEF ProcessDoneProcessing
<1>. QED  BY <1>2, <1>3, <1>4, TaskForms

(* A worker reports solutions of files the server knows.                   *)
LEMMA SolvedTasksKept ==
    ASSUME SchedProofs!IInv, WorkerTypes, ChannelTypes, Accounted, SolvedTasks,
           Next
    PROVE  SolvedTasks'
<1>1. /\ SolvedTasks <=>
             \A w \in Worker : NewsIn(w2s[w]) \subseteq DOMAIN available_tasks
      /\ SolvedTasks' <=>
             \A w \in Worker : NewsIn(w2s'[w]) \subseteq DOMAIN available_tasks'
  BY DEF SolvedTasks, NewsIn
<1>2. ASSUME NEW w \in Worker
      PROVE  NewsIn(w2s'[w]) \subseteq DOMAIN available_tasks
  <2>1. NewsIn(w2s[w]) \subseteq DOMAIN available_tasks
    BY <1>1
  <2>2. CASE ServeWorker(w) /\ w2s[w] # <<>> /\ w2s'[w] = Tail(w2s[w])
    BY <2>1, <2>2, NewsTaken DEF ChannelTypes
  <2>3. CASE MainAlone(w) /\ (ReturnTask(w) \/ Probe(w) \/ Disconnect(w))
    <3>1. ASSUME ReturnTask(w)
          PROVE  Head(tasks_done[w]).inst[1] \in DOMAIN available_tasks
      <4>1. tasks_done[w] \in Seq(DoneType) /\ tasks_done[w] # <<>>
        BY <3>1 DEF ReturnTask, WorkerTypes
      <4>2. Head(tasks_done[w]).inst \in DoneIn(tasks_done[w])
        BY <4>1, FirstOfSeq DEF DoneIn
      <4>3. Places[w]["done"] \subseteq out
        BY DEF Accounted, Kind
      <4>4. Head(tasks_done[w]).inst \in out
        BY <4>2, <4>3, PlacesByKind
      <4>. QED  BY <4>4, ServerTypes
    <3>. QED  BY <2>1, <2>3, <3>1, WorkerNews
  <2>. QED  BY <2>1, <2>2, <2>3, FromWorkers
<1>. QED  BY <1>1, <1>2, TasksStay

-----------------------------------------------------------------------------
(* Every step of the program moves the instances in one of these ways.     *)
LEMMA FlowMoves ==
    ASSUME SchedProofs!IInv, SchedProofs!SchedulerAssumption, Control, Flow, Next
    PROVE  FlowStep /\ Once'
<1>. USE DEF Control, Flow
<1>1. Lost => Lost'
  BY LostStays
<1>2. \A w \in Worker : NoInstance \notin ToSet(tasks[w])
  <2>1. \A w \in Worker : Places[w]["queue"] \subseteq out
    BY DEF Accounted, Kind
  <2>. QED  BY <2>1, NoInstanceOut, PlacesByKind
<1>3. FlowStep /\ Once'
  <2>1. ASSUME NEW w \in Worker, MainAlone(w)
        PROVE  FlowStep /\ Once'
    <3>1. out' = out /\ reply' = reply
      BY <2>1 DEF MainAlone, server_vars
    <3>2. \A v \in Worker \ {w} : SameAt(v)
      BY <2>1, Elsewhere
    <3>3. \A v \in Worker \ {w}, k \in Kind : Places'[v][k] = Places[v][k]
      BY <2>1, Elsewhere
    <3>. QED  BY <1>1, <2>1, <3>1, <3>2, <3>3, MainFlow DEF FlowOfMain
  <2>2. ASSUME NEW w \in Worker, NEW i \in Thread, ThreadAlone(w, i)
        PROVE  FlowStep /\ Once'
    <3>1. out' = out /\ reply' = reply /\ UNCHANGED terminated_workers
      BY <2>2 DEF ThreadAlone, server_vars
    <3>2. \A v \in Worker \ {w} : SameAt(v)
      BY <2>2, Elsewhere
    <3>3. \A v \in Worker \ {w}, k \in Kind : Places'[v][k] = Places[v][k]
      BY <2>2, Elsewhere
    <3>4. SolverThread(w, i) /\ UNCHANGED <<w2s, w_pc, w_jobs, s2w>>
      BY <2>2, SolverLeaves DEF ThreadAlone
    <3>. QED
      BY <1>1, <1>2, <3>1, <3>2, <3>3, <3>4, ThreadFlow DEF FlowOfThread
  <2>3. ASSUME \A w \in Worker : ~MainAlone(w),
               \A w \in Worker, i \in Thread : ~ThreadAlone(w, i)
        PROVE  FlowStep /\ Once'
    BY <1>1, <2>3, OtherFlow DEF FlowOfOther
  <2>. QED  BY <2>1, <2>2, <2>3
<1>. QED  BY <1>3

(* The instances are where they should be after every step.                *)
LEMMA FlowKept ==
    ASSUME SchedProofs!IInv, SchedProofs!SchedulerAssumption, Control, Flow, Next
    PROVE  Flow'
<1>1. FlowStep /\ Once'
  BY FlowMoves
<1>. USE DEF Control, Flow
<1>2. \A w \in Worker : NoInstance \notin ToSet(tasks[w])
  <2>1. \A w \in Worker : Places[w]["queue"] \subseteq out
    BY DEF Accounted, Kind
  <2>. QED  BY <2>1, NoInstanceOut, PlacesByKind
<1>3. Apart' /\ Accounted'
  BY <1>1, PlacesKept
<1>4. Working'
  BY <1>2, WorkingKept
<1>5. SolvedTasks'
  BY SolvedTasksKept
<1>. QED  BY <1>1, <1>3, <1>4, <1>5
=============================================================================
