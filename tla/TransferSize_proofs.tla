-------------------------- MODULE TransferSize_proofs --------------------------
(***************************************************************************)
(* What TransferSize promises, proved for all numbers of workers and all   *)
(* lengths: no command is longer than the buffer it is received in, and    *)
(* nothing but TERMINATE is met by the worker's probe.                     *)
(*                                                                         *)
(* Agreement of a sender and a receiver is inductive for one channel:      *)
(* each command on its way fits what the receiver has, or a request for    *)
(* room enough stands before it (Announced), and what the sender believes  *)
(* is had or is asked for (Coming).  The rest of the invariant says that   *)
(* the rows of the four vectors are about the same workers, and that each  *)
(* worker has one question open or one answer coming, never more.          *)
(***************************************************************************)
EXTENDS TransferSize, Data_proofs

Requests == [tag : {"REQ_MAX_CMD_LENGTH"}, size : 0 .. AbsoluteMax]

FromManager ==
    Requests \cup [tag : {"ADD_FILE"}, name : Names]
             \cup {AddWorkers, TerminateServer}

Tasks(names) == DOMAIN names

FromWorker(names) ==
    Requests \cup [tag : {"GET_INSTANCES"}, num : Nat]
             \cup [tag : {"FOUND_SOLUTION"}, task : Tasks(names)]
             \cup [tag : {"DONE_PROCESSING"}, inst : Tasks(names) \X {1},
                   solved : BOOLEAN]
             \cup {DisconnectWorker}

GivenJob(names) == [task : Tasks(names), first : {1}, num : {1}]

FromServer(names) ==
    Requests \cup [tag : {"SEND_INSTANCES"}, jobs : Seq(GivenJob(names))]
             \cup {ActivateWorker, TerminateWorker}

ManagerTypes ==
    /\ m_pc \in {"loop", "add", "wait", "exit", "last", "end", "aborted"}
    /\ m_buffer \in Lengths /\ m_server_max \in Lengths
    /\ m2s \in Seq(FromManager)

ServerTypes ==
    /\ srv_pc \in {"loop", "gone", "aborted"}
    /\ srv_buffer \in Lengths /\ srv_manager_max \in Lengths
    /\ files \in Seq(Names)
    /\ task_order \in Seq(Tasks(files))
    /\ done \subseteq Tasks(files)

WorkerTypes ==
    /\ w_pc \in [Worker -> {"absent", "activate", "loop", "await", "flush",
                            "bye", "gone", "aborted"}]
    /\ w_server_max \in [Worker -> Lengths]
    /\ w_buffer \in [Worker -> Nat]
    /\ \A w \in Worker : DefaultMax <= w_buffer[w]
    /\ w_running \in [Worker -> BOOLEAN]
    /\ held \in [Worker -> SUBSET Tasks(files)]

ChannelTypes ==
    /\ w2s \in [Worker -> Seq(FromWorker(files))]
    /\ s2w \in [Worker -> Seq(FromServer(files))]

(* Row i of the four vectors is about one worker, and no other row is.     *)
RowTypes ==
    /\ work_units \in Seq(Worker)
    /\ transfer_sizes \in Seq(Lengths)
    /\ worker_comm_buffers \in Seq(Nat)
    /\ work_unit_requests \in Seq(Nat)
    /\ Len(transfer_sizes) = Len(work_units)
    /\ Len(worker_comm_buffers) = Len(work_units)
    /\ Len(work_unit_requests) = Len(work_units)
    /\ \A i \in DOMAIN work_units :
           /\ DefaultMax <= work_unit_requests[i]
           /\ work_unit_requests[i] <= worker_comm_buffers[i]
    /\ \A i, j \in DOMAIN work_units :
           work_units[i] = work_units[j] => i = j

Announced(names, capacity, channel) ==
    \A k \in DOMAIN channel :
        \/ LengthIn(names, channel[k]) <= capacity
        \/ \E j \in 1 .. k - 1 :
               /\ channel[j].tag = "REQ_MAX_CMD_LENGTH"
               /\ LengthIn(names, channel[k]) <= channel[j].size

Agreed(names, believed, capacity, channel) ==
    Announced(names, capacity, channel) /\ Coming(believed, capacity, channel)

ManagerAgreed == Agreed(files, m_server_max, srv_buffer, m2s)

UpAgreed ==
    \A i \in DOMAIN work_units :
        Agreed(files, w_server_max[work_units[i]], work_unit_requests[i],
               w2s[work_units[i]])

DownAgreed ==
    \A i \in DOMAIN work_units :
        Agreed(files, transfer_sizes[i], w_buffer[work_units[i]],
               s2w[work_units[i]])

(* A worker is fresh before it has a row, and it has left when its row is  *)
(* gone; before there is a file none does more than wait for activation.   *)
Presence ==
    /\ workers \subseteq Worker
    /\ Connected \subseteq workers
    /\ \A w \in workers : /\ w_pc[w] # "absent"
                          /\ w \notin Connected => w_pc[w] = "gone"
    /\ \A w \in Worker \ workers :
           /\ w_pc[w] = "absent"
           /\ s2w[w] = <<>> /\ w2s[w] = <<>>
           /\ w_buffer[w] = DefaultMax /\ w_server_max[w] = DefaultMax
    /\ files = <<>> => \A w \in Worker : w_pc[w] \in {"absent", "activate"}

NoQuestion(channel) ==
    \A k \in DOMAIN channel : channel[k].tag # "GET_INSTANCES"

OneQuestion(channel) ==
    \E k \in DOMAIN channel :
        \A j \in DOMAIN channel : channel[j].tag = "GET_INSTANCES" <=> j = k

OnlyTerminate(channel) == \A k \in DOMAIN channel : channel[k].tag = "TERMINATE"

OneAnswer(channel, tag) ==
    \E k \in DOMAIN channel :
        /\ channel[k].tag = tag
        /\ \A j \in DOMAIN channel :
               /\ j < k => channel[j].tag \in {"TERMINATE", "REQ_MAX_CMD_LENGTH"}
               /\ k < j => channel[j].tag = "TERMINATE"

Conversation(w) ==
    \/ /\ w_pc[w] \notin {"activate", "await"}
       /\ NoQuestion(w2s[w]) /\ OnlyTerminate(s2w[w])
    \/ /\ w_pc[w] = "activate" /\ files = <<>>
       /\ NoQuestion(w2s[w]) /\ OnlyTerminate(s2w[w])
    \/ /\ w_pc[w] = "activate" /\ files # <<>>
       /\ NoQuestion(w2s[w]) /\ OneAnswer(s2w[w], "ACTIVATE_WORKER")
    \/ /\ w_pc[w] = "await"
       /\ NoQuestion(w2s[w]) /\ OneAnswer(s2w[w], "SEND_INSTANCES")
    \/ /\ w_pc[w] = "await"
       /\ OneQuestion(w2s[w]) /\ OnlyTerminate(s2w[w])
    \/ /\ w_pc[w] = "await" /\ srv_pc = "aborted"
       /\ NoQuestion(w2s[w]) /\ OnlyTerminate(s2w[w])

Conversations == \A w \in Worker : Conversation(w)

(* DISCONNECT is the last that a worker sends.                             *)
NoFarewell(channel) ==
    \A k \in DOMAIN channel : channel[k].tag # "DISCONNECT"

Farewells ==
    \A w \in Worker : w_pc[w] \in {"bye", "gone"} \/ NoFarewell(w2s[w])

Promises ==
    /\ ManagerTypes /\ ServerTypes /\ WorkerTypes /\ ChannelTypes /\ RowTypes
    /\ ManagerAgreed /\ UpAgreed /\ DownAgreed
    /\ Presence /\ Conversations /\ Farewells

-----------------------------------------------------------------------------
(* Lengths.                                                                *)

(* A text is written with its length in front: serialize in tools.hpp.     *)
LEMMA TextLength ==
    ASSUME NEW n \in Nat
    PROVE  Text(n) \in Nat
BY DEF Text

(* The name of a task of the server has a length, in the files as in the   *)
(* commands about it.                                                      *)
LEMMA NameLength ==
    ASSUME NEW names \in Seq(Names), NEW t \in Tasks(names)
    PROVE  names[t] \in Nat /\ Text(names[t]) \in Nat
<1>1. names[t] \in Names
  BY ElementOfSeq DEF Tasks
<1>2. names[t] \in Nat
  BY <1>1, TransferSizeAssumption
<1>. QED  BY <1>2, TextLength

(* SEND_INSTANCES is as long as its jobs are together.                     *)
LEMMA JobsLengthType ==
    ASSUME NEW names \in Seq(Names), NEW jobs \in Seq(GivenJob(names))
    PROVE  JobsLength(names, jobs) \in Nat
<1>. DEFINE part == [k \in DOMAIN jobs |-> 16 + Text(names[jobs[k].task])]
<1>1. DOMAIN jobs = 1 .. Len(jobs) /\ Len(jobs) \in Nat
  BY LenProperties
<1>2. \A k \in DOMAIN jobs : jobs[k] \in GivenJob(names)
  BY <1>1, ElementOfSeq
<1>3. \A k \in DOMAIN jobs : 16 + Text(names[jobs[k].task]) \in Nat
  <2>1. \A k \in DOMAIN jobs : jobs[k].task \in Tasks(names)
    BY <1>2 DEF GivenJob
  <2>2. \A k \in DOMAIN jobs : Text(names[jobs[k].task]) \in Nat
    BY <2>1, NameLength
  <2>. QED  BY <2>2
<1>4. part \in [DOMAIN jobs -> Nat]
  BY <1>3
<1>5. IsFiniteSet(DOMAIN jobs)
  BY <1>1, FS_Interval
<1>6. SumFunction(part) \in Nat
  <2>. HIDE DEF part
  <2>. QED  BY <1>4, <1>5, SumOfNaturals
<1>. QED  BY <1>6 DEF JobsLength

(* Every command on its way has a length; a request is four bytes long.    *)
LEMMA LengthType ==
    ASSUME NEW names \in Seq(Names),
           NEW msg \in FromManager \cup FromWorker(names) \cup FromServer(names)
    PROVE  /\ LengthIn(names, msg) \in Nat
           /\ msg \in Requests => LengthIn(names, msg) = 4
<1>1. CASE msg \in Requests
  BY <1>1 DEF Requests, LengthIn
<1>2. CASE msg \in [tag : {"ADD_FILE"}, name : Names]
  <2>1. msg.tag = "ADD_FILE" /\ msg.name \in Nat
    BY <1>2, TransferSizeAssumption
  <2>2. Text(msg.name) \in Nat
    BY <2>1, TextLength
  <2>. QED  BY <2>1, <2>2 DEF LengthIn, Requests
<1>3. CASE msg \in {AddWorkers, TerminateServer, DisconnectWorker,
                    ActivateWorker, TerminateWorker}
  BY <1>3 DEF AddWorkers, TerminateServer, DisconnectWorker, ActivateWorker,
              TerminateWorker, LengthIn, Requests
<1>4. CASE msg \in [tag : {"GET_INSTANCES"}, num : Nat]
  BY <1>4 DEF LengthIn, Requests
<1>5. CASE msg \in [tag : {"FOUND_SOLUTION"}, task : Tasks(names)]
  <2>1. msg.tag = "FOUND_SOLUTION" /\ msg.task \in Tasks(names)
    BY <1>5
  <2>2. Text(names[msg.task]) \in Nat
    BY <2>1, NameLength
  <2>. QED  BY <2>1, <2>2 DEF LengthIn, Requests
<1>6. CASE msg \in [tag : {"DONE_PROCESSING"}, inst : Tasks(names) \X {1},
                    solved : BOOLEAN]
  BY <1>6 DEF LengthIn, Requests
<1>7. CASE msg \in [tag : {"SEND_INSTANCES"}, jobs : Seq(GivenJob(names))]
  <2>1. msg.tag = "SEND_INSTANCES" /\ msg.jobs \in Seq(GivenJob(names))
    BY <1>7
  <2>2. JobsLength(names, msg.jobs) \in Nat
    BY <2>1, JobsLengthType
  <2>. QED  BY <2>1, <2>2 DEF LengthIn, Requests
<1>. QED  BY <1>1, <1>2, <1>3, <1>4, <1>5, <1>6, <1>7
          DEF FromManager, FromWorker, FromServer

(* The names of the files before and after a step: a file may be added.    *)
Grows(names, more) ==
    /\ names \in Seq(Names) /\ more \in Seq(Names)
    /\ DOMAIN names \subseteq DOMAIN more
    /\ \A t \in DOMAIN names : more[t] = names[t]

(* A file that is added changes the length of no command on its way: the   *)
(* tasks that are named keep their files (process_m2s_ADD_FILE).           *)
LEMMA LengthKept ==
    ASSUME NEW names, NEW more, Grows(names, more),
           NEW msg \in FromManager \cup FromWorker(names) \cup FromServer(names)
    PROVE  LengthIn(more, msg) = LengthIn(names, msg)
<1>1. CASE msg.tag \notin {"SEND_INSTANCES", "FOUND_SOLUTION",
                           "SEND_STATISTICS"}
  BY <1>1 DEF LengthIn
<1>2. CASE msg.tag = "FOUND_SOLUTION"
  <2>1. msg.task \in Tasks(names)
    BY <1>2 DEF FromManager, FromWorker, FromServer, Requests, AddWorkers,
       TerminateServer, DisconnectWorker, ActivateWorker, TerminateWorker
  <2>2. more[msg.task] = names[msg.task]
    BY <2>1 DEF Grows, Tasks
  <2>. QED  BY <1>2, <2>2 DEF LengthIn
<1>3. CASE msg.tag = "SEND_INSTANCES"
  <2>1. msg.jobs \in Seq(GivenJob(names))
    BY <1>3 DEF FromManager, FromWorker, FromServer, Requests, AddWorkers,
       TerminateServer, DisconnectWorker, ActivateWorker, TerminateWorker
  <2>2. \A k \in DOMAIN msg.jobs : msg.jobs[k].task \in DOMAIN names
    <3>1. \A k \in DOMAIN msg.jobs : msg.jobs[k] \in GivenJob(names)
      BY <2>1, ElementOfSeq, LenProperties
    <3>. QED  BY <3>1 DEF GivenJob, Tasks
  <2>3. [k \in DOMAIN msg.jobs |-> 16 + Text(more[msg.jobs[k].task])]
          = [k \in DOMAIN msg.jobs |-> 16 + Text(names[msg.jobs[k].task])]
    BY <2>2 DEF Grows
  <2>4. JobsLength(more, msg.jobs) = JobsLength(names, msg.jobs)
    BY <2>3 DEF JobsLength
  <2>. QED  BY <1>3, <2>4 DEF LengthIn
<1>4. msg.tag # "SEND_STATISTICS"
  BY DEF FromManager, FromWorker, FromServer, Requests, AddWorkers,
     TerminateServer, DisconnectWorker, ActivateWorker, TerminateWorker
<1>. QED  BY <1>1, <1>2, <1>3, <1>4

(* A channel for some commands is a channel for more.                      *)
LEMMA SeqOfMore ==
    ASSUME NEW S, NEW T, S \subseteq T
    PROVE  Seq(S) \subseteq Seq(T)
<1>1. ASSUME NEW s \in Seq(S)
      PROVE  s \in Seq(T)
  <2>1. /\ Len(s) \in Nat /\ DOMAIN s = 1 .. Len(s)
        /\ \A i \in 1 .. Len(s) : s[i] \in T
    BY ElementOfSeq, LenProperties
  <2>2. s = [i \in 1 .. Len(s) |-> s[i]]
    BY <2>1
  <2>. QED  BY <2>1, <2>2, IsASeq
<1>. QED  BY <1>1

(* So each command may be sent as before when there is one file more.      *)
LEMMA CommandsKept ==
    ASSUME NEW names, NEW more, Grows(names, more)
    PROVE  /\ Tasks(names) \subseteq Tasks(more)
           /\ GivenJob(names) \subseteq GivenJob(more)
           /\ FromWorker(names) \subseteq FromWorker(more)
           /\ FromServer(names) \subseteq FromServer(more)
<1>1. Tasks(names) \subseteq Tasks(more)
  BY DEF Grows, Tasks
<1>2. GivenJob(names) \subseteq GivenJob(more)
  BY <1>1 DEF GivenJob
<1>3. Seq(GivenJob(names)) \subseteq Seq(GivenJob(more))
  BY <1>2, SeqOfMore
<1>4. FromWorker(names) \subseteq FromWorker(more)
  BY <1>1 DEF FromWorker
<1>5. FromServer(names) \subseteq FromServer(more)
  BY <1>3 DEF FromServer
<1>. QED  BY <1>1, <1>2, <1>4, <1>5

-----------------------------------------------------------------------------
(* One channel.                                                            *)

(* What is sent through it: requests, and commands that have a length.     *)
Measured(names, S) ==
    /\ Requests \subseteq S
    /\ \A m \in S : LengthIn(names, m) \in Nat
    /\ \A m \in S : m.tag = "REQ_MAX_CMD_LENGTH" => m.size \in Nat

(* A command that fits what the sender believes, or that is short, may be  *)
(* sent as it is: the W2S and S2W commands of constant length, and the     *)
(* second half of every ensure_cmd_length.                                 *)
LEMMA SentFits ==
    ASSUME NEW names, NEW S, Measured(names, S),
           NEW channel \in Seq(S), NEW msg \in S,
           NEW believed \in Nat, NEW capacity \in Nat,
           Agreed(names, believed, capacity, channel),
           LengthIn(names, msg) <= believed \/ LengthIn(names, msg) <= capacity
    PROVE  Agreed(names, believed, capacity, Append(channel, msg))
<1>. DEFINE new == Append(channel, msg)
<1>1. /\ Len(channel) \in Nat /\ DOMAIN channel = 1 .. Len(channel)
      /\ DOMAIN new = 1 .. Len(channel) + 1
      /\ new[Len(channel) + 1] = msg
      /\ \A k \in DOMAIN channel : new[k] = channel[k]
  BY LastOfAppend
<1>. HIDE DEF new
<1>2. ASSUME NEW k \in DOMAIN channel
      PROVE  \/ LengthIn(names, new[k]) <= capacity
             \/ \E j \in 1 .. k - 1 : /\ new[j].tag = "REQ_MAX_CMD_LENGTH"
                                      /\ LengthIn(names, new[k]) <= new[j].size
  <2>1. \/ LengthIn(names, channel[k]) <= capacity
        \/ \E j \in 1 .. k - 1 : /\ channel[j].tag = "REQ_MAX_CMD_LENGTH"
                                 /\ LengthIn(names, channel[k]) <= channel[j].size
    BY DEF Agreed, Announced
  <2>2. \A j \in 1 .. k - 1 : j \in DOMAIN channel
    BY <1>1
  <2>. QED  BY <1>1, <2>1, <2>2
<1>3. \/ LengthIn(names, msg) <= capacity
      \/ \E j \in DOMAIN channel : /\ channel[j].tag = "REQ_MAX_CMD_LENGTH"
                                   /\ LengthIn(names, msg) <= channel[j].size
  <2>1. CASE LengthIn(names, msg) <= capacity
    BY <2>1
  <2>2. CASE LengthIn(names, msg) <= believed /\ believed <= capacity
    BY <2>2 DEF Measured
  <2>3. ASSUME LengthIn(names, msg) <= believed,
               NEW j \in DOMAIN channel,
               channel[j].tag = "REQ_MAX_CMD_LENGTH",
               channel[j].size >= believed
        PROVE  LengthIn(names, msg) <= channel[j].size
    <3>1. channel[j] \in S
      BY <1>1, ElementOfSeq
    <3>. QED  BY <2>3, <3>1 DEF Measured
  <2>. QED  BY <2>1, <2>2, <2>3 DEF Agreed, Coming
<1>4. Announced(names, capacity, new)
  <2>1. ASSUME NEW k \in DOMAIN new
        PROVE  \/ LengthIn(names, new[k]) <= capacity
               \/ \E j \in 1 .. k - 1 : /\ new[j].tag = "REQ_MAX_CMD_LENGTH"
                                        /\ LengthIn(names, new[k]) <= new[j].size
    <3>1. CASE k \in DOMAIN channel
      BY <1>2, <3>1
    <3>2. CASE k = Len(channel) + 1
      <4>1. k - 1 = Len(channel)
        BY <1>1, <3>2
      <4>2. \A j \in DOMAIN channel : j \in 1 .. k - 1 /\ new[j] = channel[j]
        BY <1>1, <4>1
      <4>. QED  BY <1>1, <1>3, <3>2, <4>2
    <3>. QED  BY <1>1, <3>1, <3>2
  <2>. QED  BY <2>1 DEF Announced
<1>5. Coming(believed, capacity, new)
  <2>1. \A j \in DOMAIN channel : j \in DOMAIN new /\ new[j] = channel[j]
    BY <1>1
  <2>. QED  BY <2>1 DEF Agreed, Coming
<1>. QED  BY <1>4, <1>5 DEF Agreed, new

(* After the request for a size the sender may believe in that size.       *)
LEMMA RequestSent ==
    ASSUME NEW names, NEW S, Measured(names, S), NEW channel \in Seq(S),
           NEW believed \in Nat, NEW capacity \in Nat, 4 <= capacity,
           Agreed(names, believed, capacity, channel),
           NEW size \in 0 .. AbsoluteMax
    PROVE  /\ ReqMaxCmdLength(size) \in S
           /\ Agreed(names, size, capacity, Append(channel, ReqMaxCmdLength(size)))
<1>. DEFINE req == ReqMaxCmdLength(size)
            new == Append(channel, req)
<1>1. req \in S /\ req.tag = "REQ_MAX_CMD_LENGTH" /\ req.size = size
  BY DEF Measured, Requests, ReqMaxCmdLength
<1>2. LengthIn(names, req) = 4
  BY <1>1 DEF LengthIn
<1>. HIDE DEF req
<1>3. Agreed(names, believed, capacity, new)
  BY <1>1, <1>2, SentFits
<1>4. Len(channel) + 1 \in DOMAIN new /\ new[Len(channel) + 1] = req
  BY <1>1, LastOfAppend
<1>5. Coming(size, capacity, new)
  <2>1. size >= size
    BY TransferSizeAssumption
  <2>. QED  BY <1>1, <1>4, <2>1 DEF Coming
<1>. QED  BY <1>1, <1>3, <1>5 DEF Agreed, req

(* ensure_cmd_length and the command keep sender and receiver agreed, and  *)
(* what the sender believes within the limits.                             *)
LEMMA EnsuredAgrees ==
    ASSUME NEW S, Measured(files, S), NEW channel \in Seq(S), NEW msg \in S,
           NEW believed \in Lengths, NEW capacity \in Nat, 4 <= capacity,
           Agreed(files, believed, capacity, channel),
           ~ TooLong(believed, msg)
    PROVE  /\ channel \o Ensured(believed, msg) \in Seq(S)
           /\ Believed(believed, msg) \in Lengths
           /\ Agreed(files, Believed(believed, msg), capacity,
                     channel \o Ensured(believed, msg))
<1>1. Length(msg) \in Nat /\ believed \in Nat
  BY TransferSizeAssumption DEF Measured, Lengths, Length
<1>2. CASE Length(msg) <= believed
  <2>1. Ensured(believed, msg) = <<msg>>
    BY <1>1, <1>2 DEF Ensured
  <2>2. Believed(believed, msg) = believed
    BY <1>1, <1>2 DEF Believed, Bigger
  <2>3. channel \o <<msg>> = Append(channel, msg)
    OBVIOUS
  <2>4. Append(channel, msg) \in Seq(S)
    BY AppendProperties
  <2>. QED  BY <1>1, <1>2, <2>1, <2>2, <2>3, <2>4, SentFits DEF Length
<1>3. CASE Length(msg) > believed
  <2>. DEFINE size == Length(msg)
              req  == ReqMaxCmdLength(size)
              mid  == Append(channel, req)
  <2>1. size \in 0 .. AbsoluteMax /\ size \in Lengths
    BY <1>1, <1>3, TransferSizeAssumption DEF TooLong, Lengths
  <2>2. req \in S /\ Agreed(files, size, capacity, mid)
    BY <1>1, <2>1, RequestSent
  <2>3. mid \in Seq(S)
    BY <2>2, AppendProperties
  <2>4. Agreed(files, size, capacity, Append(mid, msg))
    <3>1. size \in Nat /\ Length(msg) <= size
      BY <1>1
    <3>. HIDE DEF mid, size
    <3>. QED  BY <2>2, <2>3, <3>1, SentFits DEF Length
  <2>5. Ensured(believed, msg) = <<req, msg>>
    BY <1>3 DEF Ensured
  <2>6. channel \o <<req, msg>> = Append(mid, msg)
    BY <2>2
  <2>7. Believed(believed, msg) = size
    BY <1>1, <1>3 DEF Believed, Bigger
  <2>8. Append(mid, msg) \in Seq(S)
    BY <2>3, AppendProperties
  <2>. QED  BY <2>1, <2>4, <2>5, <2>6, <2>7, <2>8
<1>. QED  BY <1>1, <1>2, <1>3

(* req_max_transfer_size::process, or any other command: it fits, and what *)
(* the receiver has then agrees with the rest of the channel.              *)
LEMMA ReceivedFits ==
    ASSUME NEW names, NEW S, Measured(names, S),
           NEW channel \in Seq(S), channel # <<>>,
           NEW believed \in Nat, NEW capacity \in Nat,
           Agreed(names, believed, capacity, channel)
    PROVE  /\ LengthIn(names, Head(channel)) <= capacity
           /\ Reserved(capacity, Head(channel)) \in Nat
           /\ capacity <= Reserved(capacity, Head(channel))
           /\ Agreed(names, believed, Reserved(capacity, Head(channel)),
                     Tail(channel))
<1>. DEFINE msg == Head(channel)
            cap == Reserved(capacity, msg)
            new == Tail(channel)
<1>1. /\ Len(channel) \in Nat \ {0} /\ DOMAIN channel = 1 .. Len(channel)
      /\ 1 \in DOMAIN channel /\ msg = channel[1] /\ msg \in S
      /\ DOMAIN new = 1 .. Len(channel) - 1
      /\ \A k \in DOMAIN new : k + 1 \in DOMAIN channel
                               /\ new[k] = channel[k + 1]
  BY FirstOfSeq
<1>2. \A k \in DOMAIN channel : channel[k] \in S /\ LengthIn(names, channel[k]) \in Nat
  BY <1>1, ElementOfSeq DEF Measured
<1>3. LengthIn(names, msg) <= capacity
  <2>1. \/ LengthIn(names, channel[1]) <= capacity
        \/ \E j \in 1 .. 1 - 1 : TRUE
    BY <1>1 DEF Agreed, Announced
  <2>. QED  BY <1>1, <2>1
<1>4. cap \in Nat /\ capacity <= cap
      /\ (msg.tag = "REQ_MAX_CMD_LENGTH" => msg.size <= cap)
  BY <1>1 DEF Reserved, Bigger, Measured
<1>5. Announced(names, cap, new)
  <2>1. ASSUME NEW k \in DOMAIN new
        PROVE  \/ LengthIn(names, new[k]) <= cap
               \/ \E j \in 1 .. k - 1 : /\ new[j].tag = "REQ_MAX_CMD_LENGTH"
                                        /\ LengthIn(names, new[k]) <= new[j].size
    <3>1. k + 1 \in DOMAIN channel /\ new[k] = channel[k + 1] /\ k \in Nat
      BY <1>1
    <3>2. \/ LengthIn(names, channel[k + 1]) <= capacity
          \/ \E j \in 1 .. k : /\ channel[j].tag = "REQ_MAX_CMD_LENGTH"
                              /\ LengthIn(names, channel[k + 1]) <= channel[j].size
      <4>1. (k + 1) - 1 = k
        BY <3>1
      <4>. QED  BY <3>1, <4>1 DEF Agreed, Announced
    <3>3. CASE LengthIn(names, channel[k + 1]) <= capacity
      BY <1>2, <1>4, <3>1, <3>3
    <3>4. ASSUME NEW j \in 1 .. k, channel[j].tag = "REQ_MAX_CMD_LENGTH",
                 LengthIn(names, channel[k + 1]) <= channel[j].size
          PROVE  \/ LengthIn(names, new[k]) <= cap
                 \/ \E i \in 1 .. k - 1 : /\ new[i].tag = "REQ_MAX_CMD_LENGTH"
                                          /\ LengthIn(names, new[k]) <= new[i].size
      <4>1. CASE j = 1
        <5>1. channel[1].size \in Nat /\ channel[1].size <= cap
          BY <1>1, <1>4, <3>4, <4>1 DEF Measured
        <5>. QED  BY <1>2, <1>4, <3>1, <3>4, <4>1, <5>1
      <4>2. CASE j # 1
        <5>1. j - 1 \in 1 .. k - 1 /\ j - 1 \in DOMAIN new
              /\ new[j - 1] = channel[(j - 1) + 1] /\ (j - 1) + 1 = j
          BY <1>1, <3>1, <4>2
        <5>. QED  BY <3>1, <3>4, <5>1
      <4>. QED  BY <4>1, <4>2
    <3>. QED  BY <3>2, <3>3, <3>4
  <2>. HIDE DEF new, cap
  <2>. QED  BY <2>1 DEF Announced
<1>6. Coming(believed, cap, new)
  <2>1. CASE believed <= capacity
    BY <1>4, <2>1 DEF Coming
  <2>2. ASSUME NEW j \in DOMAIN channel,
               channel[j].tag = "REQ_MAX_CMD_LENGTH",
               channel[j].size >= believed
        PROVE  Coming(believed, cap, new)
    <3>1. CASE j = 1
      <4>1. channel[1].size \in Nat /\ channel[1].size <= cap
        BY <1>1, <1>4, <2>2, <3>1 DEF Measured
      <4>. QED  BY <1>4, <2>2, <3>1, <4>1 DEF Coming
    <3>2. CASE j # 1
      <4>1. j - 1 \in DOMAIN new /\ new[j - 1] = channel[j]
        <5>1. j - 1 \in DOMAIN new /\ (j - 1) + 1 = j
          BY <1>1, <3>2
        <5>. QED  BY <1>1, <5>1
      <4>. QED  BY <2>2, <4>1 DEF Coming
    <3>. QED  BY <3>1, <3>2
  <2>. QED  BY <2>1, <2>2 DEF Agreed, Coming
<1>. QED  BY <1>3, <1>4, <1>5, <1>6 DEF Agreed

(* A buffer that grew for another reason still agrees: each process also   *)
(* serialises into the buffer it receives in.                              *)
LEMMA RoomierAgrees ==
    ASSUME NEW names, NEW S, Measured(names, S), NEW channel \in Seq(S),
           NEW believed \in Nat, NEW capacity \in Nat, NEW more \in Nat,
           capacity <= more, Agreed(names, believed, capacity, channel)
    PROVE  Agreed(names, believed, more, channel)
<1>1. \A k \in DOMAIN channel : LengthIn(names, channel[k]) \in Nat
  BY ElementOfSeq, LenProperties DEF Measured
<1>2. Announced(names, more, channel)
  <2>1. ASSUME NEW k \in DOMAIN channel, LengthIn(names, channel[k]) <= capacity
        PROVE  LengthIn(names, channel[k]) <= more
    BY <1>1, <2>1
  <2>. QED  BY <2>1 DEF Agreed, Announced
<1>3. Coming(believed, more, channel)
  BY DEF Agreed, Coming
<1>. QED  BY <1>2, <1>3 DEF Agreed
(* A file that is added leaves a channel as agreed as it was.              *)
LEMMA AgreedKept ==
    ASSUME NEW names, NEW more, Grows(names, more), NEW S,
           S \subseteq FromManager \cup FromWorker(names) \cup FromServer(names),
           NEW channel \in Seq(S), NEW believed, NEW capacity,
           Agreed(names, believed, capacity, channel)
    PROVE  Agreed(more, believed, capacity, channel)
<1>1. \A k \in DOMAIN channel : channel[k] \in S
  BY ElementOfSeq, LenProperties
<1>2. \A k \in DOMAIN channel :
          LengthIn(more, channel[k]) = LengthIn(names, channel[k])
  BY <1>1, LengthKept
<1>. QED  BY <1>2 DEF Agreed, Announced, Coming

(* All three kinds of channels carry what can be measured.                 *)
LEMMA CommandsMeasured ==
    ASSUME NEW names \in Seq(Names)
    PROVE  /\ Measured(names, FromManager)
           /\ Measured(names, FromWorker(names))
           /\ Measured(names, FromServer(names))
<1>. DEFINE All == FromManager \cup FromWorker(names) \cup FromServer(names)
<1>1. \A m \in All : LengthIn(names, m) \in Nat
  BY LengthType
<1>2. \A m \in All : m.tag = "REQ_MAX_CMD_LENGTH" => m.size \in Nat
  <2>1. ASSUME NEW m \in All, m.tag = "REQ_MAX_CMD_LENGTH"
        PROVE  m \in Requests
    BY <2>1 DEF FromManager, FromWorker, FromServer, AddWorkers,
       TerminateServer, DisconnectWorker, ActivateWorker, TerminateWorker
  <2>2. \A m \in Requests : m.size \in Nat
    BY DEF Requests
  <2>. QED  BY <2>1, <2>2
<1>3. Requests \subseteq FromManager /\ Requests \subseteq FromWorker(names)
      /\ Requests \subseteq FromServer(names)
  BY DEF FromManager, FromWorker, FromServer
<1>. QED  BY <1>1, <1>2, <1>3 DEF Measured
-----------------------------------------------------------------------------
(* The manager.  Its steps touch its own state and its channel.            *)

(* The lengths the program names (communication/common.hpp): a command     *)
(* without names fits the default.                                         *)
LEMMA Numbers ==
    /\ Lengths \subseteq Nat
    /\ DefaultMax \in Lengths /\ AbsoluteMax \in Lengths
    /\ \A n \in Lengths : 73 <= n /\ n <= AbsoluteMax
    /\ \A m, n \in Lengths : Bigger(m, n) \in Lengths
    /\ \A m, n \in Nat : Bigger(m, n) \in Nat /\ m <= Bigger(m, n)
                        /\ n <= Bigger(m, n)
BY TransferSizeAssumption DEF Lengths, Bigger

(* A buffer that grows to a length below the limit stays below the limit.  *)
LEMMA BiggerInRange ==
    ASSUME NEW m \in Lengths, NEW n \in Nat, n <= AbsoluteMax
    PROVE  Bigger(m, n) \in Lengths
BY TransferSizeAssumption DEF Lengths, Bigger

(* ensure_cmd_length and send of the manager (manager_server.hpp).         *)
LEMMA ManagerSendsAgrees ==
    ASSUME ManagerTypes, ServerTypes, ManagerAgreed,
           NEW msg \in FromManager, ~ TooLong(m_server_max, msg),
           ManagerSends(msg)
    PROVE  /\ m2s' \in Seq(FromManager)
           /\ m_server_max' \in Lengths /\ m_buffer' \in Lengths
           /\ Agreed(files, m_server_max', srv_buffer, m2s')
<1>1. Measured(files, FromManager)
  BY CommandsMeasured DEF ServerTypes
<1>2. srv_buffer \in Nat /\ 4 <= srv_buffer
  BY Numbers DEF ServerTypes
<1>3. m_server_max \in Lengths /\ m2s \in Seq(FromManager)
  BY DEF ManagerTypes
<1>4. Agreed(files, m_server_max, srv_buffer, m2s)
  BY DEF ManagerAgreed
<1>5. /\ m2s' \in Seq(FromManager)
      /\ m_server_max' \in Lengths
      /\ Agreed(files, m_server_max', srv_buffer, m2s')
  BY <1>1, <1>2, <1>3, <1>4, EnsuredAgrees DEF ManagerSends
<1>6. Length(msg) \in Nat /\ Length(msg) <= AbsoluteMax
  <2>1. Length(msg) \in Nat
    BY <1>1 DEF Measured, Length
  <2>. QED  BY <1>3, <2>1, TransferSizeAssumption DEF TooLong, Lengths
<1>7. m_buffer' \in Lengths
  BY <1>6, BiggerInRange DEF ManagerSends, ManagerTypes
<1>. QED  BY <1>5, <1>7

(* A command of four bytes is never too long.                              *)
LEMMA ShortFits ==
    ASSUME NEW msg, Length(msg) = 4 \/ Length(msg) = 73,
           NEW believed \in Lengths
    PROVE  ~ TooLong(believed, msg)
BY TransferSizeAssumption DEF TooLong, Lengths

(* Every step of the manager, from the input loop to do_exit.              *)
LEMMA ManagerKeepsPromises ==
    ASSUME Promises, Manager
    PROVE  Promises'
<1>1. /\ ManagerTypes /\ ServerTypes /\ ManagerAgreed
  BY DEF Promises
<1>2. UNCHANGED <<workers, server_vars, worker_vars, s2w>>
  BY DEF Manager, AddFileCommand, AddWorkerCommand, WaitCommand, ExitCommand,
         Poll, LastPollFindsNothing, Wait, ManagerReceives
<1>3. UNCHANGED <<files, srv_buffer>>
  BY <1>2 DEF server_vars, task_vars
<1>4. /\ m2s' \in Seq(FromManager)
      /\ m_server_max' \in Lengths /\ m_buffer' \in Lengths
      /\ Agreed(files, m_server_max', srv_buffer, m2s')
  <2>1. ASSUME UNCHANGED <<m2s, m_server_max, m_buffer>>
        PROVE  /\ m2s' \in Seq(FromManager)
               /\ m_server_max' \in Lengths /\ m_buffer' \in Lengths
               /\ Agreed(files, m_server_max', srv_buffer, m2s')
    BY <1>1, <2>1 DEF ManagerTypes, ManagerAgreed
  <2>2. CASE AddFileCommand
    <3>1. PICK name \in Names :
              LET msg == AddNamedFile(name) IN
              IF TooLong(m_server_max, msg)
              THEN m_pc' = "aborted" /\ UNCHANGED <<m2s, m_server_max, m_buffer>>
              ELSE ManagerSends(msg) /\ UNCHANGED m_pc
      BY <2>2 DEF AddFileCommand
    <3>2. AddNamedFile(name) \in FromManager
      BY DEF AddNamedFile, FromManager
    <3>. QED  BY <1>1, <2>1, <3>1, <3>2, ManagerSendsAgrees
  <2>3. ASSUME NEW msg \in {AddWorkers, TerminateServer}, ManagerSends(msg)
        PROVE  /\ m2s' \in Seq(FromManager)
               /\ m_server_max' \in Lengths /\ m_buffer' \in Lengths
               /\ Agreed(files, m_server_max', srv_buffer, m2s')
    <3>1. msg \in FromManager
      BY DEF FromManager
    <3>2. Length(msg) = 4
      BY DEF AddWorkers, TerminateServer, Length, LengthIn
    <3>. QED  BY <1>1, <2>3, <3>1, <3>2, ManagerSendsAgrees, ShortFits
              DEF ManagerTypes
  <2>4. CASE AddWorkerCommand \/ ExitCommand
    BY <2>3, <2>4 DEF AddWorkerCommand, ExitCommand
  <2>5. CASE WaitCommand \/ Poll \/ LastPollFindsNothing
    BY <2>1, <2>5 DEF WaitCommand, Poll, LastPollFindsNothing
  <2>6. CASE Wait
    BY <2>1, <2>3, <2>6 DEF Wait
  <2>. QED  BY <2>2, <2>4, <2>5, <2>6 DEF Manager
<1>5. m_pc' \in {"loop", "add", "wait", "exit", "last", "end", "aborted"}
  <2>1. AfterPoll(Head(s2m).tag) \in {"end", "wait", "exit", "loop"}
    BY DEF AfterPoll
  <2>. QED  BY <1>1, <2>1 DEF Manager, AddFileCommand, AddWorkerCommand,
            WaitCommand, ExitCommand, Poll, LastPollFindsNothing, Wait,
            ManagerReceives, ManagerTypes
<1>6. ManagerTypes'
  BY <1>4, <1>5 DEF ManagerTypes
<1>7. ManagerAgreed'
  BY <1>3, <1>4 DEF ManagerAgreed
<1>8. /\ ServerTypes' /\ WorkerTypes' /\ ChannelTypes' /\ RowTypes'
  BY <1>2 DEF Promises, ServerTypes, WorkerTypes, ChannelTypes, RowTypes,
              server_vars, worker_vars, task_vars, rows
<1>9. UpAgreed' /\ DownAgreed' /\ Presence'
  BY <1>2 DEF Promises, UpAgreed, DownAgreed, Presence, Connected,
              server_vars, worker_vars, task_vars, rows
<1>10. Conversations' /\ Farewells'
  BY <1>2 DEF Promises, Conversations, Conversation, Farewells,
              server_vars, worker_vars, task_vars, rows
<1>. QED  BY <1>6, <1>7, <1>8, <1>9, <1>10 DEF Promises

-----------------------------------------------------------------------------
(* What is asked and what is answered.                                     *)

(* A channel after a send: the command last, and before it nothing but the *)
(* request of an ensure_cmd_length.                                        *)
Extended(new, channel, msg) ==
    /\ Len(new) \in Nat /\ DOMAIN new = 1 .. Len(new)
    /\ Len(channel) \in Nat /\ DOMAIN channel = 1 .. Len(channel)
    /\ Len(channel) < Len(new)
    /\ new[Len(new)] = msg
    /\ \A k \in DOMAIN channel : new[k] = channel[k]
    /\ \A k \in DOMAIN new : \/ k \in DOMAIN channel \/ k = Len(new)
                             \/ new[k].tag = "REQ_MAX_CMD_LENGTH"

(* Every ensure_cmd_length with its send extends a channel so.             *)
LEMMA EnsuredParts ==
    ASSUME NEW S, NEW channel \in Seq(S), NEW msg, NEW believed
    PROVE  Extended(channel \o Ensured(believed, msg), channel, msg)
<1>. DEFINE new == channel \o Ensured(believed, msg)
            T   == S \cup {msg, ReqMaxCmdLength(Length(msg))}
            req == ReqMaxCmdLength(Length(msg))
<1>1. req.tag = "REQ_MAX_CMD_LENGTH" /\ req \in T /\ msg \in T
  BY DEF ReqMaxCmdLength
<1>2. channel \in Seq(T) /\ Len(channel) \in Nat
      /\ DOMAIN channel = 1 .. Len(channel)
  <2>1. /\ Len(channel) \in Nat /\ DOMAIN channel = 1 .. Len(channel)
        /\ \A i \in 1 .. Len(channel) : channel[i] \in T
    BY ElementOfSeq, LenProperties
  <2>2. channel = [i \in 1 .. Len(channel) |-> channel[i]]
    BY <2>1
  <2>. QED  BY <2>1, <2>2, IsASeq
<1>0. new = channel \o <<msg>> \/ new = channel \o <<req, msg>>
  BY DEF Ensured
<1>. HIDE DEF T, req, new
<1>3. ASSUME new = channel \o <<msg>> PROVE Extended(new, channel, msg)
  <2>1. new = Append(channel, msg)
    BY <1>2, <1>3
  <2>2. /\ Append(channel, msg) \in Seq(T)
        /\ Len(new) = Len(channel) + 1
        /\ DOMAIN new = 1 .. Len(channel) + 1
        /\ new[Len(channel) + 1] = msg
        /\ \A k \in DOMAIN channel : new[k] = channel[k]
    BY <1>1, <1>2, <2>1, LastOfAppend
  <2>. QED  BY <1>2, <2>2 DEF Extended
<1>4. ASSUME new = channel \o <<req, msg>> PROVE Extended(new, channel, msg)
  <2>. DEFINE mid == Append(channel, req)
  <2>1. /\ mid \in Seq(T) /\ Len(mid) = Len(channel) + 1
        /\ DOMAIN mid = 1 .. Len(channel) + 1
        /\ mid[Len(channel) + 1] = req
        /\ \A k \in DOMAIN channel : mid[k] = channel[k]
    BY <1>1, <1>2, LastOfAppend
  <2>2. new = Append(mid, msg)
    BY <1>1, <1>2, <1>4
  <2>. HIDE DEF mid
  <2>3. /\ Len(new) = Len(mid) + 1
        /\ DOMAIN new = 1 .. Len(mid) + 1
        /\ new[Len(mid) + 1] = msg
        /\ \A k \in DOMAIN mid : new[k] = mid[k]
    BY <1>1, <2>1, <2>2, LastOfAppend
  <2>4. \A k \in DOMAIN channel : k \in DOMAIN mid
    BY <1>2, <2>1
  <2>5. new[Len(channel) + 1] = req
    BY <1>2, <2>1, <2>3
  <2>. QED  BY <1>1, <1>2, <2>1, <2>3, <2>4, <2>5 DEF Extended
<1>. QED  BY <1>0, <1>3, <1>4 DEF new

(* A command that does not ask leaves the worker without a question; one   *)
(* that does makes it the only one.                                        *)
LEMMA QuestionSent ==
    ASSUME NEW S, NEW channel \in Seq(S), NEW msg,
           NEW new, Extended(new, channel, msg),
           NoQuestion(channel)
    PROVE  /\ msg.tag # "GET_INSTANCES" => NoQuestion(new)
           /\ msg.tag = "GET_INSTANCES" => OneQuestion(new)
<1>1. /\ Len(new) \in Nat /\ DOMAIN new = 1 .. Len(new)
      /\ Len(channel) \in Nat /\ DOMAIN channel = 1 .. Len(channel)
      /\ Len(channel) < Len(new)
      /\ new[Len(new)] = msg
      /\ \A k \in DOMAIN channel : new[k] = channel[k]
      /\ \A k \in DOMAIN new : \/ k \in DOMAIN channel \/ k = Len(new)
                               \/ new[k].tag = "REQ_MAX_CMD_LENGTH"
  BY DEF Extended
<1>2. \A k \in DOMAIN new : k # Len(new) => new[k].tag # "GET_INSTANCES"
  BY <1>1 DEF NoQuestion
<1>3. Len(new) \in DOMAIN new
  BY <1>1
<1>4. msg.tag # "GET_INSTANCES" => NoQuestion(new)
  BY <1>1, <1>2 DEF NoQuestion
<1>5. ASSUME msg.tag = "GET_INSTANCES"
      PROVE  OneQuestion(new)
  <2>1. \A j \in DOMAIN new :
            new[j].tag = "GET_INSTANCES" <=> j = Len(new)
    BY <1>1, <1>2, <1>5
  <2>. QED  BY <1>3, <2>1 DEF OneQuestion
<1>. QED  BY <1>4, <1>5

(* Nothing but DISCONNECT is a farewell.                                   *)
LEMMA FarewellSent ==
    ASSUME NEW S, NEW channel \in Seq(S), NEW msg,
           NEW new, Extended(new, channel, msg),
           NoFarewell(channel), msg.tag # "DISCONNECT"
    PROVE  NoFarewell(new)
<1>1. /\ new[Len(new)] = msg
      /\ \A k \in DOMAIN channel : new[k] = channel[k]
      /\ \A k \in DOMAIN new : \/ k \in DOMAIN channel \/ k = Len(new)
                               \/ new[k].tag = "REQ_MAX_CMD_LENGTH"
  BY DEF Extended
<1>. QED  BY <1>1 DEF NoFarewell

(* SEND_INSTANCES, with the request before it, is the one answer.          *)
LEMMA AnswerSent ==
    ASSUME NEW S, NEW channel \in Seq(S), NEW msg,
           NEW new, Extended(new, channel, msg),
           OnlyTerminate(channel)
    PROVE  OneAnswer(new, msg.tag)
<1>1. /\ Len(new) \in Nat /\ DOMAIN new = 1 .. Len(new)
      /\ Len(channel) \in Nat /\ DOMAIN channel = 1 .. Len(channel)
      /\ Len(channel) < Len(new)
      /\ new[Len(new)] = msg
      /\ \A k \in DOMAIN channel : new[k] = channel[k]
      /\ \A k \in DOMAIN new : \/ k \in DOMAIN channel \/ k = Len(new)
                               \/ new[k].tag = "REQ_MAX_CMD_LENGTH"
  BY DEF Extended
<1>2. Len(new) \in DOMAIN new
  BY <1>1
<1>3. \A j \in DOMAIN new :
          /\ j < Len(new) => new[j].tag \in {"TERMINATE", "REQ_MAX_CMD_LENGTH"}
          /\ Len(new) < j => new[j].tag = "TERMINATE"
  BY <1>1 DEF OnlyTerminate
<1>. QED  BY <1>1, <1>2, <1>3 DEF OneAnswer

(* Single commands sent as they are: TERMINATE does not disturb an answer  *)
(* and nothing that is no question is one.                                 *)
LEMMA SingleSent ==
    ASSUME NEW S, NEW channel \in Seq(S), NEW msg \in S
    PROVE  /\ OnlyTerminate(channel) =>
                  OneAnswer(Append(channel, msg), msg.tag)
           /\ msg.tag = "TERMINATE" =>
                  /\ OnlyTerminate(channel) =>
                         OnlyTerminate(Append(channel, msg))
                  /\ \A tag : OneAnswer(channel, tag) =>
                                  OneAnswer(Append(channel, msg), tag)
           /\ NoQuestion(channel) /\ msg.tag # "GET_INSTANCES" =>
                  NoQuestion(Append(channel, msg))
           /\ NoFarewell(channel) /\ msg.tag # "DISCONNECT" =>
                  NoFarewell(Append(channel, msg))
<1>. DEFINE new == Append(channel, msg)
            n   == Len(channel) + 1
<1>1. /\ n \in Nat /\ DOMAIN new = 1 .. n /\ n \in DOMAIN new /\ new[n] = msg
      /\ DOMAIN channel = 1 .. n - 1
      /\ \A k \in DOMAIN channel : k \in DOMAIN new /\ new[k] = channel[k]
      /\ \A k \in DOMAIN new : k # n => k \in DOMAIN channel
  BY LastOfAppend
<1>. HIDE DEF new, n
<1>2. ASSUME OnlyTerminate(channel)
      PROVE  OneAnswer(new, msg.tag)
  <2>1. \A j \in DOMAIN new :
            /\ j < n => new[j].tag \in {"TERMINATE", "REQ_MAX_CMD_LENGTH"}
            /\ n < j => new[j].tag = "TERMINATE"
    BY <1>1, <1>2 DEF OnlyTerminate
  <2>. QED  BY <1>1, <2>1 DEF OneAnswer
<1>3. ASSUME msg.tag = "TERMINATE", OnlyTerminate(channel)
      PROVE  OnlyTerminate(new)
  BY <1>1, <1>3 DEF OnlyTerminate
<1>4. ASSUME msg.tag = "TERMINATE", NEW tag, OneAnswer(channel, tag)
      PROVE  OneAnswer(new, tag)
  <2>1. PICK k \in DOMAIN channel :
            /\ channel[k].tag = tag
            /\ \A j \in DOMAIN channel :
                   /\ j < k => channel[j].tag \in {"TERMINATE", "REQ_MAX_CMD_LENGTH"}
                   /\ k < j => channel[j].tag = "TERMINATE"
    BY <1>4 DEF OneAnswer
  <2>2. k \in DOMAIN new /\ new[k].tag = tag
    BY <1>1, <2>1
  <2>3. \A j \in DOMAIN new :
            /\ j < k => new[j].tag \in {"TERMINATE", "REQ_MAX_CMD_LENGTH"}
            /\ k < j => new[j].tag = "TERMINATE"
    BY <1>1, <1>4, <2>1
  <2>. QED  BY <2>2, <2>3 DEF OneAnswer
<1>5. NoQuestion(channel) /\ msg.tag # "GET_INSTANCES" => NoQuestion(new)
  BY <1>1 DEF NoQuestion
<1>6. NoFarewell(channel) /\ msg.tag # "DISCONNECT" => NoFarewell(new)
  BY <1>1 DEF NoFarewell
<1>. QED  BY <1>2, <1>3, <1>4, <1>5, <1>6 DEF new

(* The receiver takes the first command.                                   *)
LEMMA FirstTaken ==
    ASSUME NEW S, NEW channel \in Seq(S), channel # <<>>
    PROVE  /\ OnlyTerminate(channel) => /\ Head(channel).tag = "TERMINATE"
                                        /\ OnlyTerminate(Tail(channel))
           /\ NoQuestion(channel) => /\ Head(channel).tag # "GET_INSTANCES"
                                     /\ NoQuestion(Tail(channel))
           /\ NoFarewell(channel) => /\ Head(channel).tag # "DISCONNECT"
                                     /\ NoFarewell(Tail(channel))
           /\ OneQuestion(channel) =>
                  IF Head(channel).tag = "GET_INSTANCES"
                  THEN NoQuestion(Tail(channel)) ELSE OneQuestion(Tail(channel))
           /\ \A tag \in {"ACTIVATE_WORKER", "SEND_INSTANCES"} :
                  OneAnswer(channel, tag) =>
                      IF Head(channel).tag = tag
                      THEN OnlyTerminate(Tail(channel))
                      ELSE OneAnswer(Tail(channel), tag)
<1>. DEFINE new == Tail(channel)
            msg == Head(channel)
<1>1. /\ Len(channel) \in Nat \ {0} /\ DOMAIN channel = 1 .. Len(channel)
      /\ 1 \in DOMAIN channel /\ msg = channel[1]
      /\ DOMAIN new = 1 .. Len(channel) - 1
      /\ \A k \in DOMAIN new : k + 1 \in DOMAIN channel
                               /\ new[k] = channel[k + 1]
  BY FirstOfSeq
<1>. HIDE DEF new, msg
<1>2. \A k \in DOMAIN channel : k # 1 => /\ k - 1 \in DOMAIN new
                                         /\ new[k - 1] = channel[k]
  <2>1. ASSUME NEW k \in DOMAIN channel, k # 1
        PROVE  k - 1 \in DOMAIN new /\ (k - 1) + 1 = k
    BY <1>1, <2>1
  <2>. QED  BY <1>1, <2>1
<1>3. OnlyTerminate(channel) => msg.tag = "TERMINATE" /\ OnlyTerminate(new)
  BY <1>1 DEF OnlyTerminate
<1>4. NoQuestion(channel) => msg.tag # "GET_INSTANCES" /\ NoQuestion(new)
  BY <1>1 DEF NoQuestion
<1>5. NoFarewell(channel) => msg.tag # "DISCONNECT" /\ NoFarewell(new)
  BY <1>1 DEF NoFarewell
<1>6. ASSUME OneQuestion(channel)
      PROVE  IF msg.tag = "GET_INSTANCES" THEN NoQuestion(new)
             ELSE OneQuestion(new)
  <2>1. PICK k \in DOMAIN channel :
            \A j \in DOMAIN channel :
                channel[j].tag = "GET_INSTANCES" <=> j = k
    BY <1>6 DEF OneQuestion
  <2>2. CASE k = 1
    BY <1>1, <2>1, <2>2 DEF NoQuestion
  <2>3. CASE k # 1
    <3>1. msg.tag # "GET_INSTANCES"
      BY <1>1, <2>1, <2>3
    <3>2. \A j \in DOMAIN new : new[j].tag = "GET_INSTANCES" <=> j = k - 1
      <4>1. ASSUME NEW j \in DOMAIN new
            PROVE  new[j].tag = "GET_INSTANCES" <=> j = k - 1
        <5>1. new[j].tag = "GET_INSTANCES" <=> j + 1 = k
          BY <1>1, <2>1
        <5>. QED  BY <1>1, <5>1
      <4>. QED  BY <4>1
    <3>. QED  BY <1>2, <2>3, <3>1, <3>2 DEF OneQuestion
  <2>. QED  BY <2>2, <2>3
<1>7. ASSUME NEW tag \in {"ACTIVATE_WORKER", "SEND_INSTANCES"},
             OneAnswer(channel, tag)
      PROVE  IF msg.tag = tag THEN OnlyTerminate(new) ELSE OneAnswer(new, tag)
  <2>1. PICK k \in DOMAIN channel :
            /\ channel[k].tag = tag
            /\ \A j \in DOMAIN channel :
                   /\ j < k => channel[j].tag \in {"TERMINATE", "REQ_MAX_CMD_LENGTH"}
                   /\ k < j => channel[j].tag = "TERMINATE"
    BY <1>7 DEF OneAnswer
  <2>2. CASE k = 1
    <3>1. msg.tag = tag
      BY <1>1, <2>1, <2>2
    <3>2. \A j \in DOMAIN new : new[j].tag = "TERMINATE"
      BY <1>1, <2>1, <2>2
    <3>. QED  BY <3>1, <3>2 DEF OnlyTerminate
  <2>3. CASE k # 1
    <3>1. 1 < k
      BY <1>1, <2>3
    <3>2. msg.tag # tag
      BY <1>1, <2>1, <3>1
    <3>3. k - 1 \in DOMAIN new /\ new[k - 1].tag = tag
      BY <1>2, <2>1, <2>3
    <3>4. ASSUME NEW j \in DOMAIN new
          PROVE  /\ j < k - 1 =>
                        new[j].tag \in {"TERMINATE", "REQ_MAX_CMD_LENGTH"}
                 /\ k - 1 < j => new[j].tag = "TERMINATE"
      <4>1. j + 1 \in DOMAIN channel /\ new[j] = channel[j + 1]
        BY <1>1
      <4>2. /\ j + 1 < k =>
                   channel[j + 1].tag \in {"TERMINATE", "REQ_MAX_CMD_LENGTH"}
            /\ k < j + 1 => channel[j + 1].tag = "TERMINATE"
        BY <2>1, <4>1
      <4>3. (j < k - 1 <=> j + 1 < k) /\ (k - 1 < j <=> k < j + 1)
        BY <1>1
      <4>. QED  BY <4>1, <4>2, <4>3
    <3>. QED  BY <3>2, <3>3, <3>4 DEF OneAnswer
  <2>. QED  BY <2>2, <2>3
<1>. QED  BY <1>3, <1>4, <1>5, <1>6, <1>7 DEF new, msg

-----------------------------------------------------------------------------
(* The workers.                                                            *)

(* What only the manager and the server change is as good as before.       *)
LEMMA WorkerFrame ==
    ASSUME Promises, UNCHANGED <<manager_vars, server_vars>>
    PROVE  /\ ManagerTypes' /\ ServerTypes' /\ RowTypes' /\ ManagerAgreed'
           /\ UNCHANGED <<workers, files, srv_pc, work_units, transfer_sizes,
                          work_unit_requests>>
<1>1. UNCHANGED <<m_pc, m_buffer, m_server_max, m2s, workers, srv_pc, files,
                  task_order, done, srv_buffer, srv_manager_max, work_units,
                  transfer_sizes, worker_comm_buffers, work_unit_requests>>
  BY DEF manager_vars, server_vars, task_vars, rows
<1>2. ManagerTypes'
  BY <1>1 DEF Promises, ManagerTypes
<1>3. ServerTypes'
  BY <1>1 DEF Promises, ServerTypes
<1>4. RowTypes'
  BY <1>1 DEF Promises, RowTypes
<1>5. ManagerAgreed'
  BY <1>1 DEF Promises, ManagerAgreed
<1>. QED  BY <1>1, <1>2, <1>3, <1>4, <1>5

(* A worker that takes part in anything has a row.                         *)
LEMMA WorkerHasRow ==
    ASSUME Presence, NEW w \in Worker, w_pc[w] \notin {"absent", "gone"}
    PROVE  w \in workers /\ w \in Connected
BY DEF Presence

(* The step of one worker leaves the others in their place.                *)
LEMMA OneWorkerMoves ==
    ASSUME Promises, NEW w \in Worker, w_pc[w] \notin {"absent", "gone"},
           UNCHANGED <<workers, files, srv_pc, work_units>>,
           \A v \in Worker \ {w} :
               /\ w_pc'[v] = w_pc[v] /\ w2s'[v] = w2s[v] /\ s2w'[v] = s2w[v]
               /\ w_buffer'[v] = w_buffer[v]
               /\ w_server_max'[v] = w_server_max[v],
           w_pc'[w] \notin {"absent", "gone"},
           files = <<>> => w_pc'[w] = "activate",
           Conversation(w)',
           w_pc'[w] = "bye" \/ NoFarewell(w2s'[w])
    PROVE  Presence' /\ Conversations' /\ Farewells'
<1>1. w \in workers /\ w \in Connected /\ Connected' = Connected
  BY WorkerHasRow DEF Promises, Connected
<1>2. Presence'
  BY <1>1 DEF Promises, Presence
<1>3. Conversations'
  <2>1. \A v \in Worker \ {w} : Conversation(v)'
    BY DEF Promises, Conversations, Conversation
  <2>. QED  BY <2>1 DEF Conversations
<1>4. Farewells'
  BY DEF Promises, Farewells
<1>. QED  BY <1>2, <1>3, <1>4

(* The four vectors do not change when a worker sends, and what it sends   *)
(* agrees with whatever its row has.                                       *)
LEMMA WorkerSent ==
    ASSUME Promises, NEW w \in Worker,
           NEW channel \in Seq(FromWorker(files)), NEW believed \in Lengths,
           NEW room \in Nat, w_buffer[w] <= room,
           \A capacity \in Nat :
               /\ 4 <= capacity /\ 73 <= capacity
               /\ Agreed(files, w_server_max[w], capacity, w2s[w])
               => Agreed(files, believed, capacity, channel),
           w2s' = [w2s EXCEPT ![w] = channel],
           w_server_max' = [w_server_max EXCEPT ![w] = believed],
           w_buffer' = [w_buffer EXCEPT ![w] = room],
           UNCHANGED <<files, work_units, work_unit_requests, transfer_sizes,
                       s2w>>
    PROVE  /\ ChannelTypes' /\ UpAgreed' /\ DownAgreed'
           /\ w_server_max' \in [Worker -> Lengths]
           /\ w_buffer' \in [Worker -> Nat]
           /\ \A v \in Worker : DefaultMax <= w_buffer'[v]
<1>1. /\ WorkerTypes /\ ChannelTypes /\ RowTypes /\ UpAgreed /\ DownAgreed
      /\ ServerTypes
  BY DEF Promises
<1>2. ChannelTypes'
  BY <1>1 DEF ChannelTypes
<1>3. /\ w_server_max' \in [Worker -> Lengths]
      /\ w_buffer' \in [Worker -> Nat]
  BY <1>1 DEF WorkerTypes
<1>4. \A v \in Worker : /\ w_buffer[v] \in Nat /\ w_buffer'[v] \in Nat
                        /\ w_buffer[v] <= w_buffer'[v]
  BY <1>1 DEF WorkerTypes
<1>5. \A v \in Worker : DefaultMax <= w_buffer'[v]
  <2>1. \A v \in Worker : DefaultMax <= w_buffer[v]
    BY <1>1 DEF WorkerTypes
  <2>. QED  BY <1>4, <2>1, TransferSizeAssumption
<1>6. \A i \in DOMAIN work_units :
          /\ work_units[i] \in Worker
          /\ work_unit_requests[i] \in Nat /\ 73 <= work_unit_requests[i]
          /\ transfer_sizes[i] \in Lengths
  <2>1. \A i \in DOMAIN work_units :
            /\ work_units[i] \in Worker
            /\ work_unit_requests[i] \in Nat
            /\ transfer_sizes[i] \in Lengths
    BY <1>1, ElementOfSeq, LenProperties DEF RowTypes
  <2>2. \A i \in DOMAIN work_units : DefaultMax <= work_unit_requests[i]
    BY <1>1 DEF RowTypes
  <2>. QED  BY <2>1, <2>2, TransferSizeAssumption
<1>7. UpAgreed'
  <2>1. ASSUME NEW i \in DOMAIN work_units
        PROVE  Agreed(files, w_server_max'[work_units[i]],
                      work_unit_requests[i], w2s'[work_units[i]])
    <3>1. Agreed(files, w_server_max[work_units[i]], work_unit_requests[i],
                 w2s[work_units[i]])
      BY <1>1 DEF UpAgreed
    <3>2. CASE work_units[i] = w
      <4>1. w2s'[w] = channel /\ w_server_max'[w] = believed
        BY <1>1 DEF ChannelTypes, WorkerTypes
      <4>2. 4 <= work_unit_requests[i]
        BY <1>6
      <4>. QED  BY <1>6, <3>1, <3>2, <4>1, <4>2
    <3>3. CASE work_units[i] # w
      <4>1. /\ w2s'[work_units[i]] = w2s[work_units[i]]
            /\ w_server_max'[work_units[i]] = w_server_max[work_units[i]]
        BY <1>1, <1>6, <3>3 DEF ChannelTypes, WorkerTypes
      <4>. QED  BY <3>1, <4>1
    <3>. QED  BY <3>2, <3>3
  <2>. QED  BY <2>1 DEF UpAgreed
<1>8. DownAgreed'
  <2>1. ASSUME NEW i \in DOMAIN work_units
        PROVE  Agreed(files, transfer_sizes[i], w_buffer'[work_units[i]],
                      s2w[work_units[i]])
    <3>1. Agreed(files, transfer_sizes[i], w_buffer[work_units[i]],
                 s2w[work_units[i]])
      BY <1>1 DEF DownAgreed
    <3>2. Measured(files, FromServer(files))
      BY <1>1, CommandsMeasured DEF ServerTypes
    <3>3. s2w[work_units[i]] \in Seq(FromServer(files))
      BY <1>1, <1>6 DEF ChannelTypes
    <3>4. transfer_sizes[i] \in Nat
      BY <1>6, Numbers
    <3>. QED  BY <1>4, <1>6, <3>1, <3>2, <3>3, <3>4, RoomierAgrees
  <2>. QED  BY <2>1 DEF DownAgreed
<1>. QED  BY <1>2, <1>3, <1>5, <1>7, <1>8

(* ensure_cmd_length sends what the channel may carry, whatever the         *)
(* receiver has.                                                           *)
LEMMA EnsuredTypes ==
    ASSUME NEW S, Measured(files, S), NEW channel \in Seq(S), NEW msg \in S,
           NEW believed \in Lengths, ~ TooLong(believed, msg)
    PROVE  /\ channel \o Ensured(believed, msg) \in Seq(S)
           /\ Believed(believed, msg) \in Lengths
<1>1. Length(msg) \in Nat /\ believed \in Nat
  BY Numbers DEF Measured, Length
<1>2. ReqMaxCmdLength(Length(msg)) \in S \/ Ensured(believed, msg) = <<msg>>
  <2>1. CASE Length(msg) <= believed
    BY <1>1, <2>1 DEF Ensured
  <2>2. CASE ~ (Length(msg) <= believed)
    <3>1. Length(msg) \in 0 .. AbsoluteMax
      BY <1>1, <2>2, TransferSizeAssumption DEF TooLong
    <3>. QED  BY <3>1 DEF Measured, Requests, ReqMaxCmdLength
  <2>. QED  BY <2>1, <2>2
<1>3. <<msg>> \in Seq(S)
  BY SingleSeq
<1>4. ReqMaxCmdLength(Length(msg)) \in S =>
          <<ReqMaxCmdLength(Length(msg)), msg>> \in Seq(S)
  OBVIOUS
<1>5. Ensured(believed, msg) \in Seq(S)
  BY <1>2, <1>3, <1>4 DEF Ensured
<1>6. channel \o Ensured(believed, msg) \in Seq(S)
  BY <1>5, ConcatProperties
<1>7. Believed(believed, msg) \in Lengths
  BY <1>1, TransferSizeAssumption DEF Believed, Bigger, Lengths, TooLong
<1>. QED  BY <1>6, <1>7

(* ensure_cmd_length and send of a worker.                                 *)
LEMMA WorkerSendsAgrees ==
    ASSUME Promises, NEW w \in Worker,
           NEW msg \in FromWorker(files), ~ TooLong(w_server_max[w], msg),
           WorkerSends(w, msg),
           UNCHANGED <<files, work_units, work_unit_requests, transfer_sizes,
                       s2w>>
    PROVE  /\ ChannelTypes' /\ UpAgreed' /\ DownAgreed'
           /\ w_server_max' \in [Worker -> Lengths]
           /\ w_buffer' \in [Worker -> Nat]
           /\ \A v \in Worker : DefaultMax <= w_buffer'[v]
           /\ Extended(w2s'[w], w2s[w], msg)
<1>1. /\ WorkerTypes /\ ChannelTypes /\ ServerTypes
  BY DEF Promises
<1>2. /\ w2s[w] \in Seq(FromWorker(files)) /\ w_server_max[w] \in Lengths
      /\ w_buffer[w] \in Nat
  BY <1>1 DEF ChannelTypes, WorkerTypes
<1>3. Measured(files, FromWorker(files))
  BY <1>1, CommandsMeasured DEF ServerTypes
<1>4. PICK channel : channel = w2s[w] \o Ensured(w_server_max[w], msg)
  OBVIOUS
<1>5. PICK believed : believed = Believed(w_server_max[w], msg)
  OBVIOUS
<1>6. PICK room : room = Bigger(w_buffer[w], Length(msg))
  OBVIOUS
<1>7. ASSUME NEW capacity \in Nat, 4 <= capacity,
             Agreed(files, w_server_max[w], capacity, w2s[w])
      PROVE  Agreed(files, believed, capacity, channel)
  BY <1>2, <1>3, <1>4, <1>5, <1>7, EnsuredAgrees
<1>8. channel \in Seq(FromWorker(files)) /\ believed \in Lengths
  BY <1>2, <1>3, <1>4, <1>5, EnsuredTypes
<1>9. room \in Nat /\ w_buffer[w] <= room
  <2>1. Length(msg) \in Nat
    BY <1>3 DEF Measured, Length
  <2>. QED  BY <1>2, <1>6, <2>1, Numbers
<1>10. /\ w2s' = [w2s EXCEPT ![w] = channel]
       /\ w_server_max' = [w_server_max EXCEPT ![w] = believed]
       /\ w_buffer' = [w_buffer EXCEPT ![w] = room]
  BY <1>4, <1>5, <1>6 DEF WorkerSends
<1>11. /\ ChannelTypes' /\ UpAgreed' /\ DownAgreed'
       /\ w_server_max' \in [Worker -> Lengths]
       /\ w_buffer' \in [Worker -> Nat]
       /\ \A v \in Worker : DefaultMax <= w_buffer'[v]
  BY <1>7, <1>8, <1>9, <1>10, WorkerSent
<1>12. w2s'[w] = channel
  BY <1>1, <1>10 DEF ChannelTypes
<1>13. Extended(channel, w2s[w], msg)
  BY <1>2, <1>4, EnsuredParts
<1>. QED  BY <1>11, <1>12, <1>13

(* Probe and GET_INSTANCES: the main loop of worker.cpp.  In it there is   *)
(* no answer on its way, so what is probed can only be TERMINATE.          *)
LEMMA ProbeKeepsPromises ==
    ASSUME Promises, NEW w \in Worker, Probe(w)
    PROVE  Promises'
<1>1. UNCHANGED <<manager_vars, server_vars, held, s2m, s2w>> /\ w_pc[w] = "loop"
  BY DEF Probe
<1>2. /\ ManagerTypes' /\ ServerTypes' /\ RowTypes' /\ ManagerAgreed'
      /\ UNCHANGED <<workers, files, srv_pc, work_units, transfer_sizes,
                     work_unit_requests>>
  BY <1>1, WorkerFrame
<1>3. /\ WorkerTypes /\ ChannelTypes /\ UpAgreed /\ DownAgreed
  BY DEF Promises
<1>4. Conversation(w) /\ (w_pc[w] = "loop" => NoFarewell(w2s[w]))
      /\ files # <<>>
  BY <1>1 DEF Promises, Conversations, Farewells, Presence
<1>5. NoQuestion(w2s[w]) /\ OnlyTerminate(s2w[w]) /\ NoFarewell(w2s[w])
  BY <1>1, <1>4 DEF Conversation
<1>6. CASE s2w[w] # <<>> /\ Head(s2w[w]).tag = "TERMINATE"
  <2>1. /\ w_running' = [w_running EXCEPT ![w] = FALSE]
        /\ w_pc' = [w_pc EXCEPT ![w] = "flush"]
        /\ UNCHANGED <<w2s, w_buffer, w_server_max>>
    BY <1>6 DEF Probe, Goto
  <2>2. WorkerTypes' /\ ChannelTypes'
    BY <1>1, <1>2, <1>3, <2>1 DEF WorkerTypes, ChannelTypes
  <2>3. UpAgreed' /\ DownAgreed'
    BY <1>1, <1>2, <1>3, <2>1 DEF UpAgreed, DownAgreed
  <2>4. w_pc'[w] = "flush" /\ \A v \in Worker \ {w} : w_pc'[v] = w_pc[v]
    BY <1>3, <2>1 DEF WorkerTypes
  <2>5. Conversation(w)' /\ NoFarewell(w2s'[w])
    BY <1>1, <1>5, <2>1, <2>4 DEF Conversation
  <2>6. Presence' /\ Conversations' /\ Farewells'
    BY <1>1, <1>2, <1>4, <2>1, <2>4, <2>5, OneWorkerMoves
  <2>. QED  BY <1>2, <2>2, <2>3, <2>6 DEF Promises
<1>7. CASE ~ (s2w[w] # <<>> /\ Head(s2w[w]).tag = "TERMINATE")
  <2>1. PICK num \in 1 .. NumThreads : WorkerSends(w, GetInstances(num))
    BY <1>7 DEF Probe
  <2>2. w_pc' = [w_pc EXCEPT ![w] = "await"] /\ UNCHANGED w_running
    BY <1>7 DEF Probe, Goto
  <2>3. GetInstances(num) \in FromWorker(files)
        /\ GetInstances(num).tag = "GET_INSTANCES"
    BY DEF GetInstances, FromWorker
  <2>4. Length(GetInstances(num)) = 4
    BY DEF GetInstances, Length, LengthIn
  <2>5. ~ TooLong(w_server_max[w], GetInstances(num))
    BY <1>3, <2>4, ShortFits DEF WorkerTypes
  <2>6. /\ ChannelTypes' /\ UpAgreed' /\ DownAgreed'
        /\ w_server_max' \in [Worker -> Lengths]
        /\ w_buffer' \in [Worker -> Nat]
        /\ \A v \in Worker : DefaultMax <= w_buffer'[v]
        /\ Extended(w2s'[w], w2s[w], GetInstances(num))
    BY <1>1, <1>2, <2>1, <2>3, <2>5, WorkerSendsAgrees
  <2>7. w_pc'[w] = "await" /\ \A v \in Worker \ {w} : w_pc'[v] = w_pc[v]
    BY <1>3, <2>2 DEF WorkerTypes
  <2>8. WorkerTypes'
    BY <1>1, <1>2, <1>3, <2>2, <2>6 DEF WorkerTypes
  <2>9. w2s[w] \in Seq(FromWorker(files))
    BY <1>3 DEF ChannelTypes
  <2>10. OneQuestion(w2s'[w]) /\ NoFarewell(w2s'[w])
    <3>1. OneQuestion(w2s'[w])
      BY <1>5, <2>3, <2>6, <2>9, QuestionSent
    <3>2. NoFarewell(w2s'[w])
      BY <1>5, <2>3, <2>6, <2>9, FarewellSent
    <3>. QED  BY <3>1, <3>2
  <2>11. Conversation(w)'
    BY <1>1, <1>5, <2>7, <2>10 DEF Conversation
  <2>12. \A v \in Worker \ {w} :
             /\ w2s'[v] = w2s[v] /\ w_buffer'[v] = w_buffer[v]
             /\ w_server_max'[v] = w_server_max[v]
    BY <1>3, <2>1 DEF WorkerSends, ChannelTypes, WorkerTypes
  <2>13. Presence' /\ Conversations' /\ Farewells'
    BY <1>1, <1>2, <1>4, <2>7, <2>10, <2>11, <2>12, OneWorkerMoves
  <2>. QED  BY <1>2, <2>6, <2>8, <2>13 DEF Promises
<1>. QED  BY <1>6, <1>7

(* return_task of a task without a solution.                               *)
LEMMA ReturnUnsolvedKeepsPromises ==
    ASSUME Promises, NEW w \in Worker, ReturnUnsolved(w)
    PROVE  Promises'
<1>1. UNCHANGED <<manager_vars, server_vars, w_pc, w_running, s2m, s2w>>
      /\ w_pc[w] \in {"loop", "flush"}
  BY DEF ReturnUnsolved
<1>2. /\ ManagerTypes' /\ ServerTypes' /\ RowTypes' /\ ManagerAgreed'
      /\ UNCHANGED <<workers, files, srv_pc, work_units, transfer_sizes,
                     work_unit_requests>>
  BY <1>1, WorkerFrame
<1>3. /\ WorkerTypes /\ ChannelTypes
  BY DEF Promises
<1>4. Conversation(w) /\ NoFarewell(w2s[w]) /\ files # <<>>
  BY <1>1 DEF Promises, Conversations, Farewells, Presence
<1>5. NoQuestion(w2s[w]) /\ OnlyTerminate(s2w[w])
  BY <1>1, <1>4 DEF Conversation
<1>6. PICK f \in held[w] : /\ WorkerSends(w, DoneProcessing(<<f, 1>>, FALSE))
                           /\ held' = [held EXCEPT ![w] = @ \ {f}]
  BY DEF ReturnUnsolved
<1>. DEFINE msg == DoneProcessing(<<f, 1>>, FALSE)
<1>7. msg \in FromWorker(files) /\ msg.tag = "DONE_PROCESSING"
  <2>1. f \in Tasks(files)
    BY <1>3 DEF WorkerTypes
  <2>. QED  BY <2>1 DEF DoneProcessing, FromWorker
<1>8. ~ TooLong(w_server_max[w], msg)
  <2>1. Length(msg) = 73
    BY <1>7 DEF Length, LengthIn
  <2>. HIDE DEF msg
  <2>. QED  BY <1>3, <2>1, ShortFits DEF WorkerTypes
<1>. HIDE DEF msg
<1>9. /\ ChannelTypes' /\ UpAgreed' /\ DownAgreed'
      /\ w_server_max' \in [Worker -> Lengths]
      /\ w_buffer' \in [Worker -> Nat]
      /\ \A v \in Worker : DefaultMax <= w_buffer'[v]
      /\ Extended(w2s'[w], w2s[w], msg)
  BY <1>1, <1>2, <1>6, <1>7, <1>8, WorkerSendsAgrees DEF msg
<1>10. WorkerTypes'
  <2>1. held' \in [Worker -> SUBSET Tasks(files)]
    BY <1>3, <1>6 DEF WorkerTypes
  <2>. QED  BY <1>1, <1>2, <1>3, <1>9, <2>1 DEF WorkerTypes
<1>11. NoQuestion(w2s'[w]) /\ NoFarewell(w2s'[w])
  <2>1. w2s[w] \in Seq(FromWorker(files))
    BY <1>3 DEF ChannelTypes
  <2>2. NoQuestion(w2s'[w])
    BY <1>5, <1>7, <1>9, <2>1, QuestionSent
  <2>3. NoFarewell(w2s'[w])
    BY <1>4, <1>7, <1>9, <2>1, FarewellSent
  <2>. QED  BY <2>2, <2>3
<1>12. Conversation(w)'
  BY <1>1, <1>5, <1>11 DEF Conversation
<1>13. \A v \in Worker \ {w} :
           /\ w2s'[v] = w2s[v] /\ w_buffer'[v] = w_buffer[v]
           /\ w_server_max'[v] = w_server_max[v]
  BY <1>3, <1>6 DEF WorkerSends, ChannelTypes, WorkerTypes
<1>14. Presence' /\ Conversations' /\ Farewells'
  BY <1>1, <1>2, <1>4, <1>11, <1>12, <1>13, OneWorkerMoves
<1>. QED  BY <1>2, <1>9, <1>10, <1>14 DEF Promises

(* return_task of a task with its solution: FOUND_SOLUTION, which may be   *)
(* long, and DONE_PROCESSING after it.                                     *)
LEMMA ReturnSolvedKeepsPromises ==
    ASSUME Promises, NEW w \in Worker, ReturnSolved(w)
    PROVE  Promises'
<1>1. UNCHANGED <<manager_vars, server_vars, w_running, s2m, s2w>>
      /\ w_pc[w] \in {"loop", "flush"}
  BY DEF ReturnSolved
<1>2. /\ ManagerTypes' /\ ServerTypes' /\ RowTypes' /\ ManagerAgreed'
      /\ UNCHANGED <<workers, files, srv_pc, work_units, transfer_sizes,
                     work_unit_requests>>
  BY <1>1, WorkerFrame
<1>3. /\ WorkerTypes /\ ChannelTypes /\ UpAgreed /\ DownAgreed /\ ServerTypes
  BY DEF Promises
<1>4. Conversation(w) /\ NoFarewell(w2s[w]) /\ files # <<>>
  BY <1>1 DEF Promises, Conversations, Farewells, Presence
<1>5. NoQuestion(w2s[w]) /\ OnlyTerminate(s2w[w])
  BY <1>1, <1>4 DEF Conversation
<1>6. PICK f \in held[w] :
          IF TooLong(w_server_max[w], FoundSolution(f))
          THEN Goto(w, "aborted")
               /\ UNCHANGED <<w2s, w_server_max, w_buffer, held>>
          ELSE /\ w2s' = [w2s EXCEPT ![w] =
                      Append(@ \o Ensured(w_server_max[w], FoundSolution(f)),
                             DoneProcessing(<<f, 1>>, TRUE))]
               /\ w_server_max' = [w_server_max EXCEPT ![w] =
                                       Believed(@, FoundSolution(f))]
               /\ w_buffer' = [w_buffer EXCEPT ![w] =
                                   Bigger(@, Length(FoundSolution(f)))]
               /\ held' = [held EXCEPT ![w] = @ \ {f}]
               /\ UNCHANGED w_pc
  BY DEF ReturnSolved
<1>7. f \in Tasks(files)
  BY <1>3 DEF WorkerTypes
<1>8. CASE TooLong(w_server_max[w], FoundSolution(f))
  <2>1. /\ w_pc' = [w_pc EXCEPT ![w] = "aborted"]
        /\ UNCHANGED <<w2s, w_server_max, w_buffer, held>>
    BY <1>6, <1>8 DEF Goto
  <2>2. WorkerTypes' /\ ChannelTypes'
    BY <1>1, <1>2, <1>3, <2>1 DEF WorkerTypes, ChannelTypes
  <2>3. UpAgreed' /\ DownAgreed'
    BY <1>1, <1>2, <1>3, <2>1 DEF UpAgreed, DownAgreed
  <2>4. w_pc'[w] = "aborted" /\ \A v \in Worker \ {w} : w_pc'[v] = w_pc[v]
    BY <1>3, <2>1 DEF WorkerTypes
  <2>5. Conversation(w)' /\ NoFarewell(w2s'[w])
    BY <1>1, <1>4, <1>5, <2>1, <2>4 DEF Conversation
  <2>6. Presence' /\ Conversations' /\ Farewells'
    BY <1>1, <1>2, <1>4, <2>1, <2>4, <2>5, OneWorkerMoves
  <2>. QED  BY <1>2, <2>2, <2>3, <2>6 DEF Promises
<1>9. CASE ~ TooLong(w_server_max[w], FoundSolution(f))
  <2>. DEFINE msg  == FoundSolution(f)
              last == DoneProcessing(<<f, 1>>, TRUE)
              S    == FromWorker(files)
  <2>1. /\ w2s[w] \in Seq(S) /\ w_server_max[w] \in Lengths
        /\ w_buffer[w] \in Nat
    BY <1>3 DEF ChannelTypes, WorkerTypes
  <2>2. Measured(files, S)
    BY <1>3, CommandsMeasured DEF ServerTypes
  <2>3. msg \in S /\ msg.tag = "FOUND_SOLUTION"
    BY <1>7 DEF FoundSolution, FromWorker
  <2>4. last \in S /\ last.tag = "DONE_PROCESSING"
    BY <1>7 DEF DoneProcessing, FromWorker
  <2>5. LengthIn(files, last) = 73
    BY <2>4 DEF LengthIn
  <2>6. PICK mid : mid = w2s[w] \o Ensured(w_server_max[w], msg)
    OBVIOUS
  <2>7. PICK channel : channel = Append(mid, last)
    OBVIOUS
  <2>8. PICK believed : believed = Believed(w_server_max[w], msg)
    OBVIOUS
  <2>9. PICK room : room = Bigger(w_buffer[w], Length(msg))
    OBVIOUS
  <2>10. /\ w2s' = [w2s EXCEPT ![w] = channel]
         /\ w_server_max' = [w_server_max EXCEPT ![w] = believed]
         /\ w_buffer' = [w_buffer EXCEPT ![w] = room]
         /\ held' = [held EXCEPT ![w] = @ \ {f}]
         /\ UNCHANGED w_pc
    BY <1>6, <1>9, <2>6, <2>7, <2>8, <2>9
  <2>. HIDE DEF msg, last, S
  <2>11. mid \in Seq(S) /\ believed \in Lengths
    BY <1>9, <2>1, <2>2, <2>3, <2>6, <2>8, EnsuredTypes DEF msg
  <2>12. channel \in Seq(S)
    BY <2>4, <2>7, <2>11, AppendProperties
  <2>13. ASSUME NEW capacity \in Nat, 4 <= capacity, 73 <= capacity,
                Agreed(files, w_server_max[w], capacity, w2s[w])
         PROVE  Agreed(files, believed, capacity, channel)
    <3>1. Agreed(files, believed, capacity, mid)
      BY <1>9, <2>1, <2>2, <2>3, <2>6, <2>8, <2>13, EnsuredAgrees DEF msg
    <3>2. believed \in Nat
      BY <2>11, Numbers
    <3>3. LengthIn(files, last) <= capacity
      BY <2>5, <2>13
    <3>. QED  BY <2>2, <2>4, <2>7, <2>11, <3>1, <3>2, <3>3, SentFits
  <2>14. room \in Nat /\ w_buffer[w] <= room
    <3>1. Length(msg) \in Nat
      BY <2>2, <2>3 DEF Measured, Length
    <3>. QED  BY <2>1, <2>9, <3>1, Numbers
  <2>15. /\ ChannelTypes' /\ UpAgreed' /\ DownAgreed'
         /\ w_server_max' \in [Worker -> Lengths]
         /\ w_buffer' \in [Worker -> Nat]
         /\ \A v \in Worker : DefaultMax <= w_buffer'[v]
    BY <1>1, <1>2, <2>10, <2>11, <2>12, <2>13, <2>14, WorkerSent DEF S
  <2>16. WorkerTypes'
    <3>1. held' \in [Worker -> SUBSET Tasks(files)]
      BY <1>3, <2>10 DEF WorkerTypes
    <3>. QED  BY <1>1, <1>2, <1>3, <2>10, <2>15, <3>1 DEF WorkerTypes
  <2>17. NoQuestion(channel) /\ NoFarewell(channel)
    <3>1. Extended(mid, w2s[w], msg)
      BY <2>1, <2>6, EnsuredParts
    <3>2. NoQuestion(mid)
      BY <1>5, <2>1, <2>3, <3>1, QuestionSent
    <3>3. NoFarewell(mid)
      BY <1>4, <2>1, <2>3, <3>1, FarewellSent
    <3>. QED  BY <2>4, <2>7, <2>11, <3>2, <3>3, SingleSent
  <2>18. w2s'[w] = channel
         /\ \A v \in Worker \ {w} :
                /\ w2s'[v] = w2s[v] /\ w_buffer'[v] = w_buffer[v]
                /\ w_server_max'[v] = w_server_max[v]
    BY <1>3, <2>10 DEF ChannelTypes, WorkerTypes
  <2>19. Conversation(w)'
    BY <1>1, <1>5, <2>10, <2>17, <2>18 DEF Conversation
  <2>20. Presence' /\ Conversations' /\ Farewells'
    BY <1>1, <1>2, <1>4, <2>10, <2>17, <2>18, <2>19, OneWorkerMoves
  <2>. QED  BY <1>2, <2>15, <2>16, <2>20 DEF Promises
<1>. QED  BY <1>8, <1>9

(* DISCONNECT, after everything else has been flushed.                     *)
LEMMA DisconnectKeepsPromises ==
    ASSUME Promises, NEW w \in Worker, Disconnect(w)
    PROVE  Promises'
<1>1. /\ UNCHANGED <<manager_vars, server_vars, w_running, w_buffer,
                     w_server_max, s2m, s2w>>
      /\ w_pc[w] = "flush"
      /\ w2s' = [w2s EXCEPT ![w] = Append(@, DisconnectWorker)]
      /\ held' = [held EXCEPT ![w] = {}]
      /\ w_pc' = [w_pc EXCEPT ![w] = "bye"]
  BY DEF Disconnect, Goto
<1>2. /\ ManagerTypes' /\ ServerTypes' /\ RowTypes' /\ ManagerAgreed'
      /\ UNCHANGED <<workers, files, srv_pc, work_units, transfer_sizes,
                     work_unit_requests>>
  BY <1>1, WorkerFrame
<1>3. /\ WorkerTypes /\ ChannelTypes /\ ServerTypes
  BY DEF Promises
<1>4. Conversation(w) /\ files # <<>>
  BY <1>1 DEF Promises, Conversations, Presence
<1>5. NoQuestion(w2s[w]) /\ OnlyTerminate(s2w[w])
  BY <1>1, <1>4 DEF Conversation
<1>. DEFINE S == FromWorker(files)
<1>6. /\ w2s[w] \in Seq(S) /\ w_server_max[w] \in Lengths
      /\ w_buffer[w] \in Nat
  BY <1>3 DEF ChannelTypes, WorkerTypes
<1>7. Measured(files, S)
  BY <1>3, CommandsMeasured DEF ServerTypes
<1>8. DisconnectWorker \in S /\ DisconnectWorker.tag = "DISCONNECT"
      /\ LengthIn(files, DisconnectWorker) = 4
  BY DEF DisconnectWorker, FromWorker, LengthIn
<1>9. PICK channel : channel = Append(w2s[w], DisconnectWorker)
  OBVIOUS
<1>10. PICK believed : believed = w_server_max[w]
  OBVIOUS
<1>11. PICK room : room = w_buffer[w]
  OBVIOUS
<1>12. /\ w2s' = [w2s EXCEPT ![w] = channel]
       /\ w_server_max' = [w_server_max EXCEPT ![w] = believed]
       /\ w_buffer' = [w_buffer EXCEPT ![w] = room]
  BY <1>1, <1>3, <1>9, <1>10, <1>11 DEF WorkerTypes
<1>. HIDE DEF S
<1>13. channel \in Seq(S)
  BY <1>6, <1>8, <1>9, AppendProperties
<1>14. ASSUME NEW capacity \in Nat, 4 <= capacity,
              Agreed(files, w_server_max[w], capacity, w2s[w])
       PROVE  Agreed(files, believed, capacity, channel)
  <2>1. w_server_max[w] \in Nat
    BY <1>6, Numbers
  <2>2. LengthIn(files, DisconnectWorker) <= capacity
    BY <1>8, <1>14
  <2>. QED  BY <1>6, <1>7, <1>8, <1>9, <1>10, <1>14, <2>1, <2>2, SentFits
<1>15. believed \in Lengths /\ room \in Nat /\ w_buffer[w] <= room
  BY <1>6, <1>10, <1>11
<1>16. /\ ChannelTypes' /\ UpAgreed' /\ DownAgreed'
       /\ \A v \in Worker : DefaultMax <= w_buffer'[v]
  BY <1>1, <1>2, <1>12, <1>13, <1>14, <1>15, WorkerSent DEF S
<1>17. w_pc'[w] = "bye" /\ \A v \in Worker \ {w} : w_pc'[v] = w_pc[v]
  BY <1>1, <1>3 DEF WorkerTypes
<1>18. WorkerTypes'
  BY <1>1, <1>2, <1>3 DEF WorkerTypes
<1>19. NoQuestion(channel)
  BY <1>5, <1>6, <1>8, <1>9, SingleSent
<1>20. w2s'[w] = channel /\ \A v \in Worker \ {w} : w2s'[v] = w2s[v]
  BY <1>3, <1>12 DEF ChannelTypes
<1>21. Conversation(w)'
  BY <1>1, <1>5, <1>17, <1>19, <1>20 DEF Conversation
<1>22. Presence' /\ Conversations' /\ Farewells'
  BY <1>1, <1>2, <1>4, <1>17, <1>20, <1>21, OneWorkerMoves
<1>. QED  BY <1>2, <1>16, <1>18, <1>22 DEF Promises

(* recieve_server_cmd: requests, TERMINATE, and what the worker waits for. *)
LEMMA WorkerReceivesKeepsPromises ==
    ASSUME Promises, NEW w \in Worker, WorkerReceives(w)
    PROVE  Promises'
<1>1. /\ UNCHANGED <<manager_vars, server_vars, w2s, w_server_max, s2m>>
      /\ w_pc[w] \in {"activate", "await"} /\ s2w[w] # <<>>
  BY DEF WorkerReceives
<1>2. /\ ManagerTypes' /\ ServerTypes' /\ RowTypes' /\ ManagerAgreed'
      /\ UNCHANGED <<workers, files, srv_pc, work_units, transfer_sizes,
                     work_unit_requests>>
  BY <1>1, WorkerFrame
<1>3. /\ WorkerTypes /\ ChannelTypes /\ ServerTypes /\ RowTypes
      /\ UpAgreed /\ DownAgreed
  BY DEF Promises
<1>. DEFINE msg == Head(s2w[w])
            S   == FromServer(files)
<1>4. /\ s2w' = [s2w EXCEPT ![w] = Tail(s2w[w])]
      /\ w_buffer' = [w_buffer EXCEPT ![w] = Reserved(w_buffer[w], msg)]
      /\ w_running' = [w_running EXCEPT ![w] =
                           w_running[w] /\ msg.tag # "TERMINATE"]
      /\ held' = [held EXCEPT ![w] =
              IF w_running[w] /\ msg.tag = "SEND_INSTANCES"
              THEN held[w] \cup {msg.jobs[k].task : k \in DOMAIN msg.jobs}
              ELSE held[w]]
      /\ IF msg.tag = WaitedFor(w) THEN Goto(w, LoopOrFlush(w_running'[w]))
         ELSE UNCHANGED w_pc
  BY DEF WorkerReceives
<1>5. s2w[w] \in Seq(S) /\ msg \in S /\ Tail(s2w[w]) \in Seq(S)
  <2>1. s2w[w] \in Seq(S)
    BY <1>3 DEF ChannelTypes
  <2>. QED  BY <1>1, <2>1, FirstOfSeq
<1>6. Measured(files, S)
  BY <1>3, CommandsMeasured DEF ServerTypes
<1>7. Reserved(w_buffer[w], msg) \in Nat
      /\ w_buffer[w] <= Reserved(w_buffer[w], msg)
  <2>1. w_buffer[w] \in Nat
    BY <1>3 DEF WorkerTypes
  <2>2. msg.tag = "REQ_MAX_CMD_LENGTH" => msg.size \in Nat
    BY <1>5, <1>6 DEF Measured
  <2>. QED  BY <2>1, <2>2 DEF Reserved, Bigger
<1>8. ChannelTypes'
  <2>. HIDE DEF S
  <2>1. s2w' \in [Worker -> Seq(S)]
    BY <1>3, <1>4, <1>5 DEF ChannelTypes, S
  <2>. QED  BY <1>1, <1>2, <1>3, <2>1 DEF ChannelTypes, S
<1>9. w_pc' \in [Worker -> {"absent", "activate", "loop", "await", "flush",
                            "bye", "gone", "aborted"}]
      /\ w_pc'[w] = (IF msg.tag = WaitedFor(w)
                     THEN LoopOrFlush(w_running'[w]) ELSE w_pc[w])
      /\ \A v \in Worker \ {w} : w_pc'[v] = w_pc[v]
  BY <1>3, <1>4 DEF WorkerTypes, Goto, LoopOrFlush
<1>10. WorkerTypes'
  <2>1. held' \in [Worker -> SUBSET Tasks(files)]
    <3>1. msg.tag = "SEND_INSTANCES" => msg.jobs \in Seq(GivenJob(files))
      BY <1>5 DEF FromServer, Requests, ActivateWorker, TerminateWorker
    <3>2. msg.tag = "SEND_INSTANCES" =>
              \A k \in DOMAIN msg.jobs : msg.jobs[k] \in GivenJob(files)
      BY <3>1, ElementOfSeq, LenProperties
    <3>3. msg.tag = "SEND_INSTANCES" =>
              {msg.jobs[k].task : k \in DOMAIN msg.jobs} \subseteq Tasks(files)
      BY <3>2 DEF GivenJob
    <3>. HIDE DEF msg
    <3>. QED  BY <1>3, <1>4, <3>3 DEF WorkerTypes
  <2>2. w_running' \in [Worker -> BOOLEAN]
    BY <1>3, <1>4 DEF WorkerTypes
  <2>3. w_buffer' \in [Worker -> Nat]
    BY <1>3, <1>4, <1>7 DEF WorkerTypes
  <2>4. \A v \in Worker : DefaultMax <= w_buffer'[v]
    <3>1. \A v \in Worker : w_buffer[v] \in Nat /\ w_buffer'[v] \in Nat
                            /\ w_buffer[v] <= w_buffer'[v]
      BY <1>3, <1>4, <1>7 DEF WorkerTypes
    <3>2. \A v \in Worker : DefaultMax <= w_buffer[v]
      BY <1>3 DEF WorkerTypes
    <3>. QED  BY <3>1, <3>2, TransferSizeAssumption
  <2>. QED  BY <1>1, <1>2, <1>3, <1>9, <2>1, <2>2, <2>3, <2>4 DEF WorkerTypes
<1>11. UpAgreed'
  BY <1>1, <1>2, <1>3 DEF UpAgreed
<1>12. DownAgreed'
  <2>1. ASSUME NEW i \in DOMAIN work_units
        PROVE  Agreed(files, transfer_sizes[i], w_buffer'[work_units[i]],
                      s2w'[work_units[i]])
    <3>1. Agreed(files, transfer_sizes[i], w_buffer[work_units[i]],
                 s2w[work_units[i]])
      BY <1>3 DEF DownAgreed
    <3>2. work_units[i] \in Worker /\ transfer_sizes[i] \in Lengths
      BY <1>3, ElementOfSeq, LenProperties DEF RowTypes
    <3>3. CASE work_units[i] = w
      <4>1. /\ w_buffer'[w] = Reserved(w_buffer[w], Head(s2w[w]))
            /\ s2w'[w] = Tail(s2w[w]) /\ w_buffer[w] \in Nat
        BY <1>3, <1>4 DEF WorkerTypes, ChannelTypes
      <4>2. transfer_sizes[i] \in Nat
        BY <3>2, Numbers
      <4>. HIDE DEF S
      <4>. QED  BY <1>1, <1>5, <1>6, <3>1, <3>3, <4>1, <4>2, ReceivedFits
    <3>4. CASE work_units[i] # w
      <4>1. /\ w_buffer'[work_units[i]] = w_buffer[work_units[i]]
            /\ s2w'[work_units[i]] = s2w[work_units[i]]
        BY <1>3, <1>4, <3>2, <3>4 DEF WorkerTypes, ChannelTypes
      <4>. QED  BY <3>1, <4>1
    <3>. QED  BY <3>3, <3>4
  <2>. QED  BY <1>2, <2>1 DEF DownAgreed
<1>13. Conversation(w) /\ NoFarewell(w2s[w])
  BY <1>1 DEF Promises, Conversations, Farewells
<1>14. s2w'[w] = Tail(s2w[w])
       /\ \A v \in Worker \ {w} :
              s2w'[v] = s2w[v] /\ w_buffer'[v] = w_buffer[v]
  BY <1>3, <1>4 DEF ChannelTypes, WorkerTypes
<1>15. /\ OnlyTerminate(s2w[w]) => /\ msg.tag = "TERMINATE"
                                   /\ OnlyTerminate(s2w'[w])
       /\ \A tag \in {"ACTIVATE_WORKER", "SEND_INSTANCES"} :
              OneAnswer(s2w[w], tag) =>
                  IF msg.tag = tag THEN OnlyTerminate(s2w'[w])
                  ELSE OneAnswer(s2w'[w], tag)
  <2>. HIDE DEF S
  <2>. QED  BY <1>1, <1>5, <1>14, FirstTaken
<1>16. LoopOrFlush(w_running'[w]) \in {"loop", "flush"}
  BY DEF LoopOrFlush
<1>. HIDE DEF msg
<1>17. Conversation(w)' /\ (files = <<>> => w_pc'[w] = "activate")
  <2>1. CASE w_pc[w] = "activate" /\ files = <<>>
    <3>1. NoQuestion(w2s[w]) /\ OnlyTerminate(s2w[w])
      BY <1>13, <2>1 DEF Conversation
    <3>2. OnlyTerminate(s2w'[w]) /\ w_pc'[w] = "activate"
      BY <1>9, <1>15, <2>1, <3>1 DEF WaitedFor
    <3>. QED  BY <1>1, <1>2, <3>1, <3>2, <2>1 DEF Conversation
  <2>2. CASE w_pc[w] = "activate" /\ files # <<>>
    <3>1. NoQuestion(w2s[w]) /\ OneAnswer(s2w[w], "ACTIVATE_WORKER")
      BY <1>13, <2>2 DEF Conversation
    <3>2. CASE msg.tag = "ACTIVATE_WORKER"
      <4>1. OnlyTerminate(s2w'[w]) /\ w_pc'[w] \in {"loop", "flush"}
        BY <1>9, <1>15, <1>16, <2>2, <3>1, <3>2 DEF WaitedFor
      <4>. QED  BY <1>1, <2>2, <3>1, <4>1 DEF Conversation
    <3>3. CASE msg.tag # "ACTIVATE_WORKER"
      <4>1. OneAnswer(s2w'[w], "ACTIVATE_WORKER") /\ w_pc'[w] = "activate"
        BY <1>9, <1>15, <2>2, <3>1, <3>3 DEF WaitedFor
      <4>. QED  BY <1>1, <1>2, <2>2, <3>1, <4>1 DEF Conversation
    <3>. QED  BY <3>2, <3>3
  <2>3. CASE w_pc[w] = "await"
    <3>1. files # <<>>
      BY <2>3 DEF Promises, Presence
    <3>2. CASE NoQuestion(w2s[w]) /\ OneAnswer(s2w[w], "SEND_INSTANCES")
      <4>1. CASE msg.tag = "SEND_INSTANCES"
        <5>1. OnlyTerminate(s2w'[w]) /\ w_pc'[w] \in {"loop", "flush"}
          BY <1>9, <1>15, <1>16, <2>3, <3>2, <4>1 DEF WaitedFor
        <5>. QED  BY <1>1, <3>1, <3>2, <5>1 DEF Conversation
      <4>2. CASE msg.tag # "SEND_INSTANCES"
        <5>1. OneAnswer(s2w'[w], "SEND_INSTANCES") /\ w_pc'[w] = "await"
          BY <1>9, <1>15, <2>3, <3>2, <4>2 DEF WaitedFor
        <5>. QED  BY <1>1, <1>2, <3>1, <3>2, <5>1 DEF Conversation
      <4>. QED  BY <4>1, <4>2
    <3>3. CASE OnlyTerminate(s2w[w])
      <4>1. OnlyTerminate(s2w'[w]) /\ w_pc'[w] = "await"
        BY <1>9, <1>15, <2>3, <3>3 DEF WaitedFor
      <4>2. OneQuestion(w2s[w]) \/ NoQuestion(w2s[w])
        BY <1>13, <2>3 DEF Conversation
      <4>3. CASE OneQuestion(w2s[w])
        BY <1>1, <3>1, <4>1, <4>3 DEF Conversation
      <4>4. CASE srv_pc = "aborted" /\ NoQuestion(w2s[w])
        BY <1>1, <1>2, <3>1, <4>1, <4>4 DEF Conversation
      <4>5. \/ OneQuestion(w2s[w])
            \/ srv_pc = "aborted" /\ NoQuestion(w2s[w])
            \/ OneAnswer(s2w[w], "SEND_INSTANCES") /\ NoQuestion(w2s[w])
        BY <1>13, <2>3 DEF Conversation
      <4>. QED  BY <3>2, <4>3, <4>4, <4>5
    <3>. QED  BY <1>13, <2>3, <3>2, <3>3 DEF Conversation
  <2>. QED  BY <1>1, <2>1, <2>2, <2>3
<1>18. w_pc'[w] \in {"activate", "await", "loop", "flush"}
  BY <1>1, <1>9, <1>16
<1>19. Presence' /\ Conversations' /\ Farewells'
  BY <1>1, <1>2, <1>9, <1>13, <1>14, <1>17, <1>18, OneWorkerMoves
<1>. QED  BY <1>2, <1>8, <1>10, <1>11, <1>12, <1>19 DEF Promises

-----------------------------------------------------------------------------
(* The server.                                                             *)

(* A row is about a worker and has its numbers.                            *)
LEMMA RowFacts ==
    ASSUME RowTypes, NEW i \in DOMAIN work_units
    PROVE  /\ work_units[i] \in Worker /\ work_units[i] \in Connected
           /\ transfer_sizes[i] \in Lengths
           /\ worker_comm_buffers[i] \in Nat
           /\ work_unit_requests[i] \in Nat
           /\ 4 <= work_unit_requests[i]
           /\ work_unit_requests[i] <= worker_comm_buffers[i]
<1>1. /\ work_units[i] \in Worker
      /\ transfer_sizes[i] \in Lengths
      /\ worker_comm_buffers[i] \in Nat
      /\ work_unit_requests[i] \in Nat
  BY ElementOfSeq, LenProperties DEF RowTypes
<1>2. DefaultMax <= work_unit_requests[i]
      /\ work_unit_requests[i] <= worker_comm_buffers[i]
  BY DEF RowTypes
<1>3. work_units[i] \in Connected
  BY DEF Connected, ToSet
<1>. QED  BY <1>1, <1>2, <1>3, TransferSizeAssumption

(* MPI_Send of a short command to some workers: none of the rows is        *)
(* concerned.                                                              *)
LEMMA BroadcastAgrees ==
    ASSUME Promises, NEW ws, NEW msg \in {ActivateWorker, TerminateWorker},
           s2w' = Broadcast(ws, msg)
    PROVE  /\ s2w' \in [Worker -> Seq(FromServer(files))]
           /\ \A w \in Worker : s2w'[w] = IF w \in ws THEN Append(s2w[w], msg)
                                          ELSE s2w[w]
           /\ \A i \in DOMAIN work_units :
                  Agreed(files, transfer_sizes[i], w_buffer[work_units[i]],
                         s2w'[work_units[i]])
<1>. DEFINE S == FromServer(files)
<1>1. /\ WorkerTypes /\ ChannelTypes /\ ServerTypes /\ RowTypes /\ DownAgreed
  BY DEF Promises
<1>2. Measured(files, S)
  BY <1>1, CommandsMeasured DEF ServerTypes
<1>3. msg \in S /\ LengthIn(files, msg) = 4
  BY DEF FromServer, ActivateWorker, TerminateWorker, LengthIn
<1>4. \A w \in Worker : s2w[w] \in Seq(S) /\ Append(s2w[w], msg) \in Seq(S)
  <2>. HIDE DEF S
  <2>1. \A w \in Worker : s2w[w] \in Seq(S)
    BY <1>1 DEF ChannelTypes, S
  <2>. QED  BY <1>3, <2>1, AppendProperties
<1>. HIDE DEF S
<1>5. s2w' = [w \in Worker |-> IF w \in ws THEN Append(s2w[w], msg) ELSE s2w[w]]
  BY DEF Broadcast
<1>6. s2w' \in [Worker -> Seq(S)]
  BY <1>4, <1>5
<1>7. ASSUME NEW i \in DOMAIN work_units
      PROVE  Agreed(files, transfer_sizes[i], w_buffer[work_units[i]],
                    s2w'[work_units[i]])
  <2>1. Agreed(files, transfer_sizes[i], w_buffer[work_units[i]],
               s2w[work_units[i]])
    BY <1>1 DEF DownAgreed
  <2>2. work_units[i] \in Worker /\ transfer_sizes[i] \in Nat
    BY <1>1, RowFacts, Numbers
  <2>3. w_buffer[work_units[i]] \in Nat /\ 4 <= w_buffer[work_units[i]]
    BY <1>1, <2>2, TransferSizeAssumption DEF WorkerTypes
  <2>4. LengthIn(files, msg) <= w_buffer[work_units[i]]
    BY <1>3, <2>3
  <2>5. Agreed(files, transfer_sizes[i], w_buffer[work_units[i]],
               Append(s2w[work_units[i]], msg))
    BY <1>2, <1>3, <1>4, <2>1, <2>2, <2>3, <2>4, SentFits
  <2>. QED  BY <1>5, <2>1, <2>2, <2>5
<1>. QED  BY <1>5, <1>6, <1>7 DEF S

(* For one worker, the server may stop, tell it to terminate and take from *)
(* it whatever is not a question.                                          *)
LEMMA ConversationGoesOn ==
    ASSUME Promises, NEW w \in Worker, srv_pc = "loop",
           w_pc'[w] = w_pc[w], files' = files,
           s2w'[w] = s2w[w] \/ s2w'[w] = Append(s2w[w], TerminateWorker),
           \/ w2s'[w] = w2s[w]
           \/ /\ w2s[w] # <<>> /\ Head(w2s[w]).tag # "GET_INSTANCES"
              /\ w2s'[w] = Tail(w2s[w])
    PROVE  Conversation(w)'
<1>1. /\ w2s[w] \in Seq(FromWorker(files)) /\ s2w[w] \in Seq(FromServer(files))
      /\ TerminateWorker \in FromServer(files)
      /\ TerminateWorker.tag = "TERMINATE"
  BY DEF Promises, ChannelTypes, FromServer, TerminateWorker
<1>2. /\ OnlyTerminate(s2w[w]) => OnlyTerminate(s2w'[w])
      /\ \A tag : OneAnswer(s2w[w], tag) => OneAnswer(s2w'[w], tag)
  BY <1>1, SingleSent
<1>3. /\ NoQuestion(w2s[w]) => NoQuestion(w2s'[w])
      /\ OneQuestion(w2s[w]) => OneQuestion(w2s'[w])
  BY <1>1, FirstTaken
<1>4. Conversation(w)
  BY DEF Promises, Conversations
<1>. QED  BY <1>2, <1>3, <1>4 DEF Conversation

(* The steps of the server that touch neither the rows nor the files nor   *)
(* what belongs to the workers.                                            *)
LEMMA QuietServerStep ==
    ASSUME Promises, srv_pc = "loop",
           UNCHANGED <<workers, files, work_units, transfer_sizes, w_pc,
                       w_running, held, w_buffer, w_server_max>>,
           s2w' = s2w \/ s2w' = Broadcast(Connected, TerminateWorker),
           \/ w2s' = w2s
           \/ \E i \in DOMAIN work_units :
                  /\ w2s[work_units[i]] # <<>>
                  /\ Head(w2s[work_units[i]]).tag # "GET_INSTANCES"
                  /\ w2s' = [w2s EXCEPT ![work_units[i]] = Tail(@)]
    PROVE  /\ WorkerTypes' /\ ChannelTypes' /\ DownAgreed'
           /\ Presence' /\ Conversations' /\ Farewells'
<1>1. /\ WorkerTypes /\ ChannelTypes /\ RowTypes /\ DownAgreed /\ Presence
      /\ Farewells
  BY DEF Promises
<1>2. /\ s2w' \in [Worker -> Seq(FromServer(files))]
      /\ \A w \in Worker : \/ s2w'[w] = s2w[w]
                           \/ /\ w \in Connected
                              /\ s2w'[w] = Append(s2w[w], TerminateWorker)
      /\ \A i \in DOMAIN work_units :
             Agreed(files, transfer_sizes[i], w_buffer[work_units[i]],
                    s2w'[work_units[i]])
  <2>1. CASE s2w' = s2w
    BY <1>1, <2>1 DEF ChannelTypes, DownAgreed
  <2>2. CASE s2w' = Broadcast(Connected, TerminateWorker)
    BY <2>2, BroadcastAgrees
  <2>. QED  BY <2>1, <2>2
<1>3. /\ w2s' \in [Worker -> Seq(FromWorker(files))]
      /\ \A w \in Worker :
             \/ w2s'[w] = w2s[w]
             \/ /\ w2s[w] # <<>> /\ Head(w2s[w]).tag # "GET_INSTANCES"
                /\ w2s'[w] = Tail(w2s[w])
  <2>1. CASE w2s' = w2s
    BY <1>1, <2>1 DEF ChannelTypes
  <2>2. ASSUME NEW i \in DOMAIN work_units,
               w2s[work_units[i]] # <<>>,
               Head(w2s[work_units[i]]).tag # "GET_INSTANCES",
               w2s' = [w2s EXCEPT ![work_units[i]] = Tail(@)]
        PROVE  /\ w2s' \in [Worker -> Seq(FromWorker(files))]
               /\ \A w \in Worker :
                      \/ w2s'[w] = w2s[w]
                      \/ /\ w2s[w] # <<>> /\ Head(w2s[w]).tag # "GET_INSTANCES"
                         /\ w2s'[w] = Tail(w2s[w])
    <3>. DEFINE S == FromWorker(files)
    <3>1. work_units[i] \in Worker /\ w2s \in [Worker -> Seq(S)]
      BY <1>1, RowFacts DEF ChannelTypes
    <3>. HIDE DEF S
    <3>2. Tail(w2s[work_units[i]]) \in Seq(S)
      BY <2>2, <3>1, FirstOfSeq
    <3>3. w2s' \in [Worker -> Seq(S)]
      BY <2>2, <3>1, <3>2
    <3>. QED  BY <2>2, <3>1, <3>3 DEF S
  <2>. QED  BY <2>1, <2>2
<1>4. WorkerTypes' /\ ChannelTypes'
  BY <1>1, <1>2, <1>3 DEF WorkerTypes, ChannelTypes
<1>5. DownAgreed'
  BY <1>2 DEF DownAgreed
<1>6. Presence'
  <2>1. \A w \in Worker \ workers : s2w'[w] = s2w[w] /\ w2s'[w] = w2s[w]
    BY <1>1, <1>2, <1>3 DEF Presence
  <2>2. Connected' = Connected
    BY DEF Connected
  <2>. QED  BY <1>1, <2>1, <2>2 DEF Presence
<1>7. Conversations'
  <2>1. \A w \in Worker : Conversation(w)'
    BY <1>2, <1>3, ConversationGoesOn
  <2>. QED  BY <2>1 DEF Conversations
<1>8. Farewells'
  <2>1. \A w \in Worker : NoFarewell(w2s[w]) => NoFarewell(w2s'[w])
    <3>1. ASSUME NEW w \in Worker, NoFarewell(w2s[w])
          PROVE  NoFarewell(w2s'[w])
      <4>1. w2s[w] \in Seq(FromWorker(files))
        BY <1>1 DEF ChannelTypes
      <4>2. w2s[w] # <<>> => NoFarewell(Tail(w2s[w]))
        BY <3>1, <4>1, FirstTaken
      <4>. QED  BY <1>3, <3>1, <4>2
    <3>. QED  BY <3>1
  <2>. QED  BY <1>1, <2>1 DEF Farewells
<1>. QED  BY <1>4, <1>5, <1>6, <1>7, <1>8

(* The first command of the manager, and what is agreed after it.          *)
LEMMA ManagerTaken ==
    ASSUME Promises, m2s # <<>>
    PROVE  /\ Head(m2s) \in FromManager /\ Tail(m2s) \in Seq(FromManager)
           /\ Reserved(srv_buffer, Head(m2s)) \in Lengths
           /\ Agreed(files, m_server_max, Reserved(srv_buffer, Head(m2s)),
                     Tail(m2s))
<1>1. /\ ManagerTypes /\ ServerTypes /\ ManagerAgreed
  BY DEF Promises
<1>2. m2s \in Seq(FromManager) /\ Measured(files, FromManager)
  BY <1>1, CommandsMeasured DEF ManagerTypes, ServerTypes
<1>3. m_server_max \in Nat /\ srv_buffer \in Nat
  BY <1>1, Numbers DEF ManagerTypes, ServerTypes
<1>4. Head(m2s) \in FromManager /\ Tail(m2s) \in Seq(FromManager)
  BY <1>2, FirstOfSeq
<1>5. Agreed(files, m_server_max, Reserved(srv_buffer, Head(m2s)), Tail(m2s))
  BY <1>1, <1>2, <1>3, ReceivedFits DEF ManagerAgreed
<1>6. Head(m2s).tag = "REQ_MAX_CMD_LENGTH" => Head(m2s).size \in 0 .. AbsoluteMax
  BY <1>4 DEF FromManager, Requests, AddWorkers, TerminateServer
<1>7. Reserved(srv_buffer, Head(m2s)) \in Lengths
  BY <1>1, <1>6, TransferSizeAssumption
     DEF Reserved, Bigger, ServerTypes, Lengths
<1>. QED  BY <1>4, <1>5, <1>7

(* A request or TERMINATE of the manager: process_manager_cmd.             *)
LEMMA RequestOrTerminateKeepsPromises ==
    ASSUME Promises, ServeManager,
           \/ Head(m2s).tag = "REQ_MAX_CMD_LENGTH"
           \/ Head(m2s).tag = "TERMINATE"
    PROVE  Promises'
<1>1. /\ srv_pc = "loop" /\ m2s # <<>> /\ m2s' = Tail(m2s)
      /\ UNCHANGED <<srv_manager_max, m_solution_found, m_buffer, m_server_max,
                     w2s, w_running, held, w_buffer, w_server_max, s2m>>
      /\ UNCHANGED <<files, task_order, done, rows, m_pc, workers, w_pc>>
      /\ srv_buffer' = Reserved(srv_buffer, Head(m2s))
      /\ s2w' = s2w \/ s2w' = Broadcast(Connected, TerminateWorker)
      /\ srv_pc' = srv_pc \/ srv_pc' = "aborted"
  <2>1. CASE Head(m2s).tag = "REQ_MAX_CMD_LENGTH"
    BY <2>1 DEF ServeManager, task_vars
  <2>2. CASE Head(m2s).tag = "TERMINATE"
    BY <2>2 DEF ServeManager, ServerTerminates, SendTermination, Reserved
  <2>. QED  BY <2>1, <2>2
<1>2. UNCHANGED <<work_units, transfer_sizes, worker_comm_buffers,
                  work_unit_requests>>
  BY <1>1 DEF rows
<1>3. /\ ManagerTypes /\ ServerTypes /\ RowTypes /\ UpAgreed
  BY DEF Promises
<1>4. /\ m2s' \in Seq(FromManager) /\ srv_buffer' \in Lengths
      /\ Agreed(files, m_server_max, srv_buffer', m2s')
  BY <1>1, ManagerTaken
<1>5. ManagerTypes' /\ ServerTypes' /\ RowTypes'
  BY <1>1, <1>2, <1>3, <1>4 DEF ManagerTypes, ServerTypes, RowTypes
<1>6. ManagerAgreed' /\ UpAgreed'
  BY <1>1, <1>2, <1>3, <1>4 DEF ManagerAgreed, UpAgreed
<1>7. /\ WorkerTypes' /\ ChannelTypes' /\ DownAgreed'
      /\ Presence' /\ Conversations' /\ Farewells'
  BY <1>1, <1>2, QuietServerStep
<1>. QED  BY <1>5, <1>6, <1>7 DEF Promises

(* process_m2s_ADD_FILE: the first file activates whoever is connected.    *)
LEMMA AddFileKeepsPromises ==
    ASSUME Promises, ServeManager, Head(m2s).tag = "ADD_FILE"
    PROVE  Promises'
<1>. DEFINE msg == Head(m2s)
<1>1. /\ srv_pc = "loop" /\ m2s # <<>> /\ m2s' = Tail(m2s)
      /\ UNCHANGED <<srv_manager_max, m_solution_found, m_buffer, m_server_max,
                     w2s, w_running, held, w_buffer, w_server_max, s2m>>
      /\ ServerAddsFile(msg)
  BY DEF ServeManager
<1>2. /\ files' = Append(files, msg.name)
      /\ task_order' = Cons(Len(files) + 1, task_order)
      /\ s2w' = IF files = <<>> THEN Broadcast(Connected, ActivateWorker)
                ELSE s2w
      /\ UNCHANGED <<srv_pc, done, srv_buffer, work_units, transfer_sizes,
                     worker_comm_buffers, work_unit_requests, m_pc, workers,
                     w_pc>>
  BY <1>1 DEF ServerAddsFile, rows
<1>3. /\ ManagerTypes /\ ServerTypes /\ WorkerTypes /\ ChannelTypes /\ RowTypes
      /\ UpAgreed /\ DownAgreed /\ Presence /\ Conversations /\ Farewells
  BY DEF Promises
<1>4. msg \in FromManager /\ msg.name \in Names
  <2>1. msg \in FromManager
    BY <1>1, ManagerTaken
  <2>. QED  BY <2>1 DEF FromManager, Requests, AddWorkers, TerminateServer
<1>5. /\ m2s' \in Seq(FromManager)
      /\ Agreed(files, m_server_max, srv_buffer, m2s')
  <2>1. Reserved(srv_buffer, msg) = srv_buffer
    BY DEF Reserved
  <2>. QED  BY <1>1, <2>1, ManagerTaken
<1>. HIDE DEF msg
<1>6. Grows(files, files') /\ files' # <<>>
      /\ Len(files) + 1 \in Tasks(files')
  <2>1. /\ files' \in Seq(Names) /\ Len(files) \in Nat
        /\ DOMAIN files = 1 .. Len(files)
        /\ DOMAIN files' = 1 .. Len(files) + 1
        /\ Len(files') = Len(files) + 1
        /\ \A t \in DOMAIN files : files'[t] = files[t]
    BY <1>2, <1>3, <1>4, LastOfAppend DEF ServerTypes
  <2>2. files' # <<>>
    BY <2>1, EmptySeq
  <2>. QED  BY <1>3, <2>1, <2>2 DEF Grows, Tasks, ServerTypes
<1>7. /\ Tasks(files) \subseteq Tasks(files')
      /\ FromWorker(files) \subseteq FromWorker(files')
      /\ FromServer(files) \subseteq FromServer(files')
  BY <1>6, CommandsKept
<1>8. ManagerTypes' /\ RowTypes'
  BY <1>1, <1>2, <1>3, <1>5 DEF ManagerTypes, RowTypes
<1>9. ServerTypes'
  <2>1. task_order \in Seq(Tasks(files'))
    BY <1>3, <1>7, SeqOfMore DEF ServerTypes
  <2>2. task_order' \in Seq(Tasks(files'))
    BY <1>2, <1>6, <2>1 DEF Cons
  <2>. QED  BY <1>2, <1>3, <1>6, <1>7, <1>1, <2>2 DEF ServerTypes, Grows
<1>10. WorkerTypes'
  BY <1>1, <1>2, <1>3, <1>7 DEF WorkerTypes
<1>11. /\ s2w' \in [Worker -> Seq(FromServer(files))]
       /\ \A w \in Worker : s2w'[w] =
              IF files = <<>> /\ w \in Connected
              THEN Append(s2w[w], ActivateWorker) ELSE s2w[w]
       /\ \A i \in DOMAIN work_units :
              Agreed(files, transfer_sizes[i], w_buffer[work_units[i]],
                     s2w'[work_units[i]])
  <2>1. CASE files = <<>>
    BY <1>2, <2>1, BroadcastAgrees
  <2>2. CASE files # <<>>
    BY <1>2, <1>3, <2>2 DEF ChannelTypes, DownAgreed
  <2>. QED  BY <2>1, <2>2
<1>12. ChannelTypes'
  <2>1. Seq(FromServer(files)) \subseteq Seq(FromServer(files'))
    BY <1>7, SeqOfMore
  <2>2. Seq(FromWorker(files)) \subseteq Seq(FromWorker(files'))
    BY <1>7, SeqOfMore
  <2>. QED  BY <1>1, <1>3, <1>11, <2>1, <2>2 DEF ChannelTypes
<1>13. ManagerAgreed'
  <2>1. Agreed(files', m_server_max, srv_buffer, m2s')
    BY <1>5, <1>6, AgreedKept
  <2>. QED  BY <1>1, <1>2, <2>1 DEF ManagerAgreed
<1>14. UpAgreed'
  <2>1. ASSUME NEW i \in DOMAIN work_units
        PROVE  Agreed(files', w_server_max[work_units[i]],
                      work_unit_requests[i], w2s[work_units[i]])
    <3>1. Agreed(files, w_server_max[work_units[i]],
                 work_unit_requests[i], w2s[work_units[i]])
      BY <1>3 DEF UpAgreed
    <3>2. w2s[work_units[i]] \in Seq(FromWorker(files))
      BY <1>3, RowFacts DEF ChannelTypes
    <3>3. FromWorker(files) \subseteq
              FromManager \cup FromWorker(files) \cup FromServer(files)
      OBVIOUS
    <3>. QED  BY <1>6, <3>1, <3>2, <3>3, AgreedKept
  <2>. QED  BY <1>1, <1>2, <2>1 DEF UpAgreed
<1>15. DownAgreed'
  <2>1. ASSUME NEW i \in DOMAIN work_units
        PROVE  Agreed(files', transfer_sizes[i], w_buffer[work_units[i]],
                      s2w'[work_units[i]])
    <3>1. Agreed(files, transfer_sizes[i], w_buffer[work_units[i]],
                 s2w'[work_units[i]])
      BY <1>11
    <3>2. s2w'[work_units[i]] \in Seq(FromServer(files))
      BY <1>3, <1>11, RowFacts
    <3>3. FromServer(files) \subseteq
              FromManager \cup FromWorker(files) \cup FromServer(files)
      OBVIOUS
    <3>. QED  BY <1>6, <3>1, <3>2, <3>3, AgreedKept
  <2>. QED  BY <1>1, <1>2, <2>1 DEF DownAgreed
<1>16. Presence'
  <2>1. \A w \in Worker \ workers : s2w'[w] = s2w[w]
    BY <1>3, <1>11 DEF Presence
  <2>2. Connected' = Connected
    BY <1>2 DEF Connected
  <2>. QED  BY <1>1, <1>2, <1>3, <1>6, <2>1, <2>2 DEF Presence
<1>17. Conversations'
  <2>1. ASSUME NEW w \in Worker
        PROVE  Conversation(w)'
    <3>1. Conversation(w)
      BY <1>3 DEF Conversations
    <3>2. CASE files # <<>>
      <4>1. s2w'[w] = s2w[w]
        BY <1>11, <3>2
      <4>. QED  BY <1>1, <1>2, <1>6, <3>1, <3>2, <4>1 DEF Conversation
    <3>3. CASE files = <<>> /\ w_pc[w] = "activate"
      <4>1. w \in workers /\ w \in Connected
        BY <1>3, <3>3, WorkerHasRow
      <4>2. NoQuestion(w2s[w]) /\ OnlyTerminate(s2w[w])
        BY <3>1, <3>3 DEF Conversation
      <4>3. s2w'[w] = Append(s2w[w], ActivateWorker)
        BY <1>11, <3>3, <4>1
      <4>4. /\ s2w[w] \in Seq(FromServer(files))
            /\ ActivateWorker \in FromServer(files)
            /\ ActivateWorker.tag = "ACTIVATE_WORKER"
        BY <1>3 DEF ChannelTypes, FromServer, ActivateWorker
      <4>5. OneAnswer(s2w'[w], "ACTIVATE_WORKER")
        BY <4>2, <4>3, <4>4, SingleSent
      <4>. QED  BY <1>1, <1>2, <1>6, <3>3, <4>2, <4>5 DEF Conversation
    <3>4. CASE files = <<>> /\ w_pc[w] = "absent"
      <4>1. w \notin workers
        BY <1>3, <3>4 DEF Presence
      <4>2. s2w'[w] = s2w[w]
        BY <1>3, <1>11, <4>1 DEF Presence
      <4>. QED  BY <1>1, <1>2, <3>1, <3>4, <4>2 DEF Conversation
    <3>5. files = <<>> => w_pc[w] \in {"absent", "activate"}
      BY <1>3 DEF Presence
    <3>. QED  BY <3>2, <3>3, <3>4, <3>5
  <2>. QED  BY <2>1 DEF Conversations
<1>18. Farewells'
  BY <1>1, <1>2, <1>3 DEF Farewells
<1>. QED  BY <1>8, <1>9, <1>10, <1>12, <1>13, <1>14, <1>15, <1>16, <1>17,
             <1>18 DEF Promises

(* Nothing is on its way: both start with the default.                     *)
LEMMA EmptyAgrees ==
    ASSUME NEW names, NEW capacity \in Nat
    PROVE  /\ Agreed(names, capacity, capacity, <<>>)
           /\ NoQuestion(<<>>) /\ OnlyTerminate(<<>>) /\ NoFarewell(<<>>)
<1>1. DOMAIN <<>> = {}
  OBVIOUS
<1>. QED  BY <1>1 DEF Agreed, Announced, Coming, NoQuestion, OnlyTerminate,
                      NoFarewell

(* add_workers of the server: the new row starts where the new worker      *)
(* starts, with the defaults, and the worker is told to go when there are  *)
(* files.                                                                  *)
LEMMA AddWorkerKeepsPromises ==
    ASSUME Promises, ServeManager, Head(m2s).tag = "ADD_WORKERS"
    PROVE  Promises'
<1>1. /\ srv_pc = "loop" /\ m2s # <<>> /\ m2s' = Tail(m2s)
      /\ UNCHANGED <<srv_manager_max, m_solution_found, m_buffer, m_server_max,
                     w2s, w_running, held, w_buffer, w_server_max, s2m>>
      /\ ServerAddsWorker
  BY DEF ServeManager
<1>2. PICK w \in Worker \ workers :
          /\ workers' = workers \cup {w}
          /\ work_units' = Append(work_units, w)
          /\ w_pc' = [w_pc EXCEPT ![w] = "activate"]
          /\ s2w' = IF files # <<>> THEN Broadcast({w}, ActivateWorker)
                    ELSE s2w
  BY <1>1 DEF ServerAddsWorker
<1>3. /\ transfer_sizes' = Append(transfer_sizes, DefaultMax)
      /\ worker_comm_buffers' = Append(worker_comm_buffers, DefaultMax)
      /\ work_unit_requests' = Append(work_unit_requests, DefaultMax)
      /\ m_pc' = "loop"
      /\ UNCHANGED <<srv_pc, files, task_order, done, srv_buffer>>
  BY <1>1 DEF ServerAddsWorker, task_vars
<1>4. /\ ManagerTypes /\ ServerTypes /\ WorkerTypes /\ ChannelTypes /\ RowTypes
      /\ UpAgreed /\ DownAgreed /\ Presence /\ Conversations /\ Farewells
  BY DEF Promises
<1>5. /\ m2s' \in Seq(FromManager)
      /\ Agreed(files, m_server_max, srv_buffer, m2s')
  <2>1. Reserved(srv_buffer, Head(m2s)) = srv_buffer
    BY DEF Reserved
  <2>. QED  BY <1>1, <2>1, ManagerTaken
<1>6. ManagerTypes' /\ ServerTypes' /\ ManagerAgreed'
  BY <1>1, <1>3, <1>4, <1>5 DEF ManagerTypes, ServerTypes, ManagerAgreed
<1>7. WorkerTypes'
  BY <1>1, <1>2, <1>3, <1>4 DEF WorkerTypes
<1>8. /\ DefaultMax \in Nat /\ DefaultMax \in Lengths /\ 4 <= DefaultMax
  BY TransferSizeAssumption DEF Lengths
<1>9. /\ w_pc[w] = "absent" /\ s2w[w] = <<>> /\ w2s[w] = <<>>
      /\ w_buffer[w] = DefaultMax /\ w_server_max[w] = DefaultMax
      /\ \A i \in DOMAIN work_units : work_units[i] # w
  <2>1. \A i \in DOMAIN work_units : work_units[i] \in Connected
    BY <1>4, RowFacts
  <2>. QED  BY <1>4, <2>1 DEF Presence
<1>. DEFINE n == Len(work_units) + 1
<1>10. /\ Len(work_units) \in Nat
       /\ DOMAIN work_units = 1 .. Len(work_units)
       /\ DOMAIN work_units' = 1 .. n
       /\ work_units' \in Seq(Worker) /\ Len(work_units') = n
       /\ work_units'[n] = w
       /\ \A i \in DOMAIN work_units : work_units'[i] = work_units[i]
  BY <1>2, <1>4, LastOfAppend DEF RowTypes
<1>11. /\ transfer_sizes' \in Seq(Lengths) /\ Len(transfer_sizes') = n
       /\ transfer_sizes'[n] = DefaultMax
       /\ \A i \in DOMAIN work_units : transfer_sizes'[i] = transfer_sizes[i]
  BY <1>3, <1>4, <1>8, <1>10, LastOfAppend DEF RowTypes
<1>12. /\ worker_comm_buffers' \in Seq(Nat) /\ Len(worker_comm_buffers') = n
       /\ worker_comm_buffers'[n] = DefaultMax
       /\ \A i \in DOMAIN work_units :
              worker_comm_buffers'[i] = worker_comm_buffers[i]
  BY <1>3, <1>4, <1>8, <1>10, LastOfAppend DEF RowTypes
<1>13. /\ work_unit_requests' \in Seq(Nat) /\ Len(work_unit_requests') = n
       /\ work_unit_requests'[n] = DefaultMax
       /\ \A i \in DOMAIN work_units :
              work_unit_requests'[i] = work_unit_requests[i]
  BY <1>3, <1>4, <1>8, <1>10, LastOfAppend DEF RowTypes
<1>14. \A i \in DOMAIN work_units' : i \in DOMAIN work_units \/ i = n
  BY <1>10
<1>. HIDE DEF n
<1>15. RowTypes'
  <2>1. ASSUME NEW i \in DOMAIN work_units'
        PROVE  /\ DefaultMax <= work_unit_requests'[i]
               /\ work_unit_requests'[i] <= worker_comm_buffers'[i]
    <3>1. CASE i = n
      BY <1>8, <1>12, <1>13, <3>1
    <3>2. CASE i \in DOMAIN work_units
      <4>1. /\ DefaultMax <= work_unit_requests[i]
            /\ work_unit_requests[i] <= worker_comm_buffers[i]
        BY <1>4, <3>2 DEF RowTypes
      <4>. QED  BY <1>12, <1>13, <3>2, <4>1
    <3>. QED  BY <1>14, <3>1, <3>2
  <2>2. \A i, j \in DOMAIN work_units' :
            work_units'[i] = work_units'[j] => i = j
    BY <1>4, <1>9, <1>10, <1>14 DEF RowTypes
  <2>. QED  BY <1>10, <1>11, <1>12, <1>13, <2>1, <2>2 DEF RowTypes
<1>16. /\ s2w' \in [Worker -> Seq(FromServer(files))]
       /\ \A v \in Worker : s2w'[v] =
              IF files # <<>> /\ v = w THEN Append(s2w[v], ActivateWorker)
              ELSE s2w[v]
       /\ \A i \in DOMAIN work_units :
              Agreed(files, transfer_sizes[i], w_buffer[work_units[i]],
                     s2w'[work_units[i]])
  <2>1. CASE files # <<>>
    <3>1. \A v \in Worker : v \in {w} <=> v = w
      OBVIOUS
    <3>. QED  BY <1>2, <2>1, <3>1, BroadcastAgrees
  <2>2. CASE files = <<>>
    BY <1>2, <1>4, <2>2 DEF ChannelTypes, DownAgreed
  <2>. QED  BY <2>1, <2>2
<1>17. ChannelTypes'
  BY <1>1, <1>3, <1>4, <1>16 DEF ChannelTypes
<1>18. UpAgreed'
  <2>1. ASSUME NEW i \in DOMAIN work_units'
        PROVE  Agreed(files, w_server_max[work_units'[i]],
                      work_unit_requests'[i], w2s[work_units'[i]])
    <3>1. CASE i \in DOMAIN work_units
      BY <1>4, <1>10, <1>13, <3>1 DEF UpAgreed
    <3>2. CASE i = n
      <4>1. Agreed(files, DefaultMax, DefaultMax, <<>>)
        BY <1>8, EmptyAgrees
      <4>. QED  BY <1>9, <1>10, <1>13, <3>2, <4>1
    <3>. QED  BY <1>14, <3>1, <3>2
  <2>. QED  BY <1>1, <1>3, <2>1 DEF UpAgreed
<1>19. /\ Measured(files, FromServer(files))
       /\ ActivateWorker \in FromServer(files)
       /\ ActivateWorker.tag = "ACTIVATE_WORKER"
       /\ LengthIn(files, ActivateWorker) = 4
       /\ <<>> \in Seq(FromServer(files))
  <2>1. Measured(files, FromServer(files))
    BY <1>4, CommandsMeasured DEF ServerTypes
  <2>2. <<>> \in Seq(FromServer(files))
    BY EmptySeq
  <2>. QED  BY <2>1, <2>2 DEF FromServer, ActivateWorker, LengthIn
<1>20. DownAgreed'
  <2>1. ASSUME NEW i \in DOMAIN work_units'
        PROVE  Agreed(files, transfer_sizes'[i], w_buffer[work_units'[i]],
                      s2w'[work_units'[i]])
    <3>1. CASE i \in DOMAIN work_units
      BY <1>10, <1>11, <1>16, <3>1
    <3>2. CASE i = n
      <4>1. Agreed(files, DefaultMax, DefaultMax, <<>>)
        BY <1>8, EmptyAgrees
      <4>2. Agreed(files, DefaultMax, DefaultMax, Append(<<>>, ActivateWorker))
        BY <1>8, <1>19, <4>1, SentFits
      <4>3. Agreed(files, DefaultMax, DefaultMax, s2w'[w])
        BY <1>9, <1>16, <4>1, <4>2
      <4>. QED  BY <1>9, <1>10, <1>11, <3>2, <4>3
    <3>. QED  BY <1>14, <3>1, <3>2
  <2>. QED  BY <1>1, <1>3, <2>1 DEF DownAgreed
<1>21. Connected' = Connected \cup {w}
  <2>1. \A v : v \in Connected' <=> \E i \in DOMAIN work_units' : work_units'[i] = v
    BY DEF Connected, ToSet
  <2>2. \A v : v \in Connected <=> \E i \in DOMAIN work_units : work_units[i] = v
    BY DEF Connected, ToSet
  <2>3. n \in DOMAIN work_units' /\ DOMAIN work_units \subseteq DOMAIN work_units'
    BY <1>10 DEF n
  <2>. QED  BY <1>10, <1>14, <2>1, <2>2, <2>3
<1>22. Presence'
  <2>1. /\ w_pc'[w] = "activate" /\ \A v \in Worker \ {w} : w_pc'[v] = w_pc[v]
    BY <1>2, <1>4 DEF WorkerTypes
  <2>2. \A v \in Worker \ {w} : s2w'[v] = s2w[v]
    BY <1>16
  <2>. QED  BY <1>1, <1>2, <1>3, <1>4, <1>21, <2>1, <2>2 DEF Presence
<1>23. Conversations'
  <2>1. ASSUME NEW v \in Worker
        PROVE  Conversation(v)'
    <3>1. CASE v # w
      <4>1. w_pc'[v] = w_pc[v] /\ s2w'[v] = s2w[v]
        BY <1>2, <1>4, <1>16, <3>1 DEF WorkerTypes
      <4>2. Conversation(v)
        BY <1>4 DEF Conversations
      <4>. QED  BY <1>1, <1>3, <4>1, <4>2 DEF Conversation
    <3>2. CASE v = w
      <4>1. w_pc'[w] = "activate"
        BY <1>2, <1>4 DEF WorkerTypes
      <4>2. NoQuestion(w2s'[w])
        BY <1>1, <1>9, EmptyAgrees
      <4>3. CASE files = <<>>
        <5>1. OnlyTerminate(s2w'[w])
          BY <1>9, <1>16, <4>3, EmptyAgrees
        <5>. QED  BY <1>3, <3>2, <4>1, <4>2, <4>3, <5>1 DEF Conversation
      <4>4. CASE files # <<>>
        <5>1. s2w'[w] = Append(<<>>, ActivateWorker)
          BY <1>9, <1>16, <4>4
        <5>2. OneAnswer(s2w'[w], "ACTIVATE_WORKER")
          BY <1>19, <5>1, SingleSent, EmptyAgrees
        <5>. QED  BY <1>3, <3>2, <4>1, <4>2, <4>4, <5>2 DEF Conversation
      <4>. QED  BY <4>3, <4>4
    <3>. QED  BY <3>1, <3>2
  <2>. QED  BY <2>1 DEF Conversations
<1>24. Farewells'
  <2>1. NoFarewell(w2s'[w])
    BY <1>1, <1>9, EmptyAgrees
  <2>2. \A v \in Worker \ {w} : w_pc'[v] = w_pc[v]
    BY <1>2, <1>4 DEF WorkerTypes
  <2>. QED  BY <1>1, <1>2, <1>4, <2>1, <2>2 DEF Farewells
<1>. QED  BY <1>6, <1>7, <1>15, <1>17, <1>18, <1>20, <1>22, <1>23, <1>24
          DEF Promises

(* Whatever the manager has sent: process_manager_cmd.                     *)
LEMMA ServeManagerKeepsPromises ==
    ASSUME Promises, ServeManager
    PROVE  Promises'
<1>1. Head(m2s).tag \in {"REQ_MAX_CMD_LENGTH", "ADD_FILE", "ADD_WORKERS",
                         "TERMINATE"}
  BY DEF ServeManager
<1>. QED  BY <1>1, RequestOrTerminateKeepsPromises, AddFileKeepsPromises,
             AddWorkerKeepsPromises

(* The first command of the worker in row i, when the buffer of the row is *)
(* at least what that command asks for afterwards, and the others keep     *)
(* theirs.                                                                 *)
LEMMA WorkerTaken ==
    ASSUME Promises, NEW i \in DOMAIN work_units, w2s[work_units[i]] # <<>>,
           w2s' = [w2s EXCEPT ![work_units[i]] = Tail(@)],
           UNCHANGED <<files, work_units, w_server_max>>,
           \A j \in DOMAIN work_units :
               j # i => work_unit_requests'[j] = work_unit_requests[j],
           work_unit_requests'[i] \in Nat,
           Reserved(work_unit_requests[i], Head(w2s[work_units[i]]))
               <= work_unit_requests'[i]
    PROVE  UpAgreed'
<1>. DEFINE w == work_units[i]
            S == FromWorker(files)
            room == Reserved(work_unit_requests[i], Head(w2s[w]))
<1>1. /\ ServerTypes /\ WorkerTypes /\ ChannelTypes /\ RowTypes /\ UpAgreed
  BY DEF Promises
<1>2. /\ w \in Worker /\ w2s \in [Worker -> Seq(S)]
      /\ work_unit_requests[i] \in Nat
  BY <1>1, RowFacts DEF ChannelTypes
<1>3. w_server_max[w] \in Nat
  BY <1>1, <1>2, Numbers DEF WorkerTypes
<1>4. Measured(files, S)
  BY <1>1, CommandsMeasured DEF ServerTypes
<1>5. w2s[w] \in Seq(S) /\ w2s[w] # <<>>
  BY <1>2
<1>6. Agreed(files, w_server_max[w], work_unit_requests[i], w2s[w])
  BY <1>1 DEF UpAgreed
<1>7. Tail(w2s[w]) \in Seq(S)
  <2>. HIDE DEF S
  <2>. QED  BY <1>5, FirstOfSeq
<1>8. room \in Nat /\ Agreed(files, w_server_max[w], room, Tail(w2s[w]))
  <2>. HIDE DEF S, w
  <2>. QED  BY <1>2, <1>3, <1>4, <1>5, <1>6, ReceivedFits
<1>9. Agreed(files, w_server_max[w], work_unit_requests'[i], Tail(w2s[w]))
  <2>1. PICK more \in Nat : more = work_unit_requests'[i] /\ room <= more
    OBVIOUS
  <2>. HIDE DEF S, w, room
  <2>2. Agreed(files, w_server_max[w], more, Tail(w2s[w]))
    BY <1>3, <1>4, <1>7, <1>8, <2>1, RoomierAgrees
  <2>. QED  BY <2>1, <2>2
<1>10. ASSUME NEW j \in DOMAIN work_units
       PROVE  Agreed(files, w_server_max[work_units[j]],
                     work_unit_requests'[j], w2s'[work_units[j]])
  <2>1. CASE j = i
    BY <1>2, <1>9, <2>1
  <2>2. CASE j # i
    <3>1. work_units[j] # w /\ work_units[j] \in Worker
      BY <1>1, <2>2, RowFacts DEF RowTypes
    <3>2. w2s'[work_units[j]] = w2s[work_units[j]]
      BY <1>2, <3>1
    <3>. QED  BY <1>1, <2>2, <3>2 DEF UpAgreed
  <2>. QED  BY <2>1, <2>2
<1>. QED  BY <1>10 DEF UpAgreed

(* What the server believes of the manager, and the buffer it serialises   *)
(* into, stay within the limits when the command is not refused.           *)
LEMMA ToldInRange ==
    ASSUME NEW believed \in Lengths, NEW msg, Length(msg) \in Nat,
           ~ TooLong(believed, msg)
    PROVE  /\ Believed(believed, msg) \in Lengths
           /\ Length(msg) <= AbsoluteMax
BY TransferSizeAssumption DEF Believed, Bigger, TooLong, Lengths

(* The commands of a worker that change neither the rows nor what is sent  *)
(* to it, but for the termination of all.                                  *)
LEMMA QuietCommand ==
    ASSUME Promises, NEW i \in DOMAIN work_units, ServeWorker(i),
           Head(w2s[work_units[i]]).tag
               \notin {"REQ_MAX_CMD_LENGTH", "GET_INSTANCES"},
           UNCHANGED <<files, task_order, rows, w_pc>>,
           s2w' = s2w \/ s2w' = Broadcast(Connected, TerminateWorker),
           srv_pc' \in {"loop", "aborted"},
           srv_buffer' \in Lengths, srv_buffer <= srv_buffer',
           srv_manager_max' \in Lengths,
           done' \subseteq Tasks(files)
    PROVE  Promises'
<1>1. /\ srv_pc = "loop" /\ w2s[work_units[i]] # <<>>
      /\ w2s' = [w2s EXCEPT ![work_units[i]] = Tail(@)]
      /\ UNCHANGED <<m_pc, m2s, workers, m_buffer, m_server_max,
                     w_running, held, w_buffer, w_server_max>>
  BY DEF ServeWorker, manager_vars
<1>2. UNCHANGED <<work_units, transfer_sizes, worker_comm_buffers,
                  work_unit_requests>>
  BY DEF rows
<1>3. /\ ManagerTypes /\ ServerTypes /\ RowTypes /\ ManagerAgreed
  BY DEF Promises
<1>4. /\ WorkerTypes' /\ ChannelTypes' /\ DownAgreed'
      /\ Presence' /\ Conversations' /\ Farewells'
  BY <1>1, <1>2, QuietServerStep
<1>5. ManagerTypes' /\ ServerTypes' /\ RowTypes'
  BY <1>1, <1>2, <1>3 DEF ManagerTypes, ServerTypes, RowTypes
<1>6. UpAgreed'
  <2>1. Reserved(work_unit_requests[i], Head(w2s[work_units[i]]))
            = work_unit_requests[i]
    BY DEF Reserved
  <2>2. work_unit_requests[i] \in Nat
    BY <1>3, RowFacts
  <2>3. work_unit_requests[i] <= work_unit_requests[i]
    BY <2>2
  <2>. QED  BY <1>1, <1>2, <2>1, <2>2, <2>3, WorkerTaken
<1>7. ManagerAgreed'
  <2>1. m2s \in Seq(FromManager) /\ Measured(files, FromManager)
    BY <1>3, CommandsMeasured DEF ManagerTypes, ServerTypes
  <2>2. m_server_max \in Nat /\ srv_buffer \in Nat
    BY <1>3, Numbers DEF ManagerTypes, ServerTypes
  <2>3. PICK more \in Nat : more = srv_buffer' /\ srv_buffer <= more
    BY Numbers
  <2>4. Agreed(files, m_server_max, more, m2s)
    BY <1>3, <2>1, <2>2, <2>3, RoomierAgrees DEF ManagerAgreed
  <2>. QED  BY <1>1, <2>3, <2>4 DEF ManagerAgreed
<1>. QED  BY <1>4, <1>5, <1>6, <1>7 DEF Promises

(* A request of a worker: the receive is renewed with the larger buffer.   *)
LEMMA OnRequestKeepsPromises ==
    ASSUME Promises, NEW i \in DOMAIN work_units, ServeWorker(i),
           Head(w2s[work_units[i]]).tag = "REQ_MAX_CMD_LENGTH"
    PROVE  Promises'
<1>. DEFINE w == work_units[i]
            msg == Head(w2s[w])
            room == Reserved(worker_comm_buffers[i], msg)
<1>1. /\ srv_pc = "loop" /\ w2s[w] # <<>>
      /\ w2s' = [w2s EXCEPT ![w] = Tail(@)]
      /\ UNCHANGED <<m_pc, m2s, workers, m_buffer, m_server_max,
                     w_running, held, w_buffer, w_server_max>>
      /\ OnRequest(i, msg)
      /\ UNCHANGED w_pc
  BY DEF ServeWorker, manager_vars
<1>2. /\ worker_comm_buffers' = [worker_comm_buffers EXCEPT ![i] = room]
      /\ work_unit_requests' =
             [work_unit_requests EXCEPT ![i] = worker_comm_buffers'[i]]
      /\ UNCHANGED <<srv_pc, files, task_order, done, srv_buffer,
                     srv_manager_max, work_units, transfer_sizes, s2w>>
  BY <1>1 DEF OnRequest, Renew, task_vars
<1>3. /\ ManagerTypes /\ ServerTypes /\ ChannelTypes /\ RowTypes
      /\ ManagerAgreed
  BY DEF Promises
<1>4. /\ WorkerTypes' /\ ChannelTypes' /\ DownAgreed'
      /\ Presence' /\ Conversations' /\ Farewells'
  BY <1>1, <1>2, QuietServerStep
<1>5. /\ w \in Worker
      /\ worker_comm_buffers[i] \in Nat
      /\ work_unit_requests[i] \in Nat
      /\ work_unit_requests[i] <= worker_comm_buffers[i]
  BY <1>3, RowFacts
<1>6. msg.size \in Nat
  <2>1. w2s[w] \in Seq(FromWorker(files))
    BY <1>3, <1>5 DEF ChannelTypes
  <2>2. msg \in FromWorker(files)
    BY <1>1, <2>1, FirstOfSeq
  <2>3. Measured(files, FromWorker(files))
    BY <1>3, CommandsMeasured DEF ServerTypes
  <2>. QED  BY <2>2, <2>3 DEF Measured
<1>7. /\ room \in Nat /\ worker_comm_buffers[i] <= room
      /\ Reserved(work_unit_requests[i], msg) <= room
  <2>1. msg.tag = "REQ_MAX_CMD_LENGTH"
    OBVIOUS
  <2>. HIDE DEF msg
  <2>. QED  BY <1>5, <1>6, <2>1 DEF Reserved, Bigger
<1>. HIDE DEF room, msg
<1>8. /\ worker_comm_buffers \in Seq(Nat) /\ work_unit_requests \in Seq(Nat)
      /\ DOMAIN worker_comm_buffers = DOMAIN work_units
      /\ DOMAIN work_unit_requests = DOMAIN work_units
      /\ DOMAIN work_units = 1 .. Len(work_units)
  BY <1>3, LenProperties DEF RowTypes
<1>9. worker_comm_buffers'[i] = room
  BY <1>2, <1>8
<1>10. /\ worker_comm_buffers' \in Seq(Nat)
       /\ Len(worker_comm_buffers') = Len(worker_comm_buffers)
       /\ \A j \in DOMAIN work_units :
              worker_comm_buffers'[j] =
                  IF j = i THEN room ELSE worker_comm_buffers[j]
  BY <1>2, <1>7, <1>8, ExceptSeq
<1>11. /\ work_unit_requests' \in Seq(Nat)
       /\ Len(work_unit_requests') = Len(work_unit_requests)
       /\ \A j \in DOMAIN work_units :
              work_unit_requests'[j] =
                  IF j = i THEN room ELSE work_unit_requests[j]
  BY <1>2, <1>7, <1>8, <1>9, ExceptSeq
<1>12. UpAgreed'
  <2>1. room = work_unit_requests'[i]
    BY <1>11
  <2>2. Reserved(work_unit_requests[i], Head(w2s[work_units[i]]))
            <= work_unit_requests'[i]
    BY <1>7, <2>1 DEF msg
  <2>. QED  BY <1>1, <1>2, <1>7, <1>11, <2>1, <2>2, WorkerTaken
<1>13. RowTypes'
  <2>1. \A j \in DOMAIN work_units :
            /\ DefaultMax <= work_unit_requests'[j]
            /\ work_unit_requests'[j] <= worker_comm_buffers'[j]
    <3>1. DefaultMax <= room /\ room <= room
      BY <1>3, <1>5, <1>7, TransferSizeAssumption DEF RowTypes
    <3>. QED  BY <1>3, <1>10, <1>11, <3>1 DEF RowTypes
  <2>. QED  BY <1>2, <1>3, <1>10, <1>11, <2>1 DEF RowTypes
<1>14. ManagerTypes' /\ ServerTypes' /\ ManagerAgreed'
  BY <1>1, <1>2, <1>3 DEF ManagerTypes, ServerTypes, ManagerAgreed
<1>. QED  BY <1>4, <1>12, <1>13, <1>14 DEF Promises

(* FOUND_SOLUTION: the news for the manager fit, or the request is refused *)
(* by the assertion; then everyone is terminated.                          *)
LEMMA OnFoundSolutionKeepsPromises ==
    ASSUME Promises, NEW i \in DOMAIN work_units, ServeWorker(i),
           Head(w2s[work_units[i]]).tag = "FOUND_SOLUTION"
    PROVE  Promises'
<1>. DEFINE w == work_units[i]
            msg == Head(w2s[w])
            news == SolutionNotice(msg.task)
<1>1. /\ srv_pc = "loop" /\ w2s[w] # <<>>
      /\ OnFoundSolution(i, msg) /\ UNCHANGED w_pc
  BY DEF ServeWorker
<1>2. ServerTypes /\ ChannelTypes /\ RowTypes
  BY DEF Promises
<1>3. Length(news) \in Nat
  <2>1. w2s[w] \in Seq(FromWorker(files))
    BY <1>2, RowFacts DEF ChannelTypes
  <2>2. msg \in FromWorker(files)
    BY <1>1, <2>1, FirstOfSeq
  <2>3. msg.task \in Tasks(files)
    BY <2>2 DEF FromWorker, Requests, DisconnectWorker
  <2>. HIDE DEF msg
  <2>4. news \in FromWorker(files)
    BY <2>3 DEF FromWorker, SolutionNotice
  <2>. HIDE DEF news
  <2>. QED  BY <1>2, <2>4, LengthType DEF Length, ServerTypes
<1>. HIDE DEF news
<1>4. /\ srv_pc' \in {"loop", "aborted"}
      /\ srv_buffer' \in Lengths /\ srv_buffer <= srv_buffer'
      /\ srv_manager_max' \in Lengths
  <2>1. CASE TooLong(srv_manager_max, news)
    <3>1. srv_pc' = "aborted" /\ UNCHANGED <<srv_buffer, srv_manager_max>>
      BY <1>1, <2>1 DEF OnFoundSolution, news
    <3>. QED  BY <1>2, <3>1, Numbers DEF ServerTypes
  <2>2. CASE ~ TooLong(srv_manager_max, news)
    <3>1. /\ srv_manager_max' = Believed(srv_manager_max, news)
          /\ srv_buffer' = Bigger(srv_buffer, Length(news))
          /\ srv_pc' = srv_pc
      BY <1>1, <2>2 DEF OnFoundSolution, ServerTells, news
    <3>2. srv_manager_max \in Lengths /\ srv_buffer \in Lengths
      BY <1>2 DEF ServerTypes
    <3>3. /\ Believed(srv_manager_max, news) \in Lengths
          /\ Length(news) <= AbsoluteMax
      BY <1>3, <2>2, <3>2, ToldInRange
    <3>4. Bigger(srv_buffer, Length(news)) \in Lengths
      BY <1>3, <3>2, <3>3, BiggerInRange
    <3>5. srv_buffer <= Bigger(srv_buffer, Length(news))
      BY <1>3, <3>2, Numbers
    <3>. QED  BY <1>1, <3>1, <3>3, <3>4, <3>5
  <2>. QED  BY <2>1, <2>2
<1>5. s2w' = s2w \/ s2w' = Broadcast(Connected, TerminateWorker)
  BY <1>1 DEF OnFoundSolution, SendTermination
<1>6. UNCHANGED <<files, task_order, done, rows, w_pc>>
  BY <1>1 DEF OnFoundSolution
<1>7. done' \subseteq Tasks(files)
  BY <1>2, <1>6 DEF ServerTypes
<1>8. msg.tag \notin {"REQ_MAX_CMD_LENGTH", "GET_INSTANCES"}
  OBVIOUS
<1>. QED  BY <1>4, <1>5, <1>6, <1>7, <1>8, QuietCommand

(* What is told is found by going through the statistics one by one.       *)
LEMMA ToldStepByStep ==
    ASSUME NEW msgs, Len(msgs) \in Nat
    PROVE  \E told :
               /\ Told(msgs) = told[Len(msgs)]
               /\ told[0] = [chan |-> s2m, believed |-> srv_manager_max,
                             failed |-> FALSE]
               /\ \A k \in 1 .. Len(msgs) :
                      told[k] = TellOne(told[k - 1], msgs[k])
<1>. DEFINE start == [chan |-> s2m, believed |-> srv_manager_max,
                      failed |-> FALSE]
            Steps(g, n) == g = [k \in 0 .. n |->
                                   IF k = 0 THEN start
                                   ELSE TellOne(g[k - 1], msgs[k])]
            S == {n \in Nat : \E g : Steps(g, n)}
<1>1. 0 \in S
  <2>1. Steps([k \in 0 .. 0 |-> start], 0)
    <3>1. \A k \in 0 .. 0 : k = 0
      OBVIOUS
    <3>. QED  BY <3>1
  <2>. HIDE DEF Steps
  <2>. QED  BY <2>1
<1>2. ASSUME NEW n \in Nat, n \in S
      PROVE  n + 1 \in S
  <2>1. PICK g : Steps(g, n)
    BY <1>2
  <2>. DEFINE h == [k \in 0 .. n + 1 |->
                       IF k <= n THEN g[k] ELSE TellOne(g[n], msgs[n + 1])]
  <2>2. ASSUME NEW k \in 0 .. n + 1
        PROVE  h[k] = IF k = 0 THEN start ELSE TellOne(h[k - 1], msgs[k])
    <3>1. CASE k = 0
      <4>1. h[0] = g[0]
        OBVIOUS
      <4>2. g[0] = start
        BY <2>1
      <4>. QED  BY <3>1, <4>1, <4>2
    <3>2. CASE k \in 1 .. n
      <4>1. h[k] = g[k] /\ h[k - 1] = g[k - 1]
        BY <3>2
      <4>2. k \in 0 .. n /\ k # 0
        BY <3>2
      <4>. HIDE DEF h
      <4>3. g[k] = TellOne(g[k - 1], msgs[k])
        BY <2>1, <4>2
      <4>. QED  BY <4>1, <4>2, <4>3
    <3>3. CASE k = n + 1
      <4>1. h[k] = TellOne(g[n], msgs[k])
        BY <3>3
      <4>2. h[k - 1] = g[n] /\ k # 0
        BY <3>3
      <4>. HIDE DEF h
      <4>. QED  BY <4>1, <4>2
    <3>. QED  BY <3>1, <3>2, <3>3
  <2>3. Steps(h, n + 1)
    <3>1. h = [k \in 0 .. n + 1 |-> h[k]]
      OBVIOUS
    <3>. HIDE DEF h
    <3>2. [k \in 0 .. n + 1 |-> h[k]]
              = [k \in 0 .. n + 1 |->
                    IF k = 0 THEN start ELSE TellOne(h[k - 1], msgs[k])]
      BY <2>2
    <3>. QED  BY <3>1, <3>2
  <2>. HIDE DEF Steps, h
  <2>. QED  BY <2>3
<1>3. \E g : Steps(g, Len(msgs))
  <2>. HIDE DEF Steps
  <2>1. Nat \subseteq S
    <3>. HIDE DEF S
    <3>. QED  BY <1>1, <1>2, NatSet
  <2>. QED  BY <2>1
<1>. DEFINE told == CHOOSE g : Steps(g, Len(msgs))
<1>4. Told(msgs) = told[Len(msgs)]
  BY DEF Told
<1>5. Steps(told, Len(msgs))
  <2>. HIDE DEF Steps
  <2>. QED  BY <1>3
<1>. HIDE DEF told
<1>6. told[0] = start
  <2>1. 0 \in 0 .. Len(msgs)
    OBVIOUS
  <2>. QED  BY <1>5, <2>1
<1>7. ASSUME NEW k \in 1 .. Len(msgs)
      PROVE  told[k] = TellOne(told[k - 1], msgs[k])
  <2>1. k \in 0 .. Len(msgs) /\ k # 0
    OBVIOUS
  <2>. QED  BY <1>5, <2>1
<1>. QED  BY <1>4, <1>6, <1>7

(* send_statistic_to_manager keeps the belief about the manager within the *)
(* limits, however many statistics there are.                              *)
LEMMA ToldBelieved ==
    ASSUME NEW msgs, Len(msgs) \in Nat,
           \A k \in 1 .. Len(msgs) : Length(msgs[k]) \in Nat,
           srv_manager_max \in Lengths
    PROVE  /\ Told(msgs).believed \in Lengths
           /\ Told(msgs).failed \in BOOLEAN
<1>1. PICK told :
          /\ Told(msgs) = told[Len(msgs)]
          /\ told[0] = [chan |-> s2m, believed |-> srv_manager_max,
                        failed |-> FALSE]
          /\ \A k \in 1 .. Len(msgs) :
                 told[k] = TellOne(told[k - 1], msgs[k])
  BY ToldStepByStep
<1>. DEFINE Fine(t) == \E b \in Lengths, f \in BOOLEAN : \E c :
                           t = [chan |-> c, believed |-> b, failed |-> f]
            S == {k \in Nat : k <= Len(msgs) => Fine(told[k])}
<1>2. 0 \in S
  BY <1>1
<1>3. ASSUME NEW k \in Nat, k \in S
      PROVE  k + 1 \in S
  <2>1. SUFFICES ASSUME k + 1 <= Len(msgs)
                 PROVE  Fine(told[k + 1])
    <3>. HIDE DEF Fine
    <3>. QED  OBVIOUS
  <2>2. Fine(told[k])
    <3>. HIDE DEF Fine
    <3>1. k <= Len(msgs)
      BY <2>1
    <3>. QED  BY <1>3, <3>1
  <2>3. PICK b \in Lengths, f \in BOOLEAN : \E c :
            told[k] = [chan |-> c, believed |-> b, failed |-> f]
    BY <2>2
  <2>. DEFINE msg == msgs[k + 1]
  <2>4. k + 1 \in 1 .. Len(msgs) /\ (k + 1) - 1 = k
    BY <2>1
  <2>5. told[k + 1] = TellOne(told[k], msg) /\ Length(msg) \in Nat
    BY <1>1, <2>4
  <2>. HIDE DEF msg
  <2>6. told[k].failed = f /\ told[k].believed = b
    BY <2>3
  <2>7. PICK c : told[k] = [chan |-> c, believed |-> b, failed |-> f]
    BY <2>3
  <2>8. CASE f \/ TooLong(b, msg)
    <3>1. TellOne(told[k], msg) = [told[k] EXCEPT !.failed = TRUE]
      BY <2>6, <2>8 DEF TellOne
    <3>2. told[k + 1] = [chan |-> c, believed |-> b, failed |-> TRUE]
      <4>1. ASSUME NEW g, NEW t
            PROVE  [[chan |-> c, believed |-> b, failed |-> g] EXCEPT !.failed = t]
                       = [chan |-> c, believed |-> b, failed |-> t]
        OBVIOUS
      <4>2. [[chan |-> c, believed |-> b, failed |-> f] EXCEPT !.failed = TRUE]
                = [chan |-> c, believed |-> b, failed |-> TRUE]
        BY <4>1, Zenon
      <4>. QED  BY <2>5, <2>7, <3>1, <4>2
    <3>. QED  BY <3>2
  <2>9. CASE ~ f /\ ~ TooLong(b, msg)
    <3>1. TellOne(told[k], msg) =
              [chan |-> told[k].chan \o Ensured(b, msg),
               believed |-> Believed(b, msg), failed |-> FALSE]
      BY <2>6, <2>9 DEF TellOne
    <3>2. Believed(b, msg) \in Lengths
      BY <2>5, <2>9, ToldInRange
    <3>. QED  BY <2>5, <3>1, <3>2
  <2>. QED  BY <2>8, <2>9
<1>4. Fine(told[Len(msgs)])
  <2>1. Nat \subseteq S
    <3>. HIDE DEF S
    <3>. QED  BY <1>2, <1>3, NatSet
  <2>. HIDE DEF Fine
  <2>2. Len(msgs) <= Len(msgs)
    OBVIOUS
  <2>. QED  BY <2>1, <2>2
<1>5. PICK b \in Lengths, f \in BOOLEAN : \E c :
          told[Len(msgs)] = [chan |-> c, believed |-> b, failed |-> f]
  BY <1>4
<1>. QED  BY <1>1, <1>5

(* The statistics of the files that were worked on have lengths.           *)
LEMMA StatisticsMeasured ==
    ASSUME ServerTypes, NEW worked, worked \subseteq Tasks(files)
    PROVE  /\ Len(StatisticsOf(worked)) \in Nat
           /\ \A k \in 1 .. Len(StatisticsOf(worked)) :
                  Length(StatisticsOf(worked)[k]) \in Nat
<1>1. files \in Seq(Names) /\ Tasks(files) = 1 .. Len(files) /\ Len(files) \in Nat
  BY LenProperties DEF ServerTypes, Tasks
<1>2. worked \in SUBSET Nat /\ IsFiniteSet(worked)
  <2>1. IsFiniteSet(1 .. Len(files))
    BY <1>1, FS_Interval
  <2>2. IsFiniteSet(worked)
    BY <1>1, <2>1, FS_Subset
  <2>. QED  BY <1>1, <2>2
<1>3. Cardinality(worked) \in Nat
  BY <1>2, FS_CardinalityType
<1>4. Len(StatisticsOf(worked)) = Cardinality(worked)
  BY <1>3 DEF StatisticsOf
<1>5. ASSUME NEW k \in 1 .. Cardinality(worked)
      PROVE  Length(StatisticsOf(worked)[k]) \in Nat
  <2>1. Nth(worked, k) \in worked
    BY <1>2, NthElement DEF Nth, Ranked
  <2>2. Nth(worked, k) \in Tasks(files)
    BY <2>1
  <2>3. StatisticsOf(worked)[k] = Statistic(Nth(worked, k), 1, 0)
    BY DEF StatisticsOf
  <2>4. Text(files[Nth(worked, k)]) \in Nat
    BY <1>1, <2>2, NameLength
  <2>. QED  BY <2>3, <2>4 DEF Length, LengthIn, Statistic
<1>. QED  BY <1>3, <1>4, <1>5

(* DONE_PROCESSING, with the statistics when it is the last.               *)
LEMMA OnDoneProcessingKeepsPromises ==
    ASSUME Promises, NEW i \in DOMAIN work_units, ServeWorker(i),
           Head(w2s[work_units[i]]).tag = "DONE_PROCESSING"
    PROVE  Promises'
<1>. DEFINE w == work_units[i]
            msg == Head(w2s[w])
            msgs == IF statistic_send THEN <<>> ELSE StatisticsOf(done')
<1>1. /\ srv_pc = "loop" /\ w2s[w] # <<>>
      /\ OnDoneProcessing(i, msg) /\ UNCHANGED w_pc
  BY DEF ServeWorker
<1>2. ServerTypes /\ ChannelTypes /\ RowTypes
  BY DEF Promises
<1>3. UNCHANGED <<files, task_order, rows, w_pc>>
  BY <1>1 DEF OnDoneProcessing
<1>4. done' \subseteq Tasks(files)
  <2>1. w2s[w] \in Seq(FromWorker(files))
    BY <1>2, RowFacts DEF ChannelTypes
  <2>2. msg \in FromWorker(files)
    BY <1>1, <2>1, FirstOfSeq
  <2>3. msg.inst \in Tasks(files) \X {1}
    BY <2>2 DEF FromWorker, Requests, DisconnectWorker
  <2>4. msg.inst[1] \in Tasks(files)
    BY <2>3
  <2>. HIDE DEF msg
  <2>. QED  BY <1>1, <1>2, <2>4 DEF OnDoneProcessing, ServerTypes
<1>5. srv_manager_max \in Lengths /\ srv_buffer \in Lengths
  BY <1>2 DEF ServerTypes
<1>6. Told(msgs).believed \in Lengths
  <2>1. CASE statistic_send
    <3>1. Len(msgs) = 0 /\ Len(msgs) \in Nat
      BY <2>1
    <3>. HIDE DEF msgs
    <3>2. \A k \in 1 .. Len(msgs) : Length(msgs[k]) \in Nat
      BY <3>1
    <3>. QED  BY <1>5, <3>1, <3>2, ToldBelieved
  <2>2. CASE ~ statistic_send
    <3>1. msgs = StatisticsOf(done')
      BY <2>2
    <3>2. PICK worked : worked = done'
      OBVIOUS
    <3>3. /\ Len(StatisticsOf(worked)) \in Nat
          /\ \A k \in 1 .. Len(StatisticsOf(worked)) :
                 Length(StatisticsOf(worked)[k]) \in Nat
      BY <1>2, <1>4, <3>2, StatisticsMeasured
    <3>4. Told(StatisticsOf(worked)).believed \in Lengths
      BY <1>5, <3>3, ToldBelieved
    <3>. QED  BY <3>1, <3>2, <3>4
  <2>. QED  BY <2>1, <2>2
<1>7. \/ /\ srv_manager_max' = Told(msgs).believed
         /\ srv_buffer' = Bigger(srv_buffer, Told(msgs).believed)
         /\ srv_pc' = srv_pc \/ srv_pc' = "aborted"
         /\ s2w' = s2w \/ s2w' = Broadcast(Connected, TerminateWorker)
      \/ UNCHANGED <<srv_pc, srv_manager_max, srv_buffer, s2w>>
  BY <1>1 DEF OnDoneProcessing, SendStatistics, SendTermination
<1>. HIDE DEF msgs
<1>8. \A n \in Lengths : /\ Bigger(srv_buffer, n) \in Lengths
                         /\ srv_buffer <= Bigger(srv_buffer, n)
  BY <1>5, TransferSizeAssumption DEF Bigger, Lengths
<1>9. srv_buffer <= srv_buffer
  BY <1>5, Numbers
<1>10. /\ srv_pc' \in {"loop", "aborted"}
       /\ s2w' = s2w \/ s2w' = Broadcast(Connected, TerminateWorker)
       /\ srv_buffer' \in Lengths /\ srv_buffer <= srv_buffer'
       /\ srv_manager_max' \in Lengths
  BY <1>1, <1>5, <1>6, <1>7, <1>8, <1>9
<1>11. msg.tag \notin {"REQ_MAX_CMD_LENGTH", "GET_INSTANCES"}
  OBVIOUS
<1>. QED  BY <1>3, <1>4, <1>10, <1>11, QuietCommand

(* GET_INSTANCES: the instances fit what the worker is believed to have,   *)
(* or a request stands before them; otherwise the assertion has ended the  *)
(* server, and the worker waits for ever.                                  *)
LEMMA OnGetInstancesKeepsPromises ==
    ASSUME Promises, NEW i \in DOMAIN work_units, ServeWorker(i),
           Head(w2s[work_units[i]]).tag = "GET_INSTANCES"
    PROVE  Promises'
<1>. DEFINE w == work_units[i]
            S == FromServer(files)
            num == Head(w2s[w]).num
            given == SubSeq(task_order, 1, NumGiven(num))
            jobs == [k \in DOMAIN given |-> Job(given[k], 1, 1)]
            msg == SendInstances(jobs)
            believed == transfer_sizes[i]
<1>1. /\ srv_pc = "loop" /\ w2s[w] # <<>>
      /\ w2s' = [w2s EXCEPT ![w] = Tail(@)]
      /\ UNCHANGED <<m_pc, m2s, workers, m_buffer, m_server_max,
                     w_running, held, w_buffer, w_server_max>>
      /\ OnGetInstances(i, num)
      /\ UNCHANGED w_pc
  BY DEF ServeWorker, manager_vars
<1>2. /\ ManagerTypes /\ ServerTypes /\ WorkerTypes /\ ChannelTypes /\ RowTypes
      /\ ManagerAgreed /\ DownAgreed /\ Presence /\ Conversations /\ Farewells
  BY DEF Promises
<1>3. /\ task_order' = SubSeq(task_order, NumGiven(num) + 1, Len(task_order))
      /\ worker_comm_buffers' =
             [worker_comm_buffers EXCEPT ![i] = Bigger(@, Length(msg))]
      /\ UNCHANGED <<files, done, srv_buffer, srv_manager_max, work_units>>
  BY <1>1 DEF OnGetInstances
<1>4. /\ w \in Worker /\ believed \in Lengths
      /\ worker_comm_buffers[i] \in Nat
      /\ work_unit_requests[i] \in Nat
      /\ work_unit_requests[i] <= worker_comm_buffers[i]
      /\ w2s[w] \in Seq(FromWorker(files)) /\ s2w[w] \in Seq(S)
  BY <1>2, RowFacts DEF ChannelTypes
<1>5. /\ task_order \in Seq(Tasks(files)) /\ Len(task_order) \in Nat
      /\ NumGiven(num) \in 0 .. Len(task_order)
  <2>1. Head(w2s[w]) \in FromWorker(files)
    BY <1>1, <1>4, FirstOfSeq
  <2>2. num \in Nat
    BY <2>1 DEF FromWorker, Requests, DisconnectWorker
  <2>3. task_order \in Seq(Tasks(files)) /\ Len(task_order) \in Nat
    BY <1>2, LenProperties DEF ServerTypes
  <2>. HIDE DEF num
  <2>. QED  BY <2>2, <2>3 DEF NumGiven
<1>. HIDE DEF num
<1>6. msg \in S /\ msg.tag = "SEND_INSTANCES"
  <2>1. given \in Seq(Tasks(files))
    BY <1>5, SubSeqProperties
  <2>2. \A k \in DOMAIN given : given[k] \in Tasks(files)
    BY <2>1, ElementOfSeq, LenProperties
  <2>3. DOMAIN given = 1 .. Len(given) /\ Len(given) \in Nat
    BY <2>1, LenProperties
  <2>. HIDE DEF given
  <2>4. \A k \in DOMAIN given : Job(given[k], 1, 1) \in GivenJob(files)
    BY <2>2 DEF Job, GivenJob
  <2>5. jobs \in Seq(GivenJob(files))
    BY <2>3, <2>4, IsASeq
  <2>. HIDE DEF jobs
  <2>. QED  BY <2>5 DEF FromServer, SendInstances
<1>7. task_order' \in Seq(Tasks(files))
  BY <1>3, <1>5, SubSeqProperties
<1>8. Measured(files, S)
  BY <1>2, CommandsMeasured DEF ServerTypes
<1>9. Length(msg) \in Nat
  <2>. HIDE DEF msg
  <2>. QED  BY <1>6, <1>8 DEF Measured, Length
<1>10. \/ /\ TooLong(believed, msg)
          /\ srv_pc' = "aborted"
          /\ UNCHANGED <<transfer_sizes, s2w, work_unit_requests>>
       \/ /\ ~ TooLong(believed, msg)
          /\ s2w' = [s2w EXCEPT ![w] = @ \o Ensured(believed, msg)]
          /\ transfer_sizes' = [transfer_sizes EXCEPT ![i] = Believed(@, msg)]
          /\ work_unit_requests' =
                 [work_unit_requests EXCEPT ![i] = worker_comm_buffers'[i]]
          /\ srv_pc' = srv_pc
  BY <1>1 DEF OnGetInstances, Renew
<1>. HIDE DEF msg
<1>. DEFINE room == Bigger(worker_comm_buffers[i], Length(msg))
<1>11. room \in Nat /\ worker_comm_buffers[i] <= room
  BY <1>4, <1>9, Numbers
<1>. HIDE DEF room
<1>12. /\ worker_comm_buffers \in Seq(Nat) /\ work_unit_requests \in Seq(Nat)
       /\ transfer_sizes \in Seq(Lengths)
       /\ DOMAIN worker_comm_buffers = DOMAIN work_units
       /\ DOMAIN work_unit_requests = DOMAIN work_units
       /\ DOMAIN transfer_sizes = DOMAIN work_units
       /\ DOMAIN work_units = 1 .. Len(work_units)
       /\ Len(worker_comm_buffers) = Len(work_units)
       /\ Len(work_unit_requests) = Len(work_units)
       /\ Len(transfer_sizes) = Len(work_units)
  BY <1>2, LenProperties DEF RowTypes
<1>13. /\ worker_comm_buffers' \in Seq(Nat)
       /\ Len(worker_comm_buffers') = Len(worker_comm_buffers)
       /\ \A j \in DOMAIN work_units :
              worker_comm_buffers'[j] =
                  IF j = i THEN room ELSE worker_comm_buffers[j]
  <2>1. worker_comm_buffers' = [worker_comm_buffers EXCEPT ![i] = room]
    BY <1>3 DEF room
  <2>. QED  BY <1>11, <1>12, <2>1, ExceptSeq
<1>14. /\ work_unit_requests' \in Seq(Nat)
       /\ Len(work_unit_requests') = Len(work_unit_requests)
       /\ \A j \in DOMAIN work_units :
              j # i => work_unit_requests'[j] = work_unit_requests[j]
       /\ work_unit_requests'[i] \in Nat
       /\ work_unit_requests[i] <= work_unit_requests'[i]
       /\ work_unit_requests'[i] <= room
  <2>1. CASE UNCHANGED work_unit_requests
    BY <1>4, <1>11, <1>12, <2>1
  <2>2. CASE work_unit_requests' =
                 [work_unit_requests EXCEPT ![i] = worker_comm_buffers'[i]]
    <3>1. worker_comm_buffers'[i] = room
      BY <1>13
    <3>2. /\ work_unit_requests' \in Seq(Nat)
          /\ Len(work_unit_requests') = Len(work_unit_requests)
          /\ \A j \in DOMAIN work_units :
                 work_unit_requests'[j] =
                     IF j = i THEN room ELSE work_unit_requests[j]
      BY <1>11, <1>12, <2>2, <3>1, ExceptSeq
    <3>3. room <= room
      BY <1>11
    <3>. QED  BY <1>4, <1>11, <3>2, <3>3
  <2>. QED  BY <1>10, <2>1, <2>2
<1>15. UpAgreed'
  <2>1. Reserved(work_unit_requests[i], Head(w2s[work_units[i]]))
            = work_unit_requests[i]
    BY DEF Reserved
  <2>. QED  BY <1>1, <1>3, <1>14, <2>1, WorkerTaken
<1>16. /\ s2w' \in [Worker -> Seq(S)]
       /\ \A v \in Worker \ {w} : s2w'[v] = s2w[v]
       /\ transfer_sizes' \in Seq(Lengths)
       /\ Len(transfer_sizes') = Len(transfer_sizes)
       /\ \A j \in DOMAIN work_units :
              j # i => transfer_sizes'[j] = transfer_sizes[j]
       /\ Agreed(files, transfer_sizes'[i], w_buffer[w], s2w'[w])
  <2>1. /\ Agreed(files, believed, w_buffer[w], s2w[w])
        /\ s2w \in [Worker -> Seq(S)]
    BY <1>2 DEF DownAgreed, ChannelTypes
  <2>2. w_buffer[w] \in Nat /\ 4 <= w_buffer[w]
    BY <1>2, <1>4, TransferSizeAssumption DEF WorkerTypes
  <2>3. CASE UNCHANGED <<transfer_sizes, s2w>>
    BY <1>12, <2>1, <2>3
  <2>4. CASE /\ ~ TooLong(believed, msg)
             /\ s2w' = [s2w EXCEPT ![w] = @ \o Ensured(believed, msg)]
             /\ transfer_sizes' =
                    [transfer_sizes EXCEPT ![i] = Believed(@, msg)]
    <3>. HIDE DEF S
    <3>1. /\ s2w[w] \o Ensured(believed, msg) \in Seq(S)
          /\ Believed(believed, msg) \in Lengths
          /\ Agreed(files, Believed(believed, msg), w_buffer[w],
                    s2w[w] \o Ensured(believed, msg))
      BY <1>4, <1>6, <1>8, <2>1, <2>2, <2>4, EnsuredAgrees
    <3>2. /\ transfer_sizes' \in Seq(Lengths)
          /\ Len(transfer_sizes') = Len(transfer_sizes)
          /\ \A j \in DOMAIN work_units :
                 transfer_sizes'[j] = IF j = i THEN Believed(believed, msg)
                                      ELSE transfer_sizes[j]
      <4>1. transfer_sizes' =
                [transfer_sizes EXCEPT ![i] = Believed(believed, msg)]
        BY <2>4
      <4>. HIDE DEF believed
      <4>. QED  BY <1>12, <3>1, <4>1, ExceptSeq
    <3>3. s2w' \in [Worker -> Seq(S)]
      BY <1>4, <2>1, <2>4, <3>1
    <3>. QED  BY <1>4, <2>1, <2>4, <3>1, <3>2, <3>3
  <2>. QED  BY <1>10, <2>3, <2>4
<1>17. DownAgreed'
  <2>1. ASSUME NEW j \in DOMAIN work_units
        PROVE  Agreed(files, transfer_sizes'[j], w_buffer[work_units[j]],
                      s2w'[work_units[j]])
    <3>1. CASE j = i
      BY <1>16, <3>1
    <3>2. CASE j # i
      <4>1. work_units[j] \in Worker \ {w}
        BY <1>2, <3>2, RowFacts DEF RowTypes
      <4>. QED  BY <1>2, <1>16, <3>2, <4>1 DEF DownAgreed
    <3>. QED  BY <3>1, <3>2
  <2>. QED  BY <1>1, <1>3, <2>1 DEF DownAgreed
<1>18. RowTypes'
  <2>1. \A j \in DOMAIN work_units :
            /\ DefaultMax <= work_unit_requests'[j]
            /\ work_unit_requests'[j] <= worker_comm_buffers'[j]
    <3>1. DefaultMax <= work_unit_requests'[i]
      BY <1>2, <1>4, <1>14, TransferSizeAssumption DEF RowTypes
    <3>. QED  BY <1>2, <1>13, <1>14, <3>1 DEF RowTypes
  <2>. QED  BY <1>2, <1>3, <1>12, <1>13, <1>14, <1>16, <2>1 DEF RowTypes
<1>19. /\ ManagerTypes' /\ ServerTypes' /\ WorkerTypes' /\ ManagerAgreed'
  <2>1. srv_pc' \in {"loop", "aborted"}
    BY <1>1, <1>10
  <2>. QED  BY <1>1, <1>2, <1>3, <1>7, <2>1
            DEF ManagerTypes, ServerTypes, WorkerTypes, ManagerAgreed
<1>20. /\ w2s' \in [Worker -> Seq(FromWorker(files))]
       /\ w2s'[w] = Tail(w2s[w])
       /\ \A v \in Worker \ {w} : w2s'[v] = w2s[v]
  <2>. DEFINE T == FromWorker(files)
  <2>1. w2s \in [Worker -> Seq(T)]
    BY <1>2 DEF ChannelTypes
  <2>. HIDE DEF T
  <2>2. Tail(w2s[w]) \in Seq(T)
    BY <1>1, <1>4, <2>1, FirstOfSeq
  <2>3. w2s' \in [Worker -> Seq(T)]
    BY <1>1, <2>1, <2>2
  <2>. QED  BY <1>1, <1>4, <2>1, <2>3 DEF T
<1>21. ChannelTypes'
  BY <1>3, <1>16, <1>20 DEF ChannelTypes
<1>22. Presence'
  <2>1. w \in workers
    BY <1>2, <1>4, RowFacts DEF Presence
  <2>2. Connected' = Connected
    BY <1>3 DEF Connected
  <2>. QED  BY <1>1, <1>2, <1>3, <1>16, <1>20, <2>1, <2>2 DEF Presence
<1>23. Conversations'
  <2>1. ASSUME NEW v \in Worker, v = w
        PROVE  Conversation(v)'
    <3>1. w_pc[v] = "await" /\ OneQuestion(w2s[v]) /\ OnlyTerminate(s2w[v])
      <4>1. ~ NoQuestion(w2s[w])
        BY <1>1, <1>4, FirstTaken
      <4>2. Conversation(w)
        BY <1>2, <1>4 DEF Conversations
      <4>. HIDE DEF w
      <4>. QED  BY <2>1, <4>1, <4>2 DEF Conversation
    <3>2. NoQuestion(w2s'[v]) /\ w_pc'[v] = "await"
      <4>1. NoQuestion(Tail(w2s[w]))
        <5>1. OneQuestion(w2s[w])
          BY <2>1, <3>1
        <5>. QED  BY <1>1, <1>4, <5>1, FirstTaken
      <4>. QED  BY <1>1, <1>20, <2>1, <3>1, <4>1
    <3>3. CASE TooLong(believed, msg)
      <4>1. srv_pc' = "aborted" /\ s2w' = s2w
        BY <1>10, <3>3
      <4>. QED  BY <3>1, <3>2, <4>1 DEF Conversation
    <3>4. CASE ~ TooLong(believed, msg)
      <4>1. s2w'[w] = s2w[w] \o Ensured(believed, msg)
        BY <1>2, <1>4, <1>10, <3>4 DEF ChannelTypes
      <4>2. Extended(s2w[w] \o Ensured(believed, msg), s2w[w], msg)
        BY <1>4, EnsuredParts
      <4>3. OnlyTerminate(s2w[w])
        BY <2>1, <3>1
      <4>4. OneAnswer(s2w[w] \o Ensured(believed, msg), "SEND_INSTANCES")
        BY <1>4, <1>6, <4>2, <4>3, AnswerSent
      <4>5. OneAnswer(s2w'[v], "SEND_INSTANCES")
        BY <2>1, <4>1, <4>4
      <4>. QED  BY <3>2, <4>5 DEF Conversation
    <3>. QED  BY <3>3, <3>4
  <2>2. ASSUME NEW v \in Worker, v # w
        PROVE  Conversation(v)'
    <3>1. s2w'[v] = s2w[v] /\ w2s'[v] = w2s[v] /\ w_pc'[v] = w_pc[v]
      BY <1>1, <1>16, <1>20, <2>2
    <3>. QED  BY <1>1, <1>3, <3>1, ConversationGoesOn
  <2>. QED  BY <2>1, <2>2 DEF Conversations
<1>24. Farewells'
  <2>1. NoFarewell(w2s[w]) => NoFarewell(w2s'[w])
    BY <1>1, <1>4, <1>20, FirstTaken
  <2>. QED  BY <1>1, <1>2, <1>20, <2>1 DEF Farewells
<1>. QED  BY <1>15, <1>17, <1>18, <1>19, <1>21, <1>22, <1>23, <1>24
          DEF Promises

(* vector.erase: what stood behind row i moves up by one.                  *)
LEMMA RowErased ==
    ASSUME NEW S, NEW s \in Seq(S), NEW i \in DOMAIN s
    PROVE  /\ RemoveAt(s, i) \in Seq(S)
           /\ Len(RemoveAt(s, i)) = Len(s) - 1
           /\ \A j \in 1 .. Len(s) - 1 :
                  RemoveAt(s, i)[j] = IF j < i THEN s[j] ELSE s[j + 1]
<1>. DEFINE before == SubSeq(s, 1, i - 1)
            after == SubSeq(s, i + 1, Len(s))
<1>1. /\ Len(s) \in Nat /\ DOMAIN s = 1 .. Len(s)
      /\ \A j \in 1 .. Len(s) : s[j] \in S
  BY LenProperties, ElementOfSeq
<1>2. i \in Nat /\ 1 <= i /\ i <= Len(s)
  BY <1>1
<1>3. /\ before \in Seq(S) /\ Len(before) = i - 1
      /\ \A j \in 1 .. i - 1 : before[j] = s[j]
  <2>1. \A j \in 1 .. i - 1 : s[j] \in S
    BY <1>1, <1>2
  <2>2. /\ before \in Seq(S)
        /\ Len(before) = IF 1 <= i - 1 THEN (i - 1) - 1 + 1 ELSE 0
        /\ \A j \in 1 .. (i - 1) - 1 + 1 : before[j] = s[1 + j - 1]
    BY <1>2, <2>1, SubSeqProperties
  <2>. HIDE DEF before
  <2>3. \A j \in 1 .. i - 1 : j \in 1 .. (i - 1) - 1 + 1 /\ 1 + j - 1 = j
    BY <1>2
  <2>. QED  BY <1>2, <2>2, <2>3
<1>4. /\ after \in Seq(S) /\ Len(after) = Len(s) - i
      /\ \A j \in 1 .. Len(s) - i : after[j] = s[i + j]
  <2>1. \A j \in i + 1 .. Len(s) : s[j] \in S
    BY <1>1, <1>2
  <2>2. /\ after \in Seq(S)
        /\ Len(after) =
               IF i + 1 <= Len(s) THEN Len(s) - (i + 1) + 1 ELSE 0
        /\ \A j \in 1 .. Len(s) - (i + 1) + 1 : after[j] = s[(i + 1) + j - 1]
    BY <1>1, <1>2, <2>1, SubSeqProperties
  <2>. HIDE DEF after
  <2>3. \A j \in 1 .. Len(s) - i : /\ j \in 1 .. Len(s) - (i + 1) + 1
                                   /\ (i + 1) + j - 1 = i + j
    BY <1>1, <1>2
  <2>. QED  BY <1>1, <1>2, <2>2, <2>3
<1>5. RemoveAt(s, i) = before \o after
  BY DEF RemoveAt
<1>. HIDE DEF before, after
<1>6. /\ before \o after \in Seq(S)
      /\ DOMAIN before = 1 .. Len(before) /\ DOMAIN after = 1 .. Len(after)
      /\ Len(before \o after) = Len(before) + Len(after)
      /\ \A j \in DOMAIN before : (before \o after)[j] = before[j]
      /\ \A j \in DOMAIN after : (before \o after)[Len(before) + j] = after[j]
  <2>1. before \in Seq(S) /\ after \in Seq(S)
    BY <1>3, <1>4
  <2>. QED  BY <2>1, PartsOfConcat
<1>7. ASSUME NEW j \in 1 .. Len(s) - 1
      PROVE  (before \o after)[j] = IF j < i THEN s[j] ELSE s[j + 1]
  <2>1. CASE j < i
    <3>1. j \in 1 .. i - 1
      BY <1>1, <1>2, <2>1
    <3>. QED  BY <1>3, <1>6, <2>1, <3>1
  <2>2. CASE i <= j
    <3>1. /\ j - i + 1 \in 1 .. Len(s) - i
          /\ (i - 1) + (j - i + 1) = j /\ i + (j - i + 1) = j + 1
          /\ ~ (j < i)
      BY <1>1, <1>2, <2>2
    <3>2. j - i + 1 \in DOMAIN after
      BY <1>4, <1>6, <3>1
    <3>3. (before \o after)[Len(before) + (j - i + 1)] = after[j - i + 1]
      BY <1>6, <3>2
    <3>4. after[j - i + 1] = s[i + (j - i + 1)]
      BY <1>4, <3>1
    <3>. QED  BY <1>3, <3>1, <3>3, <3>4
  <2>3. j < i \/ i <= j
    BY <1>1, <1>2
  <2>. QED  BY <2>1, <2>2, <2>3
<1>8. Len(before \o after) = Len(s) - 1
  BY <1>1, <1>2, <1>3, <1>4, <1>6
<1>. QED  BY <1>5, <1>6, <1>7, <1>8

(* DISCONNECT: a row goes from all four vectors, and the rows behind it    *)
(* stay about the workers they were about.                                 *)
LEMMA OnDisconnectKeepsPromises ==
    ASSUME Promises, NEW i \in DOMAIN work_units, ServeWorker(i),
           Head(w2s[work_units[i]]).tag = "DISCONNECT"
    PROVE  Promises'
<1>. DEFINE w == work_units[i]
            n == Len(work_units)
            old(j) == IF j < i THEN j ELSE j + 1
<1>1. /\ srv_pc = "loop" /\ w2s[w] # <<>>
      /\ w2s' = [w2s EXCEPT ![w] = Tail(@)]
      /\ UNCHANGED <<m_pc, m2s, workers, m_buffer, m_server_max,
                     w_running, held, w_buffer, w_server_max>>
      /\ OnDisconnect(i)
      /\ w_pc' = [w_pc EXCEPT ![w] = "gone"]
  BY DEF ServeWorker, manager_vars
<1>2. /\ work_units' = RemoveAt(work_units, i)
      /\ transfer_sizes' = RemoveAt(transfer_sizes, i)
      /\ worker_comm_buffers' = RemoveAt(worker_comm_buffers, i)
      /\ work_unit_requests' = RemoveAt(work_unit_requests, i)
      /\ srv_pc' = "gone" \/ srv_pc' = srv_pc
      /\ UNCHANGED <<files, task_order, done, srv_buffer, srv_manager_max, s2w>>
  BY <1>1 DEF OnDisconnect, TransferSizeErased, task_vars
<1>3. /\ ManagerTypes /\ ServerTypes /\ WorkerTypes /\ ChannelTypes /\ RowTypes
      /\ ManagerAgreed /\ UpAgreed /\ DownAgreed
      /\ Presence /\ Conversations /\ Farewells
  BY DEF Promises
<1>4. /\ w \in Worker /\ w \in Connected
      /\ w2s[w] \in Seq(FromWorker(files)) /\ s2w[w] \in Seq(FromServer(files))
  BY <1>3, RowFacts DEF ChannelTypes
<1>5. /\ n \in Nat /\ DOMAIN work_units = 1 .. n
      /\ DOMAIN transfer_sizes = 1 .. n
      /\ DOMAIN worker_comm_buffers = 1 .. n
      /\ DOMAIN work_unit_requests = 1 .. n
  BY <1>3, LenProperties DEF RowTypes
<1>6. w_pc[w] \in {"bye", "gone"}
  <2>1. ~ NoFarewell(w2s[w])
    BY <1>1, <1>4, FirstTaken
  <2>. QED  BY <1>3, <1>4, <2>1 DEF Farewells
<1>7. /\ work_units' \in Seq(Worker) /\ Len(work_units') = n - 1
      /\ \A j \in 1 .. n - 1 : work_units'[j] = work_units[old(j)]
  <2>1. \A j \in 1 .. n - 1 :
            work_units'[j] = IF j < i THEN work_units[j] ELSE work_units[j + 1]
    BY <1>2, <1>3, RowErased DEF RowTypes
  <2>. QED  BY <1>2, <1>3, <2>1, RowErased DEF RowTypes
<1>8. /\ transfer_sizes' \in Seq(Lengths) /\ Len(transfer_sizes') = n - 1
      /\ \A j \in 1 .. n - 1 : transfer_sizes'[j] = transfer_sizes[old(j)]
  <2>1. /\ transfer_sizes' \in Seq(Lengths) /\ Len(transfer_sizes') = n - 1
        /\ \A j \in 1 .. n - 1 :
               transfer_sizes'[j] = IF j < i THEN transfer_sizes[j]
                                    ELSE transfer_sizes[j + 1]
    <3>1. /\ transfer_sizes \in Seq(Lengths) /\ i \in DOMAIN transfer_sizes
          /\ Len(transfer_sizes) = n
      BY <1>3, <1>5 DEF RowTypes
    <3>. HIDE DEF n
    <3>. QED  BY <1>2, <3>1, RowErased
  <2>. QED  BY <2>1
<1>9. /\ worker_comm_buffers' \in Seq(Nat)
      /\ Len(worker_comm_buffers') = n - 1
      /\ \A j \in 1 .. n - 1 :
             worker_comm_buffers'[j] = worker_comm_buffers[old(j)]
  <2>1. /\ worker_comm_buffers' \in Seq(Nat)
        /\ Len(worker_comm_buffers') = n - 1
        /\ \A j \in 1 .. n - 1 :
               worker_comm_buffers'[j] = IF j < i THEN worker_comm_buffers[j]
                                         ELSE worker_comm_buffers[j + 1]
    <3>1. /\ worker_comm_buffers \in Seq(Nat) /\ i \in DOMAIN worker_comm_buffers
          /\ Len(worker_comm_buffers) = n
      BY <1>3, <1>5 DEF RowTypes
    <3>. HIDE DEF n
    <3>. QED  BY <1>2, <3>1, RowErased
  <2>. QED  BY <2>1
<1>10. /\ work_unit_requests' \in Seq(Nat)
       /\ Len(work_unit_requests') = n - 1
       /\ \A j \in 1 .. n - 1 :
              work_unit_requests'[j] = work_unit_requests[old(j)]
  <2>1. /\ work_unit_requests' \in Seq(Nat)
        /\ Len(work_unit_requests') = n - 1
        /\ \A j \in 1 .. n - 1 :
               work_unit_requests'[j] = IF j < i THEN work_unit_requests[j]
                                        ELSE work_unit_requests[j + 1]
    <3>1. /\ work_unit_requests \in Seq(Nat) /\ i \in DOMAIN work_unit_requests
          /\ Len(work_unit_requests) = n
      BY <1>3, <1>5 DEF RowTypes
    <3>. HIDE DEF n
    <3>. QED  BY <1>2, <3>1, RowErased
  <2>. QED  BY <2>1
<1>11. /\ \A j \in 1 .. n - 1 : old(j) \in 1 .. n /\ old(j) # i
       /\ \A j, k \in 1 .. n - 1 : old(j) = old(k) => j = k
       /\ \A k \in 1 .. n : k # i => \E j \in 1 .. n - 1 : old(j) = k
  <2>1. i \in 1 .. n
    BY <1>5
  <2>2. \A j \in 1 .. n - 1 : old(j) \in 1 .. n /\ old(j) # i
    BY <1>5, <2>1
  <2>3. \A j, k \in 1 .. n - 1 : old(j) = old(k) => j = k
    BY <1>5, <2>1
  <2>4. ASSUME NEW k \in 1 .. n, k # i
        PROVE  \E j \in 1 .. n - 1 : old(j) = k
    <3>1. CASE k < i
      <4>1. k \in 1 .. n - 1 /\ old(k) = k
        BY <1>5, <2>1, <3>1
      <4>. QED  BY <4>1
    <3>2. CASE i < k
      <4>1. k - 1 \in 1 .. n - 1 /\ old(k - 1) = k
        BY <1>5, <2>1, <3>2
      <4>. QED  BY <4>1
    <3>. QED  BY <1>5, <2>1, <2>4, <3>1, <3>2
  <2>. QED  BY <2>2, <2>3, <2>4
<1>12. DOMAIN work_units' = 1 .. n - 1
  BY <1>7, LenProperties
<1>. HIDE DEF old, n
<1>13. \A j \in 1 .. n - 1 : /\ work_units'[j] \in Worker
                             /\ work_units'[j] # w
  <2>1. \A j \in 1 .. n : work_units[j] \in Worker /\ (j # i => work_units[j] # w)
    BY <1>3, <1>5, RowFacts DEF RowTypes
  <2>. QED  BY <1>7, <1>11, <2>1
<1>14. RowTypes'
  <2>1. \A j \in 1 .. n - 1 : /\ DefaultMax <= work_unit_requests'[j]
                              /\ work_unit_requests'[j] <= worker_comm_buffers'[j]
    BY <1>3, <1>5, <1>9, <1>10, <1>11 DEF RowTypes
  <2>2. \A j, k \in 1 .. n - 1 : work_units'[j] = work_units'[k] => j = k
    <3>1. \A j, k \in 1 .. n : work_units[j] = work_units[k] => j = k
      BY <1>3, <1>5 DEF RowTypes
    <3>. QED  BY <1>7, <1>11, <3>1
  <2>. QED  BY <1>7, <1>8, <1>9, <1>10, <1>12, <2>1, <2>2 DEF RowTypes
<1>15. /\ w2s' \in [Worker -> Seq(FromWorker(files))]
       /\ w2s'[w] = Tail(w2s[w])
       /\ \A v \in Worker \ {w} : w2s'[v] = w2s[v]
  <2>. DEFINE T == FromWorker(files)
  <2>1. w2s \in [Worker -> Seq(T)]
    BY <1>3 DEF ChannelTypes
  <2>. HIDE DEF T
  <2>2. Tail(w2s[w]) \in Seq(T)
    BY <1>1, <1>4, <2>1, FirstOfSeq
  <2>3. w2s' \in [Worker -> Seq(T)]
    BY <1>1, <2>1, <2>2
  <2>. QED  BY <1>1, <1>4, <2>1, <2>3 DEF T
<1>16. ChannelTypes' /\ ManagerTypes' /\ ManagerAgreed'
  BY <1>1, <1>2, <1>3, <1>15 DEF ChannelTypes, ManagerTypes, ManagerAgreed
<1>17. ServerTypes'
  <2>1. srv_pc' \in {"loop", "gone", "aborted"}
    BY <1>1, <1>2
  <2>. QED  BY <1>2, <1>3, <2>1 DEF ServerTypes
<1>18. /\ w_pc'[w] = "gone" /\ \A v \in Worker \ {w} : w_pc'[v] = w_pc[v]
  BY <1>1, <1>3, <1>4 DEF WorkerTypes
<1>19. WorkerTypes'
  BY <1>1, <1>2, <1>3 DEF WorkerTypes
<1>20. UpAgreed'
  <2>1. ASSUME NEW j \in 1 .. n - 1
        PROVE  Agreed(files, w_server_max[work_units'[j]],
                      work_unit_requests'[j], w2s'[work_units'[j]])
    <3>1. PICK k \in 1 .. n : k = old(j)
      BY <1>11
    <3>2. Agreed(files, w_server_max[work_units[k]],
                 work_unit_requests[k], w2s[work_units[k]])
      BY <1>3, <1>5 DEF UpAgreed
    <3>3. /\ work_units'[j] = work_units[k]
          /\ work_unit_requests'[j] = work_unit_requests[k]
          /\ w2s'[work_units'[j]] = w2s[work_units'[j]]
      BY <1>7, <1>10, <1>13, <1>15, <3>1
    <3>. QED  BY <3>2, <3>3
  <2>. QED  BY <1>1, <1>2, <1>12, <2>1 DEF UpAgreed
<1>21. DownAgreed'
  <2>1. ASSUME NEW j \in 1 .. n - 1
        PROVE  Agreed(files, transfer_sizes'[j], w_buffer[work_units'[j]],
                      s2w[work_units'[j]])
    <3>1. PICK k \in 1 .. n : k = old(j)
      BY <1>11
    <3>2. Agreed(files, transfer_sizes[k], w_buffer[work_units[k]],
                 s2w[work_units[k]])
      BY <1>3, <1>5 DEF DownAgreed
    <3>3. /\ work_units'[j] = work_units[k]
          /\ transfer_sizes'[j] = transfer_sizes[k]
      BY <1>7, <1>8, <3>1
    <3>. QED  BY <3>2, <3>3
  <2>. QED  BY <1>1, <1>2, <1>12, <2>1 DEF DownAgreed
<1>22. Connected' = Connected \ {w}
  <2>1. \A v : v \in Connected' <=> \E j \in 1 .. n - 1 : work_units'[j] = v
    BY <1>12 DEF Connected, ToSet
  <2>2. \A v : v \in Connected <=> \E j \in 1 .. n : work_units[j] = v
    BY <1>5 DEF Connected, ToSet
  <2>. QED  BY <1>7, <1>11, <1>13, <2>1, <2>2
<1>23. Presence'
  <2>1. files # <<>> /\ w \in workers
    BY <1>3, <1>4, <1>6 DEF Presence
  <2>. QED  BY <1>1, <1>2, <1>3, <1>15, <1>18, <1>22, <2>1 DEF Presence
<1>24. Conversations'
  <2>1. ASSUME NEW v \in Worker, v = w
        PROVE  Conversation(v)'
    <3>1. NoQuestion(w2s[w]) /\ OnlyTerminate(s2w[w])
      BY <1>3, <1>4, <1>6 DEF Conversations, Conversation
    <3>2. NoQuestion(w2s'[v])
      <4>1. NoQuestion(Tail(w2s[w]))
        BY <1>1, <1>4, <3>1, FirstTaken
      <4>. QED  BY <1>15, <2>1, <4>1
    <3>3. OnlyTerminate(s2w'[v]) /\ w_pc'[v] = "gone"
      BY <1>2, <1>18, <2>1, <3>1
    <3>. QED  BY <3>2, <3>3 DEF Conversation
  <2>2. ASSUME NEW v \in Worker, v # w
        PROVE  Conversation(v)'
    <3>1. s2w'[v] = s2w[v] /\ w2s'[v] = w2s[v] /\ w_pc'[v] = w_pc[v]
      BY <1>2, <1>15, <1>18, <2>2
    <3>. QED  BY <1>1, <1>2, <3>1, ConversationGoesOn
  <2>. QED  BY <2>1, <2>2 DEF Conversations
<1>25. Farewells'
  BY <1>3, <1>15, <1>18 DEF Farewells
<1>. QED  BY <1>14, <1>16, <1>17, <1>19, <1>20, <1>21, <1>23, <1>24, <1>25
          DEF Promises

(* Whatever a worker has sent: process_worker_cmd.                         *)
LEMMA ServeWorkerKeepsPromises ==
    ASSUME Promises, NEW i \in DOMAIN work_units, ServeWorker(i)
    PROVE  Promises'
<1>1. Head(w2s[work_units[i]]).tag \in
          {"REQ_MAX_CMD_LENGTH", "GET_INSTANCES", "FOUND_SOLUTION",
           "DONE_PROCESSING", "DISCONNECT"}
  BY DEF ServeWorker
<1>. QED  BY <1>1, OnRequestKeepsPromises, OnGetInstancesKeepsPromises,
             OnFoundSolutionKeepsPromises, OnDoneProcessingKeepsPromises,
             OnDisconnectKeepsPromises

-----------------------------------------------------------------------------
(* Everything together.                                                    *)

(* Manager and server start with the defaults, and without workers.        *)
LEMMA InitPromises ==
    ASSUME Init
    PROVE  Promises
<1>1. /\ DefaultMax \in Nat /\ DefaultMax \in Lengths /\ 73 <= DefaultMax
      /\ DefaultMax <= DefaultMax
  BY TransferSizeAssumption DEF Lengths
<1>2. \A S : <<>> \in Seq(S)
  BY EmptySeq
<1>3. Len(<<>>) = 0 /\ DOMAIN <<>> = {}
  OBVIOUS
<1>4. ManagerTypes /\ ServerTypes
  BY <1>1, <1>2 DEF Init, ManagerTypes, ServerTypes
<1>5. WorkerTypes
  BY <1>1 DEF Init, WorkerTypes
<1>6. ChannelTypes
  BY <1>2 DEF Init, ChannelTypes
<1>7. RowTypes
  BY <1>2, <1>3 DEF Init, RowTypes
<1>8. ManagerAgreed /\ UpAgreed /\ DownAgreed
  <2>1. Agreed(files, DefaultMax, DefaultMax, <<>>)
    BY <1>1, EmptyAgrees
  <2>2. ManagerAgreed
    BY <2>1 DEF Init, ManagerAgreed
  <2>3. DOMAIN work_units = {}
    BY <1>3 DEF Init
  <2>. QED  BY <2>2, <2>3 DEF UpAgreed, DownAgreed
<1>9. Connected = {}
  BY <1>3 DEF Init, Connected, ToSet
<1>10. Presence
  BY <1>9 DEF Init, Presence
<1>11. Conversations
  <2>1. \A w \in Worker : /\ w_pc[w] = "absent"
                          /\ w2s[w] = <<>> /\ s2w[w] = <<>>
    BY DEF Init
  <2>2. NoQuestion(<<>>) /\ OnlyTerminate(<<>>)
    BY <1>1, EmptyAgrees
  <2>. QED  BY <2>1, <2>2 DEF Conversations, Conversation
<1>12. Farewells
  <2>1. NoFarewell(<<>>)
    BY <1>1, EmptyAgrees
  <2>. QED  BY <2>1 DEF Init, Farewells
<1>. QED  BY <1>4, <1>5, <1>6, <1>7, <1>8, <1>10, <1>11, <1>12 DEF Promises

(* Every step of every process, whichever comes next.                      *)
LEMMA StepKeepsPromises ==
    ASSUME Promises, [Next]_vars
    PROVE  Promises'
<1>1. CASE Manager
  BY <1>1, ManagerKeepsPromises
<1>2. CASE ServeManager
  BY <1>2, ServeManagerKeepsPromises
<1>3. CASE \E i \in DOMAIN work_units : ServeWorker(i)
  BY <1>3, ServeWorkerKeepsPromises
<1>4. ASSUME NEW w \in Worker,
             \/ WorkerReceives(w) \/ Probe(w) \/ ReturnUnsolved(w)
             \/ ReturnSolved(w) \/ Disconnect(w)
      PROVE  Promises'
  BY <1>4, WorkerReceivesKeepsPromises, ProbeKeepsPromises,
     ReturnUnsolvedKeepsPromises, ReturnSolvedKeepsPromises,
     DisconnectKeepsPromises
<1>5. CASE UNCHANGED vars
  <2>1. UNCHANGED <<m_pc, m2s, workers, m_buffer, m_server_max, srv_pc, files,
                    task_order, done, srv_buffer, srv_manager_max, work_units,
                    transfer_sizes, worker_comm_buffers, work_unit_requests,
                    w2s, w_pc, w_running, held, w_buffer, w_server_max, s2w>>
    BY <1>5 DEF vars, manager_vars, server_vars, task_vars, rows, worker_vars
  <2>2. ManagerTypes' /\ ServerTypes' /\ WorkerTypes' /\ ChannelTypes' /\ RowTypes'
    BY <2>1 DEF Promises, ManagerTypes, ServerTypes, WorkerTypes, ChannelTypes,
                RowTypes
  <2>3. ManagerAgreed' /\ UpAgreed' /\ DownAgreed'
    BY <2>1 DEF Promises, ManagerAgreed, UpAgreed, DownAgreed
  <2>4. Presence' /\ Conversations' /\ Farewells'
    BY <2>1 DEF Promises, Presence, Connected, Conversations, Conversation,
                Farewells
  <2>. QED  BY <2>2, <2>3, <2>4 DEF Promises
<1>. QED  BY <1>1, <1>2, <1>3, <1>4, <1>5 DEF Next

(* Senders and receivers stay agreed about every channel, through all that *)
(* the three kinds of processes do (communication/common.hpp).             *)
THEOREM PromisesKept == Spec => []Promises
<1>1. Init => Promises
  BY InitPromises
<1>2. Promises /\ [Next]_vars => Promises'
  BY StepKeepsPromises
<1>. QED  BY <1>1, <1>2, PTL DEF Spec

(* Buffers and beliefs of manager, server and workers stay between         *)
(* default_max_cmd_length and absolute_max_cmd_length.                     *)
THEOREM TransferTypes == Spec => []TypeOK
<1>1. Promises => TypeOK
  BY DEF Promises, ManagerTypes, ServerTypes, WorkerTypes, RowTypes, TypeOK
<1>. QED  BY <1>1, PromisesKept, PTL

(* The row that is found for a worker is the only one about it.            *)
LEMMA RowOfWorker ==
    ASSUME RowTypes, NEW w \in Connected
    PROVE  Row(w) \in DOMAIN work_units /\ work_units[Row(w)] = w
<1>1. \E i \in DOMAIN work_units : work_units[i] = w
  BY DEF Connected, ToSet
<1>. QED  BY <1>1 DEF Row

(* No process receives a command that is longer than its buffer: the       *)
(* manager's at the server, the workers' in the receives posted for their  *)
(* rows, and the server's at each worker.                                  *)
THEOREM NothingIsTruncated == Spec => []NothingTruncated
<1>1. ASSUME Promises
      PROVE  NothingTruncated
  <2>1. /\ ManagerTypes /\ ServerTypes /\ WorkerTypes /\ ChannelTypes
        /\ RowTypes /\ ManagerAgreed /\ UpAgreed /\ DownAgreed
    BY <1>1 DEF Promises
  <2>2. /\ Measured(files, FromManager)
        /\ Measured(files, FromWorker(files))
        /\ Measured(files, FromServer(files))
    BY <2>1, CommandsMeasured DEF ServerTypes
  <2>3. m2s # <<>> => Length(Head(m2s)) <= srv_buffer
    <3>1. m2s \in Seq(FromManager) /\ m_server_max \in Nat /\ srv_buffer \in Nat
      BY <2>1, Numbers DEF ManagerTypes, ServerTypes
    <3>. QED  BY <2>1, <2>2, <3>1, ReceivedFits DEF ManagerAgreed, Length
  <2>4. ASSUME NEW w \in Connected
        PROVE  /\ w2s[w] # <<>> =>
                      Length(Head(w2s[w])) <= work_unit_requests[Row(w)]
               /\ s2w[w] # <<>> => Length(Head(s2w[w])) <= w_buffer[w]
    <3>1. PICK i \in DOMAIN work_units : i = Row(w) /\ work_units[i] = w
      BY <2>1, RowOfWorker
    <3>2. /\ w \in Worker /\ transfer_sizes[i] \in Nat
          /\ work_unit_requests[i] \in Nat
      BY <2>1, <3>1, RowFacts, Numbers
    <3>3. /\ w2s[w] \in Seq(FromWorker(files))
          /\ s2w[w] \in Seq(FromServer(files))
          /\ w_server_max[w] \in Nat /\ w_buffer[w] \in Nat
      BY <2>1, <3>2, Numbers DEF ChannelTypes, WorkerTypes
    <3>4. /\ Agreed(files, w_server_max[w], work_unit_requests[i], w2s[w])
          /\ Agreed(files, transfer_sizes[i], w_buffer[w], s2w[w])
      BY <2>1, <3>1 DEF UpAgreed, DownAgreed
    <3>5. w2s[w] # <<>> => LengthIn(files, Head(w2s[w])) <= work_unit_requests[i]
      BY <2>2, <3>2, <3>3, <3>4, ReceivedFits
    <3>6. s2w[w] # <<>> => LengthIn(files, Head(s2w[w])) <= w_buffer[w]
      BY <2>2, <3>2, <3>3, <3>4, ReceivedFits
    <3>. QED  BY <3>1, <3>5, <3>6 DEF Length
  <2>. QED  BY <2>3, <2>4 DEF NothingTruncated
<1>. QED  BY <1>1, PromisesKept, PTL

(* ensure_cmd_length may believe what it believes: the receiver has that   *)
(* room, or the request for it is before it, also after rows were erased.  *)
THEOREM BeliefsAreTrue == Spec => []BeliefsComeTrue
<1>1. ASSUME Promises
      PROVE  BeliefsComeTrue
  <2>1. /\ RowTypes /\ ManagerAgreed /\ UpAgreed /\ DownAgreed
    BY <1>1 DEF Promises
  <2>2. Coming(m_server_max, srv_buffer, m2s)
    BY <2>1 DEF ManagerAgreed, Agreed
  <2>3. ASSUME NEW w \in Connected
        PROVE  /\ Coming(w_server_max[w], work_unit_requests[Row(w)], w2s[w])
               /\ Coming(transfer_sizes[Row(w)], w_buffer[w], s2w[w])
    <3>1. PICK i \in DOMAIN work_units : i = Row(w) /\ work_units[i] = w
      BY <2>1, RowOfWorker
    <3>2. /\ Agreed(files, w_server_max[w], work_unit_requests[i], w2s[w])
          /\ Agreed(files, transfer_sizes[i], w_buffer[w], s2w[w])
      BY <2>1, <3>1 DEF UpAgreed, DownAgreed
    <3>. QED  BY <3>1, <3>2 DEF Agreed
  <2>. QED  BY <2>2, <2>3 DEF BeliefsComeTrue
<1>. QED  BY <1>1, PromisesKept, PTL

(* The worker's main loop never processes a command it has only probed,    *)
(* but TERMINATE, which has no more to read (worker.cpp:117).              *)
THEOREM ProbeFindsTerminate == Spec => []OnlyTerminateProbed
<1>1. ASSUME Promises
      PROVE  OnlyTerminateProbed
  <2>1. ASSUME NEW w \in Worker, w_pc[w] = "loop", s2w[w] # <<>>
        PROVE  Head(s2w[w]).tag = "TERMINATE"
    <3>1. OnlyTerminate(s2w[w])
      BY <1>1, <2>1 DEF Promises, Conversations, Conversation
    <3>2. s2w[w] \in Seq(FromServer(files))
      BY <1>1 DEF Promises, ChannelTypes
    <3>. QED  BY <2>1, <3>1, <3>2, FirstTaken
  <2>. QED  BY <2>1 DEF OnlyTerminateProbed
<1>. QED  BY <1>1, PromisesKept, PTL
=============================================================================
