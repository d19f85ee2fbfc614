------------------------------ MODULE Ingress ------------------------------
(***************************************************************************)
(* Start-up of the work orchestrator and the ingress queues of one node.   *)
(* The queue manager has put its queues into shared memory, with as many   *)
(* lanes of either latency as there are workers; clients may use them from *)
(* then on.  ServerInit creates the workers, marks those alone on a core   *)
(* as dedicated, deals the lanes out to the workers and starts their       *)
(* threads, which poll the lanes they were dealt.                          *)
(*                                                                          *)
(* The build is one without GPUs: AssignAllQueues deals the lanes of the   *)
(* queue manager's own map only.  QueueManager::ServerInit fills its two   *)
(* entries and sets QUEUE_READY before the work orchestrator starts, so    *)
(* that AssignQueueMap skips neither.                                      *)
(*                                                                          *)
(* A lane is the library's multiple-producer queue: a FIFO in which an     *)
(* emplace waits for room (external).  What a worker does with a task      *)
(* after active_.push is module TaskSched.                                 *)
(***************************************************************************)
EXTENDS Integers, Sequences, FiniteSetsExt, Functions

CONSTANTS
    CpuLists,   \* values of the configuration's work_orchestrator.cpus
    Clients,
    Sends,      \* bound: tasks one client sends
    Hashes,     \* hash values of the clients' domain queries
    Depth       \* qm.proc_queue_depth_

ASSUME IngressAssumption ==
    /\ \A l \in CpuLists : l \in Seq(Nat) /\ l # <<>>
    /\ Sends \in Nat
    /\ Hashes \subseteq Nat
    /\ Depth \in Nat \ {0}

VARIABLES
    cpus,               \* config_->wo_.cpus_: worker w runs on cpus[w + 1]
    status,             \* "mark", "assign", "up", or "crashed" by a division
    marked,             \* cores MarkWorkers has been through
    dworkers_,
    oworkers_,
    unassigned,         \* lanes AssignQueueMap has still to deal, in its order
    count,              \* its static count_lowlat and count_highlat
    work_proc_queue_,   \* per worker: the lanes it polls
    pos,                \* per worker: index of the lane it is polling
    lanes,              \* per lane: the tasks in it
    sent,               \* per client: the hashes of the tasks it has sent
    active              \* per worker: the tasks it has pushed into active_

startup == <<status, marked, dworkers_, oworkers_, unassigned, count, work_proc_queue_>>
vars == <<cpus, startup, pos, lanes, sent, active>>

Prios == {"low", "high"}

Workers == 0 .. Len(cpus) - 1

NumLanes(list) == Len(list)

Lane(queue, prio, id) == [queue |-> queue, prio |-> prio, id |-> id]

(* The lanes of a queue in the order of AssignQueueMap's loops *)
GroupLanes(queue, prio, list) == [i \in 1 .. NumLanes(list) |-> Lane(queue, prio, i - 1)]

QueueLanes(queue, list) == GroupLanes(queue, "low", list) \o GroupLanes(queue, "high", list)

AllLanes(list) == QueueLanes("admin", list) \o QueueLanes("process", list)

Init ==
    /\ cpus \in CpuLists
    /\ status = "mark"
    /\ marked = {}
    /\ dworkers_ = <<>>
    /\ oworkers_ = <<>>
    /\ unassigned = AllLanes(cpus)
    /\ count = [p \in Prios |-> 0]
    /\ work_proc_queue_ = [w \in Workers |-> <<>>]
    /\ pos = [w \in Workers |-> 1]
    /\ lanes = [l \in Range(AllLanes(cpus)) |-> <<>>]
    /\ sent = [c \in Clients |-> <<>>]
    /\ active = [w \in Workers |-> <<>>]

(* cpu_workers[core], in the order PrepareWorkers creates the workers *)
WorkersOn(core) == SelectSeq([i \in 1 .. Len(cpus) |-> i - 1], LAMBDA w : cpus[w + 1] = core)

(* MarkWorkers, one core: cpu_workers is an unordered_map, so the cores    *)
(* come in any order.                                                      *)
MarkWorkers(core) ==
    /\ status = "mark"
    /\ core \in Range(cpus) \ marked
    /\ marked' = marked \cup {core}
    /\ IF Len(WorkersOn(core)) = 1
       THEN dworkers_' = dworkers_ \o WorkersOn(core) /\ UNCHANGED oworkers_
       ELSE oworkers_' = oworkers_ \o WorkersOn(core) /\ UNCHANGED dworkers_
    /\ status' = IF marked' = Range(cpus) THEN "assign" ELSE "mark"
    /\ UNCHANGED <<cpus, unassigned, count, work_proc_queue_, pos, lanes, sent, active>>

\* faulty variant: high latency lanes go to any worker
CandidatesAny(lane) ==
    IF lane.prio = "low" THEN dworkers_ ELSE [i \in 1 .. Len(cpus) |-> i - 1]

Candidates(lane) == IF lane.prio = "low" THEN dworkers_ ELSE oworkers_

(* AssignQueueMap, one lane; the remainder by zero ends the process *)
AssignQueueMap ==
    /\ status = "assign"
    /\ unassigned # <<>>
    /\ LET lane == Head(unassigned)
           workers == Candidates(lane)
       IN  \/ /\ workers = <<>>
              /\ status' = "crashed"
              /\ UNCHANGED <<unassigned, count, work_proc_queue_>>
           \/ /\ workers # <<>>
              /\ unassigned' = Tail(unassigned)
              /\ count' = [count EXCEPT ![lane.prio] = @ + 1]
              /\ LET w == workers[(count[lane.prio] % Len(workers)) + 1]
                 IN  work_proc_queue_' = [work_proc_queue_ EXCEPT ![w] = Append(@, lane)]
              /\ UNCHANGED status
    /\ UNCHANGED <<cpus, marked, dworkers_, oworkers_, pos, lanes, sent, active>>

SpawnWorkers ==
    /\ status = "assign"
    /\ unassigned = <<>>
    /\ status' = "up"
    /\ UNCHANGED <<cpus, marked, dworkers_, oworkers_, unassigned, count, work_proc_queue_>>
    /\ UNCHANGED <<pos, lanes, sent, active>>

\* faulty variant: the lane is chosen by the hash and the number of the task
EmplaceLaneSpread(client, hash) ==
    Lane("process", "low", (hash + Len(sent[client])) % NumLanes(cpus))

(* The lane MultiQueue::Emplace takes for a client's task *)
EmplaceLane(client, hash) == Lane("process", "low", hash % NumLanes(cpus))

(* Client::ScheduleTask: always the process queue, always low latency *)
ScheduleTask(client) ==
    /\ Len(sent[client]) < Sends
    /\ \E hash \in Hashes :
          LET lane == EmplaceLane(client, hash)
          IN  /\ Len(lanes[lane]) < Depth
              /\ lanes' = [lanes EXCEPT ![lane] = Append(@, <<client, Len(sent[client]) + 1>>)]
              /\ sent' = [sent EXCEPT ![client] = Append(@, hash)]
    /\ UNCHANGED <<cpus, startup, pos, active>>

(* IngestLane takes one task *)
IngestTask(w) ==
    /\ status = "up"
    /\ work_proc_queue_[w] # <<>>
    /\ LET lane == work_proc_queue_[w][pos[w]]
       IN  /\ lanes[lane] # <<>>
           /\ active' = [active EXCEPT ![w] = Append(@, Head(lanes[lane]))]
           /\ lanes' = [lanes EXCEPT ![lane] = Tail(@)]
    /\ UNCHANGED <<cpus, startup, pos, sent>>

\* faulty variant: the last lane of the list is left out
NextPosShort(w) == (pos[w] % (Len(work_proc_queue_[w]) - 1)) + 1

NextPos(w) == (pos[w] % Len(work_proc_queue_[w])) + 1

(* The lane is empty and IngestProcLanes goes on; after the last lane the  *)
(* rest of Run's pass follows and the next pass starts over.               *)
IngestProcLanes(w) ==
    /\ status = "up"
    /\ work_proc_queue_[w] # <<>>
    /\ lanes[work_proc_queue_[w][pos[w]]] = <<>>
    /\ pos' = [pos EXCEPT ![w] = NextPos(w)]
    /\ UNCHANGED <<cpus, startup, lanes, sent, active>>

StartUp == (\E core \in Range(cpus) : MarkWorkers(core)) \/ AssignQueueMap \/ SpawnWorkers

Work(w) == IngestTask(w) \/ IngestProcLanes(w)

Next ==
    \/ StartUp
    \/ \E c \in Clients : ScheduleTask(c)
    \/ \E w \in Workers : Work(w)

(* The main thread runs through ServerInit, a worker's thread keeps        *)
(* running its loop, and a client that sends goes on to send.              *)
Fairness ==
    /\ WF_vars(StartUp)
    /\ \A c \in Clients : WF_vars(ScheduleTask(c))
    /\ \A w \in 0 .. Max({Len(l) : l \in CpuLists}) - 1 : WF_vars(w \in Workers /\ Work(w))

Spec == Init /\ [][Next]_vars /\ Fairness

----------------------------------------------------------------------------

(* A configuration with a core that has one worker and a core that has     *)
(* several; without either, AssignQueueMap divides by zero.                *)
BothKinds == {Cardinality({i \in DOMAIN cpus : cpus[i] = core}) = 1 : core \in Range(cpus)} = BOOLEAN

(* Two tasks of one client with the same query hash are taken by the same  *)
(* worker, in the order the client sent them: AssignQueueMap gives a lane  *)
(* to one worker and Emplace takes the lane from the hash alone.           *)
SentInOrder ==
    \A c \in Clients : \A i, j \in DOMAIN sent[c] :
        (i < j /\ sent[c][i] = sent[c][j]) =>
            \A w \in Workers : \A k \in DOMAIN active[w] :
                active[w][k] = <<c, j>> => \E h \in 1 .. k - 1 : active[w][h] = <<c, i>>

(* The runtime comes up and every task of every client, those sent before  *)
(* the lanes were dealt out and those that had to wait for room included,  *)
(* reaches a worker (ServerInit, Emplace, IngestProcLanes), if the         *)
(* configuration has dedicated and shared cores.                           *)
AllIngested ==
    BothKinds => <>(\A c \in Clients : \A i \in 1 .. Sends :
                        \E w \in Workers : <<c, i>> \in Range(active[w]))

(* Once the workers run, every lane of both queues is polled by            *)
(* exactly one of them, once per pass, low latency lanes by workers alone  *)
(* on their core and the others by workers that share one.                 *)
LanesDealtOnce ==
    status = "up" =>
        LET all == AllLanes(cpus)
        IN  /\ MapThenSumSet(LAMBDA w : Len(work_proc_queue_[w]), Workers) = Len(all)
            /\ UNION {Range(work_proc_queue_[w]) : w \in Workers} = Range(all)
            /\ \A w \in Workers : \A l \in Range(work_proc_queue_[w]) :
                   (l.prio = "low") <=> (\A u \in Workers \ {w} : cpus[u + 1] # cpus[w + 1])
=============================================================================
