----------------------------- MODULE TaskSched -----------------------------
(***************************************************************************)
(* The scheduling core of one node: worker threads (worker.cc), the lanes  *)
(* of containers (module_queue.cc), and the blocking protocol between a    *)
(* task and the subtasks it waits for (task.h, work_orchestrator.cc).      *)
(*                                                                          *)
(* A lane is used by its own worker only; every other thread that has a    *)
(* task for it leaves the task in that worker's fail queue.  What threads  *)
(* share is the ingress queues, the fail queues, block_count_ and the      *)
(* completion flag, and the steps below are cut at the accesses to these:  *)
(* the fetch_add of SetBlocked and the yield that follows it, the          *)
(* fetch_sub of SignalUnblock, the push that may follow it, and            *)
(* SetComplete are separate steps.                                          *)
(***************************************************************************)
EXTENDS Integers, Sequences, FiniteSets

CONSTANTS
    Workers,        \* worker threads
    Lanes,          \* lanes of the created containers
    WorkerOf,       \* Lane::worker_id_
    PrioOf,         \* Lane::prio_, "low" or "high" latency
    Tasks,
    ParentOf,       \* the task that spawns a task, Null for a client's task
    FireAndForget,  \* tasks with TASK_FIRE_AND_FORGET
    LongRunning,    \* tasks with TASK_LONG_RUNNING
    Null,
    WaitAll,        \* whether a Wait names all subtasks spawned so far
    Inner,          \* bound: low latency passes per Run (8192 in the code)
    MaxYields       \* bound: plain Yield calls of one task

ASSUME SchedAssumption ==
    /\ WorkerOf \in [Lanes -> Workers]
    /\ PrioOf \in [Lanes -> {"low", "high"}]
    /\ ParentOf \in [Tasks -> Tasks \cup {Null}]
    /\ Null \notin Tasks \cup Lanes \cup Workers
    /\ IsFiniteSet(Tasks)
    /\ FireAndForget \subseteq Tasks
    /\ LongRunning \subseteq Tasks
    /\ WaitAll \in BOOLEAN
    /\ Inner \in Nat \ {0}
    /\ MaxYields \in Nat

VARIABLES
    ingress,        \* per worker: the ingress lanes it polls
    fail,           \* per worker: active_.GetFail()
    active_lanes_,  \* per worker and priority: lanes that asked to be polled
    active_tasks_,  \* per lane: its queued tasks
    count_,         \* per lane: Lane::count_
    pc,             \* per worker: where it is in Run
    prio,           \* per worker: which lanes it polls
    iter,           \* per worker: low latency passes done in this Run
    num,            \* per worker: elements left of the polled queue's snapshot
    cur_lane_,      \* per worker: lane being polled
    left,           \* per worker: max_lane_size
    done_tasks,     \* per worker: tasks of the lane that do not go back to it
    cur_task_,      \* per worker: task being run
    created,        \* is_created_ of the container the tasks run on
    route_lane_,    \* per task: lane it was routed to, Null until IsRouted
    block_count_,   \* per task: rctx_.block_count_
    co,             \* per task: "new", "ready", "wait" or "ended"
    pending,        \* per task: subtasks named by the Wait it is in
    waited,         \* per task: subtasks whose Wait has returned
    yields,         \* per task: plain Yield calls made
    signalled,      \* tasks that have signalled their parent
    complete        \* tasks with TASK_COMPLETE, or deleted

lanes == <<active_lanes_, active_tasks_, count_>>
poll == <<prio, iter, num, cur_lane_, left, done_tasks>>
coroutines == <<block_count_, co, pending, waited, yields, signalled, complete>>
vars == <<ingress, fail, lanes, pc, poll, cur_task_, created, route_lane_, coroutines>>

Init ==
    /\ ingress = [w \in Workers |-> <<>>]
    /\ fail = [w \in Workers |-> <<>>]
    /\ active_lanes_ = [w \in Workers |-> [p \in {"low", "high"} |-> <<>>]]
    /\ active_tasks_ = [l \in Lanes |-> <<>>]
    /\ count_ = [l \in Lanes |-> 0]
    /\ pc = [w \in Workers |-> "ingest"]
    /\ prio = [w \in Workers |-> "low"]
    /\ iter = [w \in Workers |-> 0]
    /\ num = [w \in Workers |-> 0]
    /\ cur_lane_ = [w \in Workers |-> Null]
    /\ left = [w \in Workers |-> 0]
    /\ done_tasks = [w \in Workers |-> 0]
    /\ cur_task_ = [w \in Workers |-> Null]
    /\ created = FALSE
    /\ route_lane_ = [t \in Tasks |-> Null]
    /\ block_count_ = [t \in Tasks |-> 0]
    /\ co = [t \in Tasks |-> "new"]
    /\ pending = [t \in Tasks |-> {}]
    /\ waited = [t \in Tasks |-> {}]
    /\ yields = [t \in Tasks |-> 0]
    /\ signalled = {}
    /\ complete = {}
-----------------------------------------------------------------------------
(* Faulty variant of MustRequest: no push asks.                             *)
NeverRequests(l) == FALSE

(* A push to an empty lane asks the worker to poll the lane.                *)
MustRequest(l) == count_[l] = 0

(* Lane::push<false> by worker w.  queues is fail after what the caller     *)
(* itself took from it.                                                     *)
LanePush(w, l, t, queues) ==
    \/ /\ WorkerOf[l] # w
       /\ fail' = [queues EXCEPT ![WorkerOf[l]] = Append(@, t)]
       /\ UNCHANGED lanes
    \/ /\ WorkerOf[l] = w
       /\ count_' = [count_ EXCEPT ![l] = @ + 1]
       /\ active_lanes_' = IF MustRequest(l)
                           THEN [active_lanes_ EXCEPT ![w][PrioOf[l]] = Append(@, l)]
                           ELSE active_lanes_
       /\ active_tasks_' = [active_tasks_ EXCEPT ![l] = Append(@, t)]
       /\ fail' = queues

(* The container of the task is not created yet: try again later.           *)
Postpone(w, t, queues) ==
    /\ fail' = [queues EXCEPT ![w] = Append(@, t)]
    /\ UNCHANGED <<lanes, route_lane_>>

(* PrivateTaskMultiQueue::push of a local task by worker w.  MapTaskToLane  *)
(* is up to the module, so any lane is possible.                            *)
Push(w, t, queues) ==
    \/ ~created /\ Postpone(w, t, queues)
    \/ /\ created
       /\ route_lane_[t] # Null
       /\ LanePush(w, route_lane_[t], t, queues)
       /\ UNCHANGED route_lane_
    \/ /\ created
       /\ route_lane_[t] = Null
       /\ \E l \in Lanes :
            /\ route_lane_' = [route_lane_ EXCEPT ![t] = l]
            /\ LanePush(w, l, t, queues)

(* A client puts a task into an ingress lane.                               *)
Submit(t, w) ==
    /\ ParentOf[t] = Null
    /\ co[t] = "new"
    /\ co' = [co EXCEPT ![t] = "ready"]
    /\ ingress' = [ingress EXCEPT ![w] = Append(@, t)]
    /\ UNCHANGED <<fail, lanes, pc, poll, cur_task_, created, route_lane_,
                   block_count_, pending, waited, yields, signalled, complete>>

(* The container of the tasks is created at some time.                      *)
CreateContainer ==
    /\ ~created
    /\ created' = TRUE
    /\ UNCHANGED <<ingress, fail, lanes, pc, poll, cur_task_, route_lane_, coroutines>>

(* Start to poll the lanes of priority p: take the snapshot of their number. *)
BeginPoll(w, p) ==
    /\ pc' = [pc EXCEPT ![w] = "poll"]
    /\ prio' = [prio EXCEPT ![w] = p]
    /\ num' = [num EXCEPT ![w] = Len(active_lanes_[w][p])]

IngestLane(w) ==
    /\ pc[w] = "ingest"
    /\ ingress[w] # <<>>
    /\ ingress' = [ingress EXCEPT ![w] = Tail(@)]
    /\ Push(w, Head(ingress[w]), fail)
    /\ UNCHANGED <<pc, poll, cur_task_, created, coroutines>>

EndIngest(w) ==
    /\ pc[w] = "ingest"
    /\ ingress[w] = <<>>
    /\ BeginPoll(w, "low")
    /\ UNCHANGED <<ingress, fail, lanes, iter, cur_lane_, left, done_tasks, cur_task_,
                   created, route_lane_, coroutines>>

(* Take the next lane of the snapshot and note how many tasks it has.       *)
PollLane(w) ==
    /\ pc[w] = "poll"
    /\ num[w] > 0
    /\ num' = [num EXCEPT ![w] = @ - 1]
    /\ LET l == Head(active_lanes_[w][prio[w]]) IN
        /\ cur_lane_' = [cur_lane_ EXCEPT ![w] = l]
        /\ left' = [left EXCEPT ![w] = count_[l]]
    /\ active_lanes_' = [active_lanes_ EXCEPT ![w][prio[w]] = Tail(@)]
    /\ done_tasks' = [done_tasks EXCEPT ![w] = 0]
    /\ pc' = [pc EXCEPT ![w] = "lane"]
    /\ UNCHANGED <<ingress, fail, active_tasks_, count_, prio, iter, cur_task_, created,
                   route_lane_, coroutines>>

(* Pop a task of the lane and, unless IsBlocked, enter its coroutine.  A    *)
(* task that comes back from Wait has waited for what it named.  A long     *)
(* running task whose period has not elapsed is one that returns at once.   *)
RunTask(w) ==
    /\ pc[w] = "lane"
    /\ left[w] > 0
    /\ active_tasks_[cur_lane_[w]] # <<>>
    /\ left' = [left EXCEPT ![w] = @ - 1]
    /\ active_tasks_' = [active_tasks_ EXCEPT ![cur_lane_[w]] = Tail(@)]
    /\ LET t == Head(active_tasks_[cur_lane_[w]]) IN
        IF block_count_[t] > 0
        THEN /\ done_tasks' = [done_tasks EXCEPT ![w] = @ + 1]
             /\ UNCHANGED <<pc, cur_task_, co, pending, waited>>
        ELSE /\ pc' = [pc EXCEPT ![w] = "run"]
             /\ cur_task_' = [cur_task_ EXCEPT ![w] = t]
             /\ co' = [co EXCEPT ![t] = "ready"]
             /\ waited' = [waited EXCEPT ![t] = @ \cup pending[t]]
             /\ pending' = [pending EXCEPT ![t] = {}]
             /\ UNCHANGED done_tasks
    /\ UNCHANGED <<ingress, fail, active_lanes_, count_, prio, iter, num, cur_lane_,
                   created, route_lane_, block_count_, yields, signalled, complete>>

(* All tasks of the snapshot have run: pop_prep, and the lane stays active  *)
(* if it still has tasks.                                                   *)
EndLane(w) ==
    /\ pc[w] = "lane"
    /\ left[w] = 0 \/ active_tasks_[cur_lane_[w]] = <<>>
    /\ LET l == cur_lane_[w]
           after_size == count_[l] - done_tasks[w]
       IN /\ count_' = [count_ EXCEPT ![l] = after_size]
          /\ active_lanes_' = IF after_size > 0
                              THEN [active_lanes_ EXCEPT ![w][prio[w]] = Append(@, l)]
                              ELSE active_lanes_
    /\ pc' = [pc EXCEPT ![w] = "poll"]
    /\ left' = [left EXCEPT ![w] = 0]
    /\ cur_lane_' = [cur_lane_ EXCEPT ![w] = Null]
    /\ UNCHANGED <<ingress, fail, active_tasks_, prio, iter, num, done_tasks, cur_task_,
                   created, route_lane_, coroutines>>
-----------------------------------------------------------------------------
(* What the coroutine of the task that w runs may do.                       *)

(* Subtasks that signal t when they end (YieldInit), not yet waited for.    *)
Outstanding(t) ==
    {c \in Tasks : /\ ParentOf[c] = t
                   /\ c \notin FireAndForget \cup LongRunning
                   /\ co[c] # "new"
                   /\ c \notin waited[t]}

(* ScheduleTask of a subtask.                                               *)
Spawn(w, c) ==
    /\ pc[w] = "run"
    /\ ParentOf[c] = cur_task_[w]
    /\ co[c] = "new"
    /\ co' = [co EXCEPT ![c] = "ready"]
    /\ Push(w, c, fail)
    /\ UNCHANGED <<ingress, pc, poll, cur_task_, created, block_count_, pending, waited,
                   yields, signalled, complete>>

(* Faulty variant of BlockedBy: one for the whole Wait.                     *)
BlockedByOne(S) == 1

(* What a Wait adds to block_count_.                                        *)
BlockedBy(S) == Cardinality(S)

(* Wait for the subtasks S: the fetch_add of SetBlocked.  The result decides *)
(* whether the task is marked blocked or merely yields.                     *)
Wait(w, S) ==
    LET t == cur_task_[w] IN
    /\ pc[w] = "run"
    /\ S # {}
    /\ S \subseteq Outstanding(t)
    /\ WaitAll => S = Outstanding(t)
    /\ block_count_' = [block_count_ EXCEPT ![t] = @ + BlockedBy(S)]
    /\ pending' = [pending EXCEPT ![t] = S]
    /\ co' = [co EXCEPT ![t] = "wait"]
    /\ pc' = [pc EXCEPT ![w] = IF block_count_[t] + BlockedBy(S) # 0
                               THEN "park" ELSE "pushback"]
    /\ UNCHANGED <<ingress, fail, lanes, poll, cur_task_, created, route_lane_, waited,
                   yields, signalled, complete>>

(* Task::Yield without a Wait.                                              *)
Yield(w) ==
    LET t == cur_task_[w] IN
    /\ pc[w] = "run"
    /\ yields[t] < MaxYields
    /\ yields' = [yields EXCEPT ![t] = @ + 1]
    /\ pc' = [pc EXCEPT ![w] = "pushback"]
    /\ UNCHANGED <<ingress, fail, lanes, poll, cur_task_, created, route_lane_,
                   block_count_, co, pending, waited, signalled, complete>>

(* The method returns.  A long running task goes back to its lane; another  *)
(* one ends, and signals the parent YieldInit gave it.                      *)
Return(w) ==
    LET t == cur_task_[w] IN
    /\ pc[w] = "run"
    /\ Outstanding(t) = {}
    /\ \/ /\ t \in LongRunning
          /\ pc' = [pc EXCEPT ![w] = "pushback"]
          /\ UNCHANGED co
       \/ /\ t \notin LongRunning
          /\ pc' = [pc EXCEPT ![w] = IF ParentOf[t] = Null \/ t \in FireAndForget
                                     THEN "complete" ELSE "signal"]
          /\ co' = [co EXCEPT ![t] = "ended"]
    /\ UNCHANGED <<ingress, fail, lanes, poll, cur_task_, created, route_lane_,
                   block_count_, pending, waited, yields, signalled, complete>>
-----------------------------------------------------------------------------
(* The rest of RunTask, once the coroutine has jumped back.                 *)

(* IsBlocked: the task leaves its lane until it is signalled.               *)
Park(w) ==
    /\ pc[w] = "park"
    /\ done_tasks' = [done_tasks EXCEPT ![w] = @ + 1]
    /\ cur_task_' = [cur_task_ EXCEPT ![w] = Null]
    /\ pc' = [pc EXCEPT ![w] = "lane"]
    /\ UNCHANGED <<ingress, fail, lanes, prio, iter, num, cur_lane_, left, created,
                   route_lane_, coroutines>>

(* Faulty variant of PushBack: Lane::push<false>, which counts again.       *)
PushBackCounts(w) ==
    /\ pc[w] = "pushback"
    /\ active_tasks_' = [active_tasks_ EXCEPT ![cur_lane_[w]] = Append(@, cur_task_[w])]
    /\ count_' = [count_ EXCEPT ![cur_lane_[w]] = @ + 1]
    /\ cur_task_' = [cur_task_ EXCEPT ![w] = Null]
    /\ pc' = [pc EXCEPT ![w] = "lane"]
    /\ UNCHANGED <<ingress, fail, active_lanes_, poll, created, route_lane_, coroutines>>

(* IsYielded, or long running: Lane::push<true>, which leaves count_ alone. *)
PushBack(w) ==
    /\ pc[w] = "pushback"
    /\ active_tasks_' = [active_tasks_ EXCEPT ![cur_lane_[w]] = Append(@, cur_task_[w])]
    /\ cur_task_' = [cur_task_ EXCEPT ![w] = Null]
    /\ pc' = [pc EXCEPT ![w] = "lane"]
    /\ UNCHANGED <<ingress, fail, active_lanes_, count_, poll, created, route_lane_, coroutines>>

(* Faulty variants of Unblocks: also below zero; only a parked parent.      *)
UnblocksBelow(parent) == block_count_[parent] - 1 <= 0
UnblocksParked(parent) ==
    block_count_[parent] = 1 /\ \A w \in Workers : cur_task_[w] # parent

(* The signal that brings the count to zero wakes the parent.               *)
Unblocks(parent) == block_count_[parent] - 1 = 0

(* EndTask calls SignalUnblock: the fetch_sub on the parent's count.        *)
SignalUnblock(w) ==
    LET t == cur_task_[w]
        parent == ParentOf[t]
    IN /\ pc[w] = "signal"
       /\ block_count_' = [block_count_ EXCEPT ![parent] = @ - 1]
       /\ signalled' = signalled \cup {t}
       /\ pc' = [pc EXCEPT ![w] = IF Unblocks(parent)
                                  THEN "wake" ELSE "complete"]
       /\ UNCHANGED <<ingress, fail, lanes, poll, cur_task_, created, route_lane_, co,
                      pending, waited, yields, complete>>

(* SignalUnblock pushes the parent to the lane it was routed to.            *)
Wake(w) ==
    LET parent == ParentOf[cur_task_[w]] IN
    /\ pc[w] = "wake"
    /\ LanePush(w, route_lane_[parent], parent, fail)
    /\ pc' = [pc EXCEPT ![w] = "complete"]
    /\ UNCHANGED <<ingress, poll, cur_task_, created, route_lane_, coroutines>>

(* EndTask's last step: SetComplete, or DelTask of a fire-and-forget task.  *)
SetComplete(w) ==
    /\ pc[w] = "complete"
    /\ complete' = complete \cup {cur_task_[w]}
    /\ done_tasks' = [done_tasks EXCEPT ![w] = @ + 1]
    /\ cur_task_' = [cur_task_ EXCEPT ![w] = Null]
    /\ pc' = [pc EXCEPT ![w] = "lane"]
    /\ UNCHANGED <<ingress, fail, lanes, prio, iter, num, cur_lane_, left, created,
                   route_lane_, block_count_, co, pending, waited, yields, signalled>>
-----------------------------------------------------------------------------
(* All lanes of the snapshot were polled: PollTempQueue on the fail queue,  *)
(* with a snapshot of its size.                                             *)
EndPoll(w) ==
    /\ pc[w] = "poll"
    /\ num[w] = 0
    /\ num' = [num EXCEPT ![w] = Len(fail[w])]
    /\ pc' = [pc EXCEPT ![w] = "fail"]
    /\ UNCHANGED <<ingress, fail, lanes, prio, iter, cur_lane_, left, done_tasks,
                   cur_task_, created, route_lane_, coroutines>>

PollFail(w) ==
    /\ pc[w] = "fail"
    /\ num[w] > 0
    /\ num' = [num EXCEPT ![w] = @ - 1]
    /\ Push(w, Head(fail[w]), [fail EXCEPT ![w] = Tail(@)])
    /\ UNCHANGED <<ingress, pc, prio, iter, cur_lane_, left, done_tasks, cur_task_,
                   created, coroutines>>

MorePasses(w) == iter[w] + 1 < Inner

(* Run repeats the low latency pass Inner times, polls the high latency     *)
(* lanes and the fail queue once, and Loop starts it again.                 *)
EndPass(w) ==
    /\ pc[w] = "fail"
    /\ num[w] = 0
    /\ \/ /\ prio[w] = "low"
          /\ MorePasses(w)
          /\ pc' = [pc EXCEPT ![w] = "ingest"]
          /\ iter' = [iter EXCEPT ![w] = @ + 1]
          /\ UNCHANGED <<prio, num>>
       \/ /\ prio[w] = "low"
          /\ ~MorePasses(w)
          /\ BeginPoll(w, "high")
          /\ UNCHANGED iter
       \/ /\ prio[w] = "high"
          /\ pc' = [pc EXCEPT ![w] = "ingest"]
          /\ prio' = [prio EXCEPT ![w] = "low"]
          /\ iter' = [iter EXCEPT ![w] = 0]
          /\ UNCHANGED num
    /\ UNCHANGED <<ingress, fail, lanes, cur_lane_, left, done_tasks, cur_task_, created,
                   route_lane_, coroutines>>

Coroutine(w) ==
    \/ \E c \in Tasks : Spawn(w, c)
    \/ \E S \in SUBSET Tasks : Wait(w, S)
    \/ Yield(w)
    \/ Return(w)

WorkerStep(w) ==
    \/ IngestLane(w)
    \/ EndIngest(w)
    \/ PollLane(w)
    \/ RunTask(w)
    \/ EndLane(w)
    \/ Coroutine(w)
    \/ Park(w)
    \/ PushBack(w)
    \/ SignalUnblock(w)
    \/ Wake(w)
    \/ SetComplete(w)
    \/ EndPoll(w)
    \/ PollFail(w)
    \/ EndPass(w)

Next ==
    \/ CreateContainer
    \/ \E t \in Tasks, w \in Workers : Submit(t, w)
    \/ \E w \in Workers : WorkerStep(w)

Spec == Init /\ [][Next]_vars

(* Worker threads poll without end, and the container the tasks name is     *)
(* created at last (worker.cc:120 expects it to).                           *)
FairSpec == Spec /\ WF_vars(CreateContainer) /\ \A w \in Workers : WF_vars(WorkerStep(w))
-----------------------------------------------------------------------------
(* Tasks that end with a signal to their parent.                            *)
Signalling(t) == {c \in Tasks : ParentOf[c] = t /\ c \notin FireAndForget \cup LongRunning}

PCs == {"ingest", "poll", "lane", "run", "park", "pushback", "signal", "wake",
        "complete", "fail"}

TypeOK ==
    /\ ingress \in [Workers -> Seq(Tasks)]
    /\ fail \in [Workers -> Seq(Tasks)]
    /\ active_lanes_ \in [Workers -> [{"low", "high"} -> Seq(Lanes)]]
    /\ active_tasks_ \in [Lanes -> Seq(Tasks)]
    /\ count_ \in [Lanes -> Nat]
    /\ pc \in [Workers -> PCs]
    /\ prio \in [Workers -> {"low", "high"}]
    /\ iter \in [Workers -> 0..(Inner - 1)]
    /\ num \in [Workers -> Nat]
    /\ cur_lane_ \in [Workers -> Lanes \cup {Null}]
    /\ left \in [Workers -> Nat]
    /\ done_tasks \in [Workers -> Nat]
    /\ cur_task_ \in [Workers -> Tasks \cup {Null}]
    /\ created \in BOOLEAN
    /\ route_lane_ \in [Tasks -> Lanes \cup {Null}]
    /\ block_count_ \in [Tasks -> Int]
    /\ co \in [Tasks -> {"new", "ready", "wait", "ended"}]
    /\ pending \in [Tasks -> SUBSET Tasks]
    /\ waited \in [Tasks -> SUBSET Tasks]
    /\ yields \in [Tasks -> 0..MaxYields]
    /\ signalled \in SUBSET Tasks
    /\ complete \in SUBSET Tasks

(* Where t stands in the queue q.                                           *)
InQueue(tag, q, t) == {<<tag, i>> : i \in {j \in 1..Len(q) : q[j] = t}}

(* Every queue slot that holds t.                                           *)
Places(t) ==
    UNION ({InQueue(<<"ingress", w>>, ingress[w], t) : w \in Workers}
           \cup {InQueue(<<"fail", w>>, fail[w], t) : w \in Workers}
           \cup {InQueue(<<"lane", l>>, active_tasks_[l], t) : l \in Lanes})

(* A task is queued once at most and held by one worker at most.  A task    *)
(* that is held is in no queue, with one exception: a signal that comes     *)
(* between the fetch_add of SetBlocked and the yield leaves it in the fail  *)
(* queue of the very worker that is about to park it.  A second copy would  *)
(* let two workers run one coroutine.                                       *)
InOnePlace ==
    \A t \in Tasks :
        /\ Cardinality(Places(t)) <= 1
        /\ \A w \in Workers : cur_task_[w] = t =>
            /\ \A v \in Workers \ {w} : cur_task_[v] # t
            /\ \A p \in Places(t) : pc[w] = "park" /\ p[1] = <<"fail", w>>

(* Lane::count_ counts the queued tasks, the one in hand and the ones that  *)
(* pop_prep has still to subtract; a lane with tasks stands exactly once in *)
(* the active lanes of its own worker, unless that worker is polling it;    *)
(* and a task only runs on the lane it was routed to.  A lane that is       *)
(* requested twice or never is polled twice in a pass or not at all.        *)
LaneIsActive ==
    /\ \A l \in Lanes, w \in Workers :
        LET polled == cur_lane_[w] = l
            in_hand == IF cur_task_[w] # Null THEN 1 ELSE 0
            requests == UNION {InQueue(p, active_lanes_[w][p], l) : p \in {"low", "high"}}
        IN /\ WorkerOf[l] # w => ~polled /\ requests = {}
           /\ WorkerOf[l] = w =>
                /\ count_[l] = Len(active_tasks_[l])
                                + (IF polled THEN done_tasks[w] + in_hand ELSE 0)
                /\ Cardinality(requests) = IF count_[l] > 0 /\ ~polled THEN 1 ELSE 0
                /\ \A r \in requests : r[1] = PrioOf[l]
    /\ \A w \in Workers : cur_task_[w] # Null => cur_lane_[w] = route_lane_[cur_task_[w]]

(* block_count_ is the number of subtasks waited for so far less the number *)
(* of subtasks that have signalled.                                         *)
BlockCountExact ==
    \A t \in Tasks :
        block_count_[t] = Cardinality(waited[t] \cup pending[t])
                          - Cardinality(Signalling(t) \cap signalled)

(* Wait(subtasks) returns only when each of them has run to its end, if the *)
(* caller waits for all the subtasks it has outstanding.                    *)
WaitCoversSubtasks ==
    \A t \in Tasks : \A c \in waited[t] : co[c] = "ended" /\ c \in signalled

(* No wake-up is lost: a task that is in no queue and in nobody's hands is  *)
(* waiting for a subtask that will still signal, or a worker is about to    *)
(* push it.                                                                 *)
NeverStranded ==
    \A t \in Tasks :
        \/ co[t] \in {"new", "ended"}
        \/ Places(t) # {}
        \/ \E w \in Workers : cur_task_[w] = t
        \/ co[t] = "wait" /\ block_count_[t] > 0 /\ \E c \in pending[t] : c \notin signalled
        \/ \E w \in Workers : pc[w] = "wake" /\ ParentOf[cur_task_[w]] = t

(* Every task that is submitted or spawned completes.                       *)
TasksEnd == \A t \in Tasks \ LongRunning : co[t] # "new" ~> t \in complete

(* task.h:730, "This task waits for subtask to complete": a subtask that a  *)
(* Wait has returned for has TASK_COMPLETE set, or is deleted.  It does not *)
(* hold: EndTask signals before it sets the flag (README, section 5).       *)
WaitMeansComplete == \A t \in Tasks : waited[t] \subseteq complete
=============================================================================
