------------------------------- MODULE Flush -------------------------------
(***************************************************************************)
(* The flush barrier and the shutdown of one node (worker.cc, Loop,        *)
(* BeginFlush, EndFlush and the functions they call).                       *)
(*                                                                          *)
(* A flush task waits in the flush queue of worker 0.  While it is there,   *)
(* worker 0 leads rounds: it raises tmp_flushing_ on every worker, every    *)
(* worker makes one pass over its queues and lowers its flag, and worker 0  *)
(* compares each worker's work counter with the one of the last round.  A   *)
(* round without work ends the flush; if a shutdown was asked for, it also  *)
(* takes the runtime down.                                                  *)
(*                                                                          *)
(* The ingress lanes, lanes and fail queue of a worker are one inbox here   *)
(* (TaskSched has them apart), and left is the snapshot that a pass takes:  *)
(* what comes later is seen by the next pass.  Run makes Inner passes.      *)
(***************************************************************************)
EXTENDS Integers, Sequences

CONSTANTS
    N,          \* number of workers; their ids are 0 .. N - 1
    Tasks,      \* ordinary tasks
    Flushes,    \* tasks with TASK_FLUSH
    Stops,      \* StopRuntime tasks
    ChildOf,    \* the task that an ordinary task spawns, or Null
    Forward,    \* whether MapTaskToLane may choose another worker's lane
    Inner,      \* bound: passes of one Run (8192 in the code)
    Null

Workers == 0..(N - 1)
AllTasks == Tasks \cup Flushes \cup Stops

ASSUME FlushAssumption ==
    /\ N \in Nat \ {0}
    /\ ChildOf \in [Tasks -> Tasks \cup {Null}]
    /\ Null \notin AllTasks
    /\ Forward \in BOOLEAN
    /\ Inner \in Nat \ {0}

VARIABLES
    run_status_,    \* "alive", "begin" (kStatusBeginDown), "down" (kStatusDoDown)
    inbox,          \* per worker: the tasks it will find when it polls
    flush_queue,    \* active_.GetFlush() of worker 0
    flushing_,      \* per worker: WorkPending::flushing_
    tmp_flushing_,  \* per worker: WorkPending::tmp_flushing_
    count_,         \* per worker: WorkPending::count_
    work_done_,     \* per worker: WorkPending::work_done_
    pc,             \* per worker: where it is in Loop
    flushing,       \* per worker: the local variable of Loop
    iter,           \* per worker: passes that this Run has begun
    left,           \* per worker: tasks left of its snapshot
    idx,            \* worker 0: next worker of its loop over workers_
    found,          \* worker 0: ret of AnyFlushWorkDone
    submitted,      \* tasks that exist
    routed,         \* tasks with TASK_IS_ROUTED
    unflushed,      \* flush tasks after UnsetFlush
    executed,       \* tasks that have run
    earlier         \* per flush task: the tasks that existed when it was submitted

control == <<pc, flushing, iter, left, idx, found>>
counters == <<flushing_, tmp_flushing_, count_, work_done_>>
tasks == <<submitted, routed, unflushed, executed, earlier>>
vars == <<run_status_, inbox, flush_queue, control, counters, tasks>>

Init ==
    /\ run_status_ = "alive"
    /\ inbox = [w \in Workers |-> <<>>]
    /\ flush_queue = <<>>
    /\ flushing_ = [w \in Workers |-> FALSE]
    /\ tmp_flushing_ = [w \in Workers |-> FALSE]
    /\ count_ = [w \in Workers |-> 0]
    /\ work_done_ = [w \in Workers |-> 0]
    /\ pc = [w \in Workers |-> "loop"]
    /\ flushing = [w \in Workers |-> FALSE]
    /\ iter = [w \in Workers |-> 0]
    /\ left = [w \in Workers |-> 0]
    /\ idx = 0
    /\ found = FALSE
    /\ submitted = {}
    /\ routed = {}
    /\ unflushed = {}
    /\ executed = {}
    /\ earlier = [f \in Flushes |-> {}]
-----------------------------------------------------------------------------
Goto(w, label) == pc' = [pc EXCEPT ![w] = label]

Spawned == {ChildOf[t] : t \in Tasks}

(* A client puts a task into an ingress lane of worker w.                   *)
Submit(t, w) ==
    /\ t \notin submitted \cup Spawned
    /\ submitted' = submitted \cup {t}
    /\ earlier' = IF t \in Flushes THEN [earlier EXCEPT ![t] = submitted] ELSE earlier
    /\ inbox' = [inbox EXCEPT ![w] = Append(@, t)]
    /\ UNCHANGED <<run_status_, flush_queue, control, counters, routed, unflushed,
                   executed>>

(* Faulty variant of IsFlushing: a shutdown leads no rounds of its own.     *)
IsFlushingNotDown(w) == flushing_[w] \/ (w = 0 /\ flush_queue # <<>>)

(* What Loop sets flushing to before a Run.                                 *)
IsFlushing(w) ==
    flushing_[w] \/ (w = 0 /\ flush_queue # <<>>) \/ run_status_ = "begin"

(* The head of Loop.                                                        *)
LoopBegin(w) ==
    /\ pc[w] = "loop"
    /\ run_status_ # "down"
    /\ flushing' = [flushing EXCEPT ![w] = IsFlushing(w)]
    /\ Goto(w, IF IsFlushing(w) /\ w = 0 THEN "begin" ELSE "poll")
    /\ UNCHANGED <<run_status_, inbox, flush_queue, iter, left, idx, found, counters,
                   tasks>>

LoopExit(w) ==
    /\ pc[w] = "loop"
    /\ run_status_ = "down"
    /\ Goto(w, "exit")
    /\ UNCHANGED <<run_status_, inbox, flush_queue, flushing, iter, left, idx, found,
                   counters, tasks>>

(* One iteration of worker 0's loop over workers_ at label here; the last   *)
(* one goes on to label next.                                               *)
Visit(here, next) ==
    /\ pc[0] = here
    /\ IF idx + 1 < N THEN idx' = idx + 1 /\ UNCHANGED pc
       ELSE idx' = 0 /\ Goto(0, next)

BeginFlush ==
    /\ Visit("begin", "poll")
    /\ flushing_' = [flushing_ EXCEPT ![idx] = TRUE]
    /\ tmp_flushing_' = [tmp_flushing_ EXCEPT ![idx] = TRUE]
    /\ UNCHANGED <<run_status_, inbox, flush_queue, flushing, iter, left, found, count_,
                   work_done_, tasks>>

(* Run begins a pass.                                                       *)
Poll(w) ==
    /\ pc[w] = "poll"
    /\ iter' = [iter EXCEPT ![w] = @ + 1]
    /\ left' = [left EXCEPT ![w] = Len(inbox[w])]
    /\ Goto(w, "run")
    /\ UNCHANGED <<run_status_, inbox, flush_queue, flushing, idx, found, counters,
                   tasks>>

Take(w) ==
    /\ pc[w] = "run"
    /\ left[w] > 0
    /\ left' = [left EXCEPT ![w] = @ - 1]

(* PushLocalTask of a flush task: it joins the flush queue of worker 0.     *)
HoldFlush(w) ==
    LET t == Head(inbox[w]) IN
    /\ Take(w)
    /\ t \in Flushes \ unflushed
    /\ inbox' = [inbox EXCEPT ![w] = Tail(@)]
    /\ flush_queue' = Append(flush_queue, t)
    /\ UNCHANGED <<run_status_, pc, flushing, iter, idx, found, counters, tasks>>

(* PushLocalTask of another task whose lane belongs to worker v: it is left *)
(* in the fail queue of v.                                                  *)
ForwardTask(w, v) ==
    LET t == Head(inbox[w]) IN
    /\ Forward
    /\ v # w
    /\ Take(w)
    /\ t \notin routed \cup (Flushes \ unflushed)
    /\ routed' = routed \cup {t}
    /\ inbox' = [inbox EXCEPT ![w] = Tail(@), ![v] = Append(@, t)]
    /\ UNCHANGED <<run_status_, flush_queue, pc, flushing, iter, idx, found, counters,
                   submitted, unflushed, executed, earlier>>

(* ExecTask counts a task if this pass flushes, EndTask always.             *)
Counted(w) == [count_ EXCEPT ![w] = @ + (IF flushing[w] THEN 2 ELSE 1)]

(* A StopRuntime task calls BeginShutdown, whatever run_status_ is.         *)
StopRuntime(t) == IF t \in Stops THEN "begin" ELSE run_status_

(* The task runs and ends here.  It may spawn a task for worker v's lane.   *)
Execute(w, v) ==
    LET t == Head(inbox[w])
        spawn == t \in Tasks /\ ChildOf[t] # Null
        rest == [inbox EXCEPT ![w] = Tail(@)]
    IN /\ Take(w)
       /\ t \notin Flushes \ unflushed
       /\ v = w \/ (spawn /\ Forward)
       /\ executed' = executed \cup {t}
       /\ count_' = Counted(w)
       /\ run_status_' = StopRuntime(t)
       /\ routed' = routed \cup {t} \cup (IF spawn THEN {ChildOf[t]} ELSE {})
       /\ submitted' = submitted \cup (IF spawn THEN {ChildOf[t]} ELSE {})
       /\ inbox' = IF spawn THEN [rest EXCEPT ![v] = Append(@, ChildOf[t])] ELSE rest
       /\ UNCHANGED <<flush_queue, pc, flushing, iter, idx, found, flushing_, tmp_flushing_,
                      work_done_, unflushed, earlier>>

EndPass(w) ==
    /\ pc[w] = "run"
    /\ left[w] = 0
    /\ iter[w] < Inner
    /\ Goto(w, "poll")
    /\ UNCHANGED <<run_status_, inbox, flush_queue, flushing, iter, left, idx, found,
                   counters, tasks>>

EndRun(w) ==
    /\ pc[w] = "run"
    /\ left[w] = 0
    /\ iter[w] = Inner
    /\ iter' = [iter EXCEPT ![w] = 0]
    /\ Goto(w, IF flushing[w] THEN "end" ELSE "loop")
    /\ UNCHANGED <<run_status_, inbox, flush_queue, flushing, left, idx, found,
                   counters, tasks>>
-----------------------------------------------------------------------------
(* EndFlush: every worker lowers its flag, worker 0 goes on to the barrier. *)
EndFlush(w) ==
    /\ pc[w] = "end"
    /\ tmp_flushing_' = [tmp_flushing_ EXCEPT ![w] = FALSE]
    /\ Goto(w, IF w = 0 THEN "barrier" ELSE "loop")
    /\ UNCHANGED <<run_status_, inbox, flush_queue, flushing, iter, left, idx, found, flushing_,
                   count_, work_done_, tasks>>

(* Faulty variant of Barrier: worker 0 waits for its own flag only.         *)
BarrierOfOne ==
    /\ pc[0] = "barrier"
    /\ ~tmp_flushing_[0]
    /\ found' = FALSE
    /\ Goto(0, "tally")
    /\ UNCHANGED <<run_status_, inbox, flush_queue, flushing, iter, left, idx, counters,
                   tasks>>

(* while (AnyFlushing(orch)): only worker 0 raises a flag, so the scan ends *)
(* exactly when all are down.                                               *)
Barrier ==
    /\ pc[0] = "barrier"
    /\ \A w \in Workers : ~tmp_flushing_[w]
    /\ found' = FALSE
    /\ Goto(0, "tally")
    /\ UNCHANGED <<run_status_, inbox, flush_queue, flushing, iter, left, idx,
                   counters, tasks>>

(* Faulty variant of NoteCount: the round's count is not kept.              *)
NoteNothing == work_done_

NoteCount == [work_done_ EXCEPT ![idx] = count_[idx]]

(* One worker of the loop in AnyFlushWorkDone.                              *)
AnyFlushWorkDone ==
    /\ found' = (found \/ count_[idx] # work_done_[idx])
    /\ work_done_' = NoteCount
    /\ Visit("tally", IF found' THEN "loop" ELSE "unset")
    /\ UNCHANGED <<run_status_, inbox, flush_queue, flushing, iter, left, flushing_,
                   tmp_flushing_, count_, tasks>>

UnsetFlushing ==
    /\ Visit("unset", "snapshot")
    /\ flushing_' = [flushing_ EXCEPT ![idx] = FALSE]
    /\ tmp_flushing_' = [tmp_flushing_ EXCEPT ![idx] = FALSE]
    /\ UNCHANGED <<run_status_, inbox, flush_queue, flushing, iter, left, found, count_,
                   work_done_, tasks>>

(* PollTempQueue<true> takes the size of the flush queue ...                *)
BeginReap ==
    /\ pc[0] = "snapshot"
    /\ left' = [left EXCEPT ![0] = Len(flush_queue)]
    /\ Goto(0, "reap")
    /\ UNCHANGED <<run_status_, inbox, flush_queue, flushing, iter, idx, found,
                   counters, tasks>>

(* ... and routes that many flush tasks as ordinary ones.                   *)
Reap(v) ==
    LET f == Head(flush_queue) IN
    /\ pc[0] = "reap"
    /\ left[0] > 0
    /\ v = 0 \/ Forward
    /\ left' = [left EXCEPT ![0] = @ - 1]
    /\ flush_queue' = Tail(flush_queue)
    /\ unflushed' = unflushed \cup {f}
    /\ routed' = routed \cup {f}
    /\ inbox' = [inbox EXCEPT ![v] = Append(@, f)]
    /\ UNCHANGED <<run_status_, pc, flushing, iter, idx, found, counters, submitted,
                   executed, earlier>>

(* FinalizeRuntime if a shutdown was begun.                                 *)
StatusAfterFlush == IF run_status_ = "begin" THEN "down" ELSE run_status_

EndReap ==
    /\ pc[0] = "reap"
    /\ left[0] = 0
    /\ run_status_' = StatusAfterFlush
    /\ Goto(0, "loop")
    /\ UNCHANGED <<inbox, flush_queue, flushing, iter, left, idx, found, counters,
                   tasks>>

AllExited == \A w \in Workers : pc[w] = "exit"

(* The threads are gone.                                                    *)
Stopped ==
    /\ AllExited
    /\ UNCHANGED vars

WorkerStep(w) ==
    \/ LoopBegin(w) \/ LoopExit(w)
    \/ Poll(w) \/ HoldFlush(w) \/ EndPass(w) \/ EndRun(w) \/ EndFlush(w)
    \/ \E v \in Workers : ForwardTask(w, v) \/ Execute(w, v)

LeaderStep ==
    \/ BeginFlush \/ Barrier \/ AnyFlushWorkDone \/ UnsetFlushing \/ BeginReap
    \/ EndReap
    \/ \E v \in Workers : Reap(v)

(* What the thread of worker w does.                                        *)
Thread(w) == WorkerStep(w) \/ (w = 0 /\ LeaderStep)

Next ==
    \/ Stopped
    \/ \E w \in Workers : Thread(w) \/ \E t \in AllTasks : Submit(t, w)

Spec == Init /\ [][Next]_vars

(* The worker threads are never descheduled for good.                       *)
FairSpec == Spec /\ \A w \in Workers : WF_vars(Thread(w))
-----------------------------------------------------------------------------
TypeOK ==
    /\ run_status_ \in {"alive", "begin", "down"}
    /\ inbox \in [Workers -> Seq(AllTasks)]
    /\ flush_queue \in Seq(Flushes)
    /\ flushing_ \in [Workers -> BOOLEAN]
    /\ tmp_flushing_ \in [Workers -> BOOLEAN]
    /\ count_ \in [Workers -> Nat]
    /\ work_done_ \in [Workers -> Nat]
    /\ pc \in [Workers -> {"loop", "begin", "poll", "run", "end", "barrier", "tally",
                           "unset", "snapshot", "reap", "exit"}]
    /\ flushing \in [Workers -> BOOLEAN]
    /\ iter \in [Workers -> 0..Inner]
    /\ left \in [Workers -> Nat]
    /\ idx \in Workers
    /\ found \in BOOLEAN
    /\ submitted \in SUBSET AllTasks
    /\ routed \in SUBSET AllTasks
    /\ unflushed \in SUBSET Flushes
    /\ executed \in SUBSET AllTasks
    /\ earlier \in [Flushes -> SUBSET AllTasks]

(* When a flush ends, every task that existed when it was asked for has     *)
(* run ("All work is done", worker.cc:254).  It does not hold: a task that  *)
(* is only forwarded counts as no work (README, section 5).                 *)
FlushCoversEarlier ==
    \A f \in unflushed : earlier[f] \ Flushes \subseteq executed

(* While no shutdown has begun: when a flush ends, every task that existed   *)
(* when it was asked for has run or was at least forwarded to another        *)
(* worker; none is still where its client put it.  (A shutdown leads rounds  *)
(* of its own, and a flush that joins one of them ends with it.)             *)
FlushReachesEarlier ==
    Stops \cap executed = {} =>
        \A f \in unflushed : earlier[f] \ Flushes \subseteq executed \cup routed

(* A flush task comes back, unless the runtime goes down: no round waits    *)
(* for ever on a worker's flag, and rounds stop when the work does.         *)
(* (Since submitted only grows, []<> says here what ~> would.)              *)
FlushEnds == \A f \in Flushes : []<>(f \in submitted => f \in executed \/ AllExited)

(* A StopRuntime task brings every worker thread down.                      *)
ShutdownEnds == \A s \in Stops : []<>(s \in submitted => AllExited)
=============================================================================
