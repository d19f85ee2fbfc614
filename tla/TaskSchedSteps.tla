--------------------------- MODULE TaskSchedSteps ---------------------------
(***************************************************************************)
(* A worker's steps on the lane it polls and on the task it has in hand     *)
(* keep the invariant of TaskSchedMoves.                                    *)
(***************************************************************************)
EXTENDS TaskSchedMoves

-----------------------------------------------------------------------------
(* A step on the task that w has, takes or lets go: lanes are left alone but *)
(* for their tasks.                                                         *)
HandStep(w) ==
    /\ PollTypes' /\ CoTypes'
    /\ ingress' = ingress /\ fail' = fail /\ active_lanes_' = active_lanes_ /\ count_' = count_
    /\ route_lane_' = route_lane_ /\ cur_lane_' = cur_lane_ /\ prio' = prio /\ num' = num
    /\ active_tasks_' \in [Lanes -> Seq(Tasks)] /\ \A l \in Lanes : Single(active_tasks_'[l])
    /\ \A v \in Workers : v # w =>
        pc'[v] = pc[v] /\ cur_task_'[v] = cur_task_[v] /\ done_tasks'[v] = done_tasks[v]
    /\ pc[w] \in Running \cup {"lane"} /\ pc'[w] \in Running \cup {"lane"}
    /\ cur_task_'[w] # Null <=> pc'[w] \in Running
    /\ cur_task_'[w] # Null => route_lane_[cur_task_'[w]] = cur_lane_[w]

(* A step of w on what it has in hand keeps the invariant, but for the      *)
(* tokens and the coroutine.                                                *)
LEMMA HandStepKeeps ==
    ASSUME NEW w \in Workers, IInv, HandStep(w)
    PROVE  /\ TypeOK' /\ WorkerInv' /\ SnapshotInv' /\ RequestInv' /\ QueuesInv'
           /\ OthersStay(w) /\ RoutesKept
<1> /\ PollTypes' /\ CoTypes'
    /\ ingress' = ingress /\ fail' = fail /\ active_lanes_' = active_lanes_ /\ count_' = count_
    /\ route_lane_' = route_lane_ /\ cur_lane_' = cur_lane_ /\ prio' = prio /\ num' = num
    /\ active_tasks_' \in [Lanes -> Seq(Tasks)] /\ \A l \in Lanes : Single(active_tasks_'[l])
    /\ \A v \in Workers : v # w =>
        pc'[v] = pc[v] /\ cur_task_'[v] = cur_task_[v] /\ done_tasks'[v] = done_tasks[v]
    /\ pc[w] \in Running \cup {"lane"} /\ pc'[w] \in Running \cup {"lane"}
    /\ cur_task_'[w] # Null <=> pc'[w] \in Running
    /\ cur_task_'[w] # Null => route_lane_[cur_task_'[w]] = cur_lane_[w]
    BY Zenon DEF HandStep
<1>1. OthersStay(w) /\ RoutesKept
    BY Zenon DEF OthersStay, RoutesKept
<1>2. QueueTypes /\ LaneTypes
    BY TypesAre, Zenon DEF IInv
<1>3. QueueTypes' /\ QueuesInv' /\ LaneTypes'
    BY <1>2, Zenon DEF IInv, QueueTypes, QueuesInv, LaneTypes
<1>4. TypeOK'
    BY <1>3, TypesAfter, Zenon
<1>5. WorkerInv'
    <2>1. cur_lane_[w] # Null /\ WorkerOf[cur_lane_[w]] = w /\ PrioOf[cur_lane_[w]] = prio[w]
        BY Zenon DEF IInv, WorkerInv, WorkerOk
    <2>2. WorkerOk(w)'
        BY <2>1, Zenon DEF WorkerOk
    <2> QED
        BY <1>1, <2>2, WorkersKept, Zenon
<1>6. SnapshotInv'
    <2>1. QueuesGrow(w)
        <3>1. ASSUME NEW v \in Workers
              PROVE  /\ Len(fail'[v]) >= Len(fail[v])
                     /\ \A k \in Prios : Len(active_lanes_'[v][k]) >= Len(active_lanes_[v][k])
            BY LengthsAre DEF IInv
        <3> QED
            BY <3>1, Zenon DEF QueuesGrow
    <2>2. SnapshotOk(w)'
        <3>1. num[w] <= Len(active_lanes_[w][prio[w]])
            BY Zenon DEF IInv, SnapshotInv, SnapshotOk
        <3>2. pc'[w] # "fail"
            BY DEF Running
        <3> QED
            BY <3>1, <3>2, Zenon DEF SnapshotOk
    <2> QED
        BY <1>1, <1>4, <2>1, <2>2, SnapshotsKept, Zenon
<1>7. RequestInv'
    BY RequestsKept, Zenon
<1> QED
    BY <1>1, <1>3, <1>4, <1>5, <1>6, <1>7, Zenon

(* What the worker of a task in hand knows.                                 *)
LEMMA InHandIs ==
    ASSUME IInv, NEW w \in Workers, pc[w] \in Running
    PROVE  /\ cur_task_[w] \in Tasks /\ cur_lane_[w] \in Lanes
           /\ route_lane_[cur_task_[w]] = cur_lane_[w] /\ WorkerOf[cur_lane_[w]] = w
           /\ InHand(w) = 1 /\ done_tasks[w] \in Nat
<1>1. PollTypes /\ WorkerOk(w)
    BY TypesAre, Zenon DEF IInv, WorkerInv
<1>2. cur_task_[w] # Null /\ cur_lane_[w] # Null
    BY <1>1, Zenon DEF WorkerOk
<1>3. cur_task_[w] \in Tasks /\ cur_lane_[w] \in Lanes /\ done_tasks[w] \in Nat
    BY <1>1, <1>2, Zenon DEF PollTypes
<1> QED
    BY <1>1, <1>2, <1>3, Zenon DEF WorkerOk, InHand

(* The last step of RunTask for a task that does not go back to its lane.   *)
LEMMA TaskGone ==
    ASSUME NEW w \in Workers, IInv, pc[w] \in Running, CoTypes', co' = co, signalled' = signalled,
           ingress' = ingress, fail' = fail, active_tasks_' = active_tasks_,
           active_lanes_' = active_lanes_, count_' = count_, route_lane_' = route_lane_,
           prio' = prio, iter' = iter, num' = num, cur_lane_' = cur_lane_, left' = left,
           created' = created, pending' = pending, waited' = waited,
           done_tasks' = [done_tasks EXCEPT ![w] = @ + 1],
           cur_task_' = [cur_task_ EXCEPT ![w] = Null],
           pc' = [pc EXCEPT ![w] = "lane"]
    PROVE  /\ TypeOK' /\ WorkerInv' /\ SnapshotInv' /\ CountInv' /\ RequestInv' /\ QueuesInv'
           /\ RoutesKept /\ CoInv' /\ HandsKept
<1>1. PollTypes /\ QueueTypes
    BY TypesAre, Zenon DEF IInv
<1>2. /\ pc'[w] = "lane" /\ cur_task_'[w] = Null /\ done_tasks'[w] = done_tasks[w] + 1
      /\ \A v \in Workers : v # w =>
            pc'[v] = pc[v] /\ cur_task_'[v] = cur_task_[v] /\ done_tasks'[v] = done_tasks[v]
      /\ pc' \in [Workers -> PCs] /\ done_tasks' \in [Workers -> Nat]
      /\ cur_task_' \in [Workers -> Tasks \cup {Null}]
    BY <1>1 DEF PollTypes, PCs
<1>3. PollTypes'
    BY <1>1, <1>2, Zenon DEF PollTypes
<1>4. pc'[w] \notin Running /\ pc'[w] \in Running \cup {"lane"} /\ pc'[w] # "park"
    BY <1>2 DEF Running
<1>5. HandStep(w)
    <2>1. \A l \in Lanes : Single(active_tasks_'[l])
        BY Zenon DEF IInv, QueuesInv
    <2>2. pc[w] \in Running \cup {"lane"}
        OBVIOUS
    <2> QED
        BY <1>1, <1>2, <1>3, <1>4, <2>1, <2>2, Zenon DEF HandStep, QueueTypes
<1>6. /\ TypeOK' /\ WorkerInv' /\ SnapshotInv' /\ RequestInv' /\ QueuesInv'
      /\ OthersStay(w) /\ RoutesKept
    BY <1>5, HandStepKeeps, Zenon
<1>7. CountInv'
    <2>1. PICK l \in Lanes : l = cur_lane_[w]
        BY InHandIs, Zenon
    <2>2. InHand(w) = 1 /\ InHand(w)' = 0 /\ done_tasks[w] \in Nat
        BY <1>2, InHandIs, Zenon DEF InHand
    <2>3. done_tasks'[w] + InHand(w)' = done_tasks[w] + InHand(w)
        BY <1>2, <2>2
    <2>4. /\ \A m \in Lanes : m # l => active_tasks_'[m] = active_tasks_[m]
          /\ Len(active_tasks_'[l]) + (done_tasks'[w] + InHand(w)')
                = Len(active_tasks_[l]) + (done_tasks[w] + InHand(w))
        BY <2>3, Zenon
    <2> QED
        BY <1>6, <2>1, <2>4, CountsKept, Zenon
<1>8. CoInv'
    <2>1. TaskOk(w)'
        BY <1>2 DEF TaskOk
    <2>2. \A v \in Workers : TaskOk(v)'
        BY <1>6, <2>1, TasksKept, Zenon
    <2> QED
        BY <2>2, Zenon DEF IInv, CoInv, Signalling
<1>9. HandsKept
    BY <1>2, <1>4, Zenon DEF HandsKept
<1> QED
    BY <1>6, <1>7, <1>8, <1>9, Zenon

(* Park keeps the invariant: the task that is let go was moved when it      *)
(* blocked.                                                                 *)
LEMMA ParkKeeps ==
    ASSUME NEW w \in Workers, IInv, Park(w)
    PROVE  IInv'
<1>1. /\ ingress' = ingress /\ fail' = fail /\ active_tasks_' = active_tasks_
      /\ active_lanes_' = active_lanes_ /\ count_' = count_ /\ route_lane_' = route_lane_
      /\ prio' = prio /\ iter' = iter /\ num' = num /\ cur_lane_' = cur_lane_ /\ left' = left
      /\ created' = created /\ UNCHANGED coroutines
      /\ done_tasks' = [done_tasks EXCEPT ![w] = @ + 1]
      /\ cur_task_' = [cur_task_ EXCEPT ![w] = Null]
      /\ pc' = [pc EXCEPT ![w] = "lane"] /\ pc[w] = "park"
    BY DEF Park, lanes
<1>2. pc[w] \in Running
    BY <1>1 DEF Running
<1>3. /\ CoTypes' /\ BlockCountExact'
      /\ block_count_' = block_count_ /\ co' = co /\ pending' = pending /\ waited' = waited
      /\ signalled' = signalled
      /\ (CoversInv => CoversInv') /\ (DoneInv => DoneInv')
    BY <1>1, CoroutinesStay, Zenon
<1>4. /\ TypeOK' /\ WorkerInv' /\ SnapshotInv' /\ CountInv' /\ RequestInv' /\ QueuesInv'
      /\ RoutesKept /\ CoInv' /\ HandsKept
    BY <1>1, <1>2, <1>3, TaskGone, Zenon
<1>5. Unmoved
    BY ParkMoves, Zenon
<1>6. TokenInv' /\ (AwakeInv => AwakeInv')
    BY <1>3, <1>5, UnmovedKeepsTokens, Zenon
<1>7. RouteInv' /\ HandInv'
    BY <1>1, <1>3, <1>4, <1>5, UnmovedKeepsRoutes, UnmovedKeepsHands, Zenon
<1> QED
    BY <1>3, <1>4, <1>6, <1>7, Zenon DEF IInv

(* SetComplete keeps the invariant: the task has ended and needs no token.  *)
LEMMA SetCompleteKeeps ==
    ASSUME NEW w \in Workers, IInv, SetComplete(w)
    PROVE  IInv'
<1>1. /\ ingress' = ingress /\ fail' = fail /\ active_tasks_' = active_tasks_
      /\ active_lanes_' = active_lanes_ /\ count_' = count_ /\ route_lane_' = route_lane_
      /\ prio' = prio /\ iter' = iter /\ num' = num /\ cur_lane_' = cur_lane_ /\ left' = left
      /\ created' = created /\ block_count_' = block_count_ /\ co' = co /\ pending' = pending
      /\ waited' = waited /\ yields' = yields /\ signalled' = signalled
      /\ complete' = complete \cup {cur_task_[w]}
      /\ done_tasks' = [done_tasks EXCEPT ![w] = @ + 1]
      /\ cur_task_' = [cur_task_ EXCEPT ![w] = Null]
      /\ pc' = [pc EXCEPT ![w] = "lane"] /\ pc[w] = "complete"
    BY DEF SetComplete, lanes
<1>2. pc[w] \in Running
    BY <1>1 DEF Running
<1>3. PICK t \in Tasks : t = cur_task_[w]
    BY <1>2, InHandIs, Zenon
<1>4. CoTypes'
    <2>1. CoTypes
        BY TypesAre, Zenon DEF IInv
    <2>2. complete' \in SUBSET Tasks
        BY <1>1, <1>3, <2>1 DEF CoTypes
    <2> QED
        BY <1>1, <2>1, <2>2, Zenon DEF CoTypes
<1>5. /\ TypeOK' /\ WorkerInv' /\ SnapshotInv' /\ CountInv' /\ RequestInv' /\ QueuesInv'
      /\ RoutesKept /\ CoInv' /\ HandsKept
    BY <1>1, <1>2, <1>4, TaskGone, Zenon
<1>6. Moved(t, {}) /\ <<"hand", w>> \in Tokens(t)
    BY <1>3, SetCompleteMoves, Zenon
<1>7. TokenInv' /\ (AwakeInv => AwakeInv')
    <2>1. TokensOk(Tokens(t), co[t], block_count_[t])
        BY TokenInvIs, Zenon DEF IInv
    <2>2. ~(block_count_[t] > 0)
        BY <1>6, <2>1, Zenon DEF TokensOk
    <2>3. TokensOk({}, co'[t], block_count_'[t])
        BY <1>1, <2>2, Zenon DEF TokensOk
    <2>4. co'[t] = "ended"
        BY <1>1, <1>3 DEF IInv, CoInv, TaskOk
    <2>5. co'[t] \notin {"ready", "wait"}
        BY <2>4
    <2> QED
        BY <1>1, <1>6, <2>3, <2>5, MovedKeepsTokens, Zenon
<1>8. RouteInv'
    <2>1. PICK X : X = {}
        BY Zenon
    <2>2. Moved(t, X) /\ \A l \in Lanes : <<"lane", l>> \in X => route_lane_'[t] = l
        BY <1>6, <2>1
    <2>3. \A c \in Tasks : \/ co'[c] = "new" \/ co[c] # "new" \/ ParentOf[c] = Null
                           \/ route_lane_[ParentOf[c]] # Null
        BY <1>1, Zenon
    <2>4. \A s \in Tasks : s # t => route_lane_'[s] = route_lane_[s]
        BY <1>1, Zenon
    <2> QED
        BY <1>5, <2>2, <2>3, <2>4, MovedKeepsRoutes, Zenon
<1>9. HandInv'
    <2>1. \A v : ParkOk({}, v)
        BY DEF ParkOk
    <2> QED
        BY <1>5, <1>6, <2>1, MovedKeepsHands, Zenon
<1>10. BlockCountExact'
    BY <1>1, BlocksKept, Zenon
<1>11. (CoversInv => CoversInv') /\ (DoneInv => DoneInv')
    BY <1>1, Zenon DEF CoversInv, DoneInv, Spawned, Signalling
<1> QED
    BY <1>5, <1>7, <1>8, <1>9, <1>10, <1>11, Zenon DEF IInv

(* A task in hand is in nobody else's hands.                                *)
LEMMA HeldByOne ==
    ASSUME IInv, NEW w \in Workers, NEW t \in Tasks, t = cur_task_[w]
    PROVE  \A v \in Workers : cur_task_[v] = t => v = w
<1>1. t # Null
    BY SchedAssumption
<1> QED
    BY <1>1, Zenon DEF IInv, HandInv

(* PushBack keeps the invariant: the task goes from the hand to its lane.   *)
LEMMA PushBackKeeps ==
    ASSUME NEW w \in Workers, IInv, PushBack(w)
    PROVE  IInv'
<1>1. PICK t \in Tasks, l \in Lanes :
        /\ t = cur_task_[w] /\ l = cur_lane_[w] /\ route_lane_[t] = l /\ WorkerOf[l] = w
        /\ <<"hand", w>> \in Tokens(t)
        /\ Landed(<<"lane", l>>, t, fail) /\ Moved(t, {<<"lane", l>>})
    BY PushBackMoves, Zenon
<1>2. /\ ingress' = ingress /\ fail' = fail
      /\ active_tasks_' = [active_tasks_ EXCEPT ![l] = Append(@, t)]
      /\ active_lanes_' = active_lanes_ /\ count_' = count_ /\ route_lane_' = route_lane_
      /\ prio' = prio /\ iter' = iter /\ num' = num /\ cur_lane_' = cur_lane_ /\ left' = left
      /\ done_tasks' = done_tasks /\ created' = created /\ UNCHANGED coroutines
      /\ cur_task_' = [cur_task_ EXCEPT ![w] = Null]
      /\ pc' = [pc EXCEPT ![w] = "lane"] /\ pc[w] = "pushback"
    BY <1>1 DEF PushBack, poll
<1>3. /\ CoTypes' /\ BlockCountExact'
      /\ block_count_' = block_count_ /\ co' = co /\ pending' = pending /\ waited' = waited
      /\ signalled' = signalled
      /\ (CoversInv => CoversInv') /\ (DoneInv => DoneInv')
    BY <1>2, CoroutinesStay, Zenon
<1>4. PollTypes /\ QueueTypes
    BY TypesAre, Zenon DEF IInv
<1>5. /\ pc'[w] = "lane" /\ cur_task_'[w] = Null
      /\ \A v \in Workers : v # w => pc'[v] = pc[v] /\ cur_task_'[v] = cur_task_[v]
      /\ pc' \in [Workers -> PCs] /\ cur_task_' \in [Workers -> Tasks \cup {Null}]
    BY <1>2, <1>4 DEF PollTypes, PCs
<1>6. PollTypes'
    BY <1>2, <1>4, <1>5, Zenon DEF PollTypes
<1>7. /\ pc'[w] \notin Running /\ pc'[w] \in Running \cup {"lane"} /\ pc'[w] # "park"
      /\ pc[w] \in Running /\ pc[w] \in Running \cup {"lane"} /\ pc[w] # "park"
    BY <1>2, <1>5 DEF Running
<1>8. HandStep(w)
    <2>1. active_tasks_' \in [Lanes -> Seq(Tasks)] /\ \A m \in Lanes : Single(active_tasks_'[m])
        BY <1>1, Zenon DEF Landed
    <2> QED
        BY <1>2, <1>3, <1>5, <1>6, <1>7, <2>1, Zenon DEF HandStep
<1>9. /\ TypeOK' /\ WorkerInv' /\ SnapshotInv' /\ RequestInv' /\ QueuesInv'
      /\ OthersStay(w) /\ RoutesKept
    BY <1>8, HandStepKeeps, Zenon
<1>10. CountInv'
    <2>1. InHand(w) = 1 /\ InHand(w)' = 0 /\ done_tasks[w] \in Nat
        BY <1>5, <1>7, InHandIs, Zenon DEF InHand
    <2>2. /\ \A m \in Lanes : m # l => active_tasks_'[m] = active_tasks_[m]
          /\ active_tasks_'[l] = Append(active_tasks_[l], t) /\ active_tasks_[l] \in Seq(Tasks)
        BY <1>2, <1>4 DEF QueueTypes
    <2>3. Len(active_tasks_'[l]) = Len(active_tasks_[l]) + 1 /\ Len(active_tasks_[l]) \in Nat
        BY <2>2
    <2>4. Len(active_tasks_'[l]) + (done_tasks'[w] + InHand(w)')
            = Len(active_tasks_[l]) + (done_tasks[w] + InHand(w))
        BY <1>2, <2>1, <2>3
    <2> QED
        BY <1>1, <1>2, <1>9, <2>2, <2>4, CountsKept, Zenon
<1>11. CoInv'
    <2>1. TaskOk(w)'
        BY <1>5 DEF TaskOk
    <2>2. \A v \in Workers : TaskOk(v)'
        BY <1>3, <1>9, <2>1, TasksKept, Zenon
    <2> QED
        BY <1>3, <2>2, Zenon DEF IInv, CoInv, Signalling
<1>12. TokenInv' /\ (AwakeInv => AwakeInv')
    <2>1. TokensOk(Tokens(t), co[t], block_count_[t])
        BY TokenInvIs, Zenon DEF IInv
    <2>2. ~(block_count_[t] > 0)
        BY <1>1, <2>1, Zenon DEF TokensOk
    <2>3. co[t] \in {"ready", "wait"}
        BY <1>1, <1>2 DEF IInv, CoInv, TaskOk
    <2>4. TokensOk({<<"lane", l>>}, co'[t], block_count_'[t])
        BY <1>3, <2>2, <2>3 DEF TokensOk
    <2>5. {<<"lane", l>>} # {}
        BY Zenon
    <2>6. \A s \in Tasks : s # t => co'[s] = co[s] /\ block_count_'[s] = block_count_[s]
        BY <1>3, Zenon
    <2> QED
        BY <1>1, <2>4, <2>5, <2>6, MovedKeepsTokens, Zenon
<1>13. RouteInv'
    <2>1. \A m \in Lanes : <<"lane", m>> \in {<<"lane", l>>} => route_lane_'[t] = m
        BY <1>1, <1>2, TagsDiffer, Zenon
    <2>2. \A c \in Tasks : \/ co'[c] = "new" \/ co[c] # "new" \/ ParentOf[c] = Null
                           \/ route_lane_[ParentOf[c]] # Null
        BY <1>3, Zenon
    <2>3. \A s \in Tasks : s # t => route_lane_'[s] = route_lane_[s]
        BY <1>2, Zenon
    <2> QED
        BY <1>1, <1>9, <2>1, <2>2, <2>3, MovedKeepsRoutes, Zenon
<1>14. HandInv'
    <2>1. HandsKept
        BY <1>5, <1>7, Zenon DEF HandsKept
    <2>2. \A v \in Workers : ~(pc[v] = "park" /\ cur_task_[v] = t)
        BY <1>1, <1>7, HeldByOne, Zenon
    <2> QED
        BY <1>1, <2>1, <2>2, MovedKeepsHands, Zenon
<1> QED
    BY <1>3, <1>9, <1>10, <1>11, <1>12, <1>13, <1>14, Zenon DEF IInv
-----------------------------------------------------------------------------
(* A step of the coroutine in hand, or of EndTask, that moves pc on.        *)
LEMMA StepInHand ==
    ASSUME NEW w \in Workers, NEW q \in Running, IInv, pc[w] \in Running, CoTypes',
           ingress' = ingress, fail' = fail, active_tasks_' = active_tasks_,
           active_lanes_' = active_lanes_, count_' = count_, route_lane_' = route_lane_,
           prio' = prio, iter' = iter, num' = num, cur_lane_' = cur_lane_, left' = left,
           done_tasks' = done_tasks, cur_task_' = cur_task_, created' = created,
           pc' = [pc EXCEPT ![w] = q]
    PROVE  /\ TypeOK' /\ WorkerInv' /\ SnapshotInv' /\ CountInv' /\ RequestInv' /\ QueuesInv'
           /\ RoutesKept /\ OthersStay(w) /\ pc'[w] = q
<1>1. PollTypes /\ QueueTypes
    BY TypesAre, Zenon DEF IInv
<1>2. /\ pc'[w] = q /\ pc' \in [Workers -> PCs]
      /\ \A v \in Workers : v # w => pc'[v] = pc[v]
    BY <1>1 DEF PollTypes, PCs, Running
<1>3. PollTypes'
    BY <1>1, <1>2, Zenon DEF PollTypes
<1>4. cur_task_[w] # Null /\ route_lane_[cur_task_[w]] = cur_lane_[w]
    BY Zenon DEF IInv, WorkerInv, WorkerOk
<1>5. HandStep(w)
    <2>1. \A l \in Lanes : Single(active_tasks_'[l])
        BY Zenon DEF IInv, QueuesInv
    <2>2. pc[w] \in Running \cup {"lane"} /\ pc'[w] \in Running \cup {"lane"}
        BY <1>2
    <2> QED
        BY <1>1, <1>2, <1>3, <1>4, <2>1, <2>2, Zenon DEF HandStep, QueueTypes
<1>6. /\ TypeOK' /\ WorkerInv' /\ SnapshotInv' /\ RequestInv' /\ QueuesInv'
      /\ OthersStay(w) /\ RoutesKept
    BY <1>5, HandStepKeeps, Zenon
<1> QED
    BY <1>2, <1>6, CountsStay, Zenon

(* The task in hand goes back to its lane.                                  *)
LEMMA YieldingKeeps ==
    ASSUME NEW w \in Workers, IInv, pc[w] = "run", CoTypes',
           ingress' = ingress, fail' = fail, active_tasks_' = active_tasks_,
           active_lanes_' = active_lanes_, count_' = count_, route_lane_' = route_lane_,
           prio' = prio, iter' = iter, num' = num, cur_lane_' = cur_lane_, left' = left,
           done_tasks' = done_tasks, cur_task_' = cur_task_, created' = created,
           block_count_' = block_count_, co' = co, pending' = pending, waited' = waited,
           signalled' = signalled, pc' = [pc EXCEPT ![w] = "pushback"]
    PROVE  IInv'
<1>1. pc[w] \in Running /\ "pushback" \in Running
    BY DEF Running
<1>2. /\ TypeOK' /\ WorkerInv' /\ SnapshotInv' /\ CountInv' /\ RequestInv' /\ QueuesInv'
      /\ RoutesKept /\ OthersStay(w) /\ pc'[w] = "pushback"
    BY <1>1, StepInHand, Zenon
<1>3. Unmoved
    <2>1. pc[w] \notin {"park", "wake"} /\ pc'[w] \notin {"park", "wake"}
        BY <1>2
    <2> QED
        BY <1>2, <2>1, PcUnmoved, Zenon DEF OthersStay
<1>4. TokenInv' /\ (AwakeInv => AwakeInv')
    BY <1>3, UnmovedKeepsTokens, Zenon
<1>5. RouteInv' /\ HandInv'
    <2>1. pc'[w] # "park"
        BY <1>2
    <2>2. HandsKept
        BY <1>2, <2>1, Zenon DEF HandsKept, OthersStay
    <2> QED
        BY <1>3, <2>2, UnmovedKeepsRoutes, UnmovedKeepsHands, Zenon
<1>6. CoInv'
    <2>1. PICK t : t = cur_task_[w]
        OBVIOUS
    <2>2. co[t] = "ready"
        BY <2>1, Zenon DEF IInv, CoInv, TaskOk
    <2>3. TaskOk(w)'
        BY <1>2, <2>1, <2>2 DEF TaskOk
    <2>4. \A v \in Workers : TaskOk(v)'
        BY <1>2, <2>3, TasksKept, Zenon
    <2> QED
        BY <2>4, Zenon DEF IInv, CoInv, Signalling
<1>7. BlockCountExact'
    BY BlocksKept, Zenon
<1>8. (CoversInv => CoversInv') /\ (DoneInv => DoneInv')
    BY Zenon DEF CoversInv, DoneInv, Spawned, Signalling
<1> QED
    BY <1>2, <1>4, <1>5, <1>6, <1>7, <1>8, Zenon DEF IInv

(* Yield keeps the invariant.                                               *)
LEMMA YieldKeeps ==
    ASSUME NEW w \in Workers, IInv, Yield(w)
    PROVE  IInv'
<1>1. /\ ingress' = ingress /\ fail' = fail /\ active_tasks_' = active_tasks_
      /\ active_lanes_' = active_lanes_ /\ count_' = count_ /\ route_lane_' = route_lane_
      /\ prio' = prio /\ iter' = iter /\ num' = num /\ cur_lane_' = cur_lane_ /\ left' = left
      /\ done_tasks' = done_tasks /\ cur_task_' = cur_task_ /\ created' = created
      /\ block_count_' = block_count_ /\ co' = co /\ pending' = pending
      /\ waited' = waited /\ signalled' = signalled /\ complete' = complete
      /\ yields[cur_task_[w]] < MaxYields
      /\ yields' = [yields EXCEPT ![cur_task_[w]] = @ + 1]
      /\ pc' = [pc EXCEPT ![w] = "pushback"] /\ pc[w] = "run"
    BY DEF Yield, lanes, poll
<1>2. CoTypes'
    <2>1. CoTypes
        BY TypesAre, Zenon DEF IInv
    <2>2. yields' \in [Tasks -> 0..MaxYields]
        <3>1. PICK t : t = cur_task_[w]
            OBVIOUS
        <3>2. yields \in [Tasks -> 0..MaxYields] /\ yields[t] < MaxYields
              /\ yields' = [yields EXCEPT ![t] = yields[t] + 1] /\ MaxYields \in Nat
            BY <1>1, <2>1, <3>1, SchedAssumption DEF CoTypes
        <3>3. t \in Tasks => yields[t] + 1 \in 0..MaxYields
            BY <3>2
        <3> QED
            BY <3>2, <3>3, Zenon
    <2> QED
        BY <1>1, <2>1, <2>2, Zenon DEF CoTypes
<1> QED
    BY <1>1, <1>2, YieldingKeeps, Zenon

(* Return keeps the invariant, for a task with a parent to signal and for   *)
(* one without.                                                             *)
LEMMA ReturnKeeps ==
    ASSUME NEW w \in Workers, IInv, Return(w)
    PROVE  IInv'
<1>1. /\ ingress' = ingress /\ fail' = fail /\ active_tasks_' = active_tasks_
      /\ active_lanes_' = active_lanes_ /\ count_' = count_ /\ route_lane_' = route_lane_
      /\ prio' = prio /\ iter' = iter /\ num' = num /\ cur_lane_' = cur_lane_ /\ left' = left
      /\ done_tasks' = done_tasks /\ cur_task_' = cur_task_ /\ created' = created
      /\ block_count_' = block_count_ /\ pending' = pending /\ yields' = yields
      /\ waited' = waited /\ signalled' = signalled /\ complete' = complete
      /\ pc[w] = "run"
    BY DEF Return, lanes, poll
<1>2. pc[w] \in Running /\ CoTypes /\ PollTypes
    BY <1>1, TypesAre DEF IInv, Running
<1>3. PICK t \in Tasks : t = cur_task_[w]
    BY <1>2, InHandIs, Zenon
<1>4. co[t] = "ready"
    BY <1>1, <1>3, Zenon DEF IInv, CoInv, TaskOk
<1>5. CASE pc' = [pc EXCEPT ![w] = "pushback"] /\ UNCHANGED co
    <2>1. CoTypes'
        BY <1>1, <1>2, <1>5, Zenon DEF CoTypes
    <2> QED
        BY <1>1, <1>5, <2>1, YieldingKeeps, Zenon
<1>6. CASE /\ t \notin LongRunning
           /\ pc' = [pc EXCEPT ![w] = IF ParentOf[t] = Null \/ t \in FireAndForget
                                      THEN "complete" ELSE "signal"]
           /\ co' = [co EXCEPT ![t] = "ended"]
    <2>1. PICK q : q = IF ParentOf[t] = Null \/ t \in FireAndForget THEN "complete" ELSE "signal"
        OBVIOUS
    <2>2. /\ q \in Running /\ pc' = [pc EXCEPT ![w] = q]
          /\ q \in {"complete", "signal"}
          /\ q = "signal" => ParentOf[t] # Null /\ t \notin FireAndForget \cup LongRunning
        BY <1>6, <2>1 DEF Running
    <2>3. /\ co' \in [Tasks -> {"new", "ready", "wait", "ended"}] /\ co'[t] = "ended"
          /\ \A s \in Tasks : s # t => co'[s] = co[s]
        BY <1>2, <1>6 DEF CoTypes
    <2>4. CoTypes'
        BY <1>1, <1>2, <2>3, Zenon DEF CoTypes
    <2>5. /\ TypeOK' /\ WorkerInv' /\ SnapshotInv' /\ CountInv' /\ RequestInv' /\ QueuesInv'
          /\ RoutesKept /\ OthersStay(w) /\ pc'[w] = q
        BY <1>1, <1>2, <2>2, <2>4, StepInHand, Zenon
    <2>6. pc[w] \notin {"park", "wake"} /\ pc'[w] \notin {"park", "wake"} /\ pc[w] # "park" /\ pc'[w] # "park"
        BY <1>1, <2>2, <2>5
    <2>7. Unmoved
        BY <1>1, <2>5, <2>6, PcUnmoved, Zenon DEF OthersStay
    <2>8. PICK X : X = Tokens(t)
        OBVIOUS
    <2>9. Moved(t, X)
        BY <2>7, <2>8, UnmovedMoved, Zenon
    <2>10. X = {<<"hand", w>>}
        <3>1. <<"hand", w>> \in Tokens(t)
            BY <1>3, <2>6, TokensAre, Zenon
        <3> QED
            BY <2>8, <3>1, OnlyToken, Zenon
    <2>11. TokenInv' /\ (AwakeInv => AwakeInv')
        <3>1. TokensOk(X, co[t], block_count_[t])
            BY <2>8, TokenInvIs, Zenon DEF IInv
        <3>2. ~(block_count_[t] > 0)
            BY <2>10, <3>1, Zenon DEF TokensOk
        <3>3. TokensOk(X, co'[t], block_count_'[t])
            BY <1>1, <2>3, <2>10, <3>2 DEF TokensOk, Queued
        <3>4. co'[t] \notin {"ready", "wait"}
            BY <2>3
        <3>5. \A s \in Tasks : s # t => co'[s] = co[s] /\ block_count_'[s] = block_count_[s]
            BY <1>1, <2>3, Zenon
        <3> QED
            BY <2>9, <3>3, <3>4, <3>5, MovedKeepsTokens, Zenon
    <2>12. \A c \in Tasks : co'[c] = "new" \/ co[c] # "new"
        BY <1>4, <2>3
    <2>13. RouteInv' /\ HandInv'
        <3>1. HandsKept
            BY <1>1, <2>5, <2>6, Zenon DEF HandsKept, OthersStay
        <3> QED
            BY <1>1, <2>7, <2>12, <3>1, UnmovedKeepsRoutes, UnmovedKeepsHands, Zenon
    <2>14. CoInv'
        <3>1. t \notin signalled
            BY <1>4 DEF IInv, CoInv
        <3>2. TaskOk(w)'
            BY <1>1, <1>3, <2>2, <2>3, <2>5, <3>1 DEF TaskOk
        <3>3. ASSUME NEW v \in Workers, v # w, cur_task_[v] # Null
              PROVE  co'[cur_task_[v]] = co[cur_task_[v]]
            BY <1>3, <2>3, <3>3, HeldStarted, HeldByOne, Zenon
        <3>4. \A v \in Workers : TaskOk(v)'
            BY <1>1, <2>5, <3>2, <3>3, TasksKept, Zenon
        <3>5. \A s \in Tasks : co'[s] # "wait" => pending'[s] = {}
            BY <1>1, <1>4, <2>3, Zenon DEF IInv, CoInv
        <3>6. \A s \in signalled' : co'[s] = "ended"
            BY <1>1, <1>2, <2>3 DEF IInv, CoInv, CoTypes
        <3> QED
            BY <1>1, <3>4, <3>5, <3>6, Zenon DEF IInv, CoInv, Signalling
    <2>15. BlockCountExact'
        BY <1>1, BlocksKept, Zenon
    <2>16. (CoversInv => CoversInv') /\ (DoneInv => DoneInv')
        <3>1. ASSUME NEW s \in Tasks, co'[s] = "wait" PROVE Spawned(s)' = Spawned(s) /\ co[s] = "wait"
            <4>1. s # t
                BY <2>3, <3>1
            <4> QED
                BY <1>4, <2>3, <3>1, <4>1 DEF Spawned, Signalling
        <3> QED
            BY <1>1, <3>1, Zenon DEF CoversInv, DoneInv
    <2> QED
        BY <2>5, <2>11, <2>13, <2>14, <2>15, <2>16, Zenon DEF IInv
<1> QED
    BY <1>3, <1>5, <1>6, Zenon DEF Return

(* What the proofs use of the sizes of sets of tasks, which are finite.     *)
Counts ==
    /\ \A S \in SUBSET Tasks : Cardinality(S) \in Nat
    /\ \A S \in SUBSET Tasks : \A x \in Tasks \ S : Cardinality(S \cup {x}) = Cardinality(S) + 1
    /\ \A S \in SUBSET Tasks : \A A \in SUBSET S :
        Cardinality(A) <= Cardinality(S) /\ (Cardinality(A) = Cardinality(S) => A = S)
    /\ \A A, B \in SUBSET Tasks :
        A \cap B = {} => Cardinality(A \cup B) = Cardinality(A) + Cardinality(B)

(* Sets of tasks have a size.                                               *)
LEMMA TaskSets ==
    ASSUME Counts, NEW S \in SUBSET Tasks
    PROVE  Cardinality(S) \in Nat
    BY Zenon DEF Counts

(* A part has no more elements, and as many only if it is the whole.        *)
LEMMA CountPart ==
    ASSUME Counts, NEW S \in SUBSET Tasks, NEW A, A \subseteq S
    PROVE  /\ Cardinality(A) <= Cardinality(S)
           /\ Cardinality(A) = Cardinality(S) => A = S
    BY Zenon DEF Counts

(* Subtasks that have signalled were spawned.                               *)
LEMMA SignalledSpawned ==
    ASSUME IInv, NEW t \in Tasks
    PROVE  Signalling(t) \cap signalled \subseteq Spawned(t)
    BY DEF IInv, CoInv, Spawned

(* A Wait that names all outstanding subtasks never gets a negative count.  *)
LEMMA WaitCounts ==
    ASSUME IInv, Counts, NEW S \in SUBSET Tasks, NEW t \in Tasks,
           S \subseteq Outstanding(t), pending[t] = {}
    PROVE  /\ block_count_[t] + Cardinality(S)
                = Cardinality(waited[t] \cup S) - Cardinality(Signalling(t) \cap signalled)
           /\ S = Outstanding(t) => block_count_[t] + Cardinality(S) >= 0
           /\ S = Outstanding(t) => Spawned(t) \subseteq waited[t] \cup S
<1>1. waited[t] \in SUBSET Tasks /\ waited[t] \cup S \in SUBSET Tasks /\ block_count_[t] \in Int
    BY TypesAre DEF IInv, CoTypes
<1>2. Signalling(t) \cap signalled \in SUBSET Tasks
    BY DEF Signalling
<1>3. waited[t] \cap S = {}
    BY DEF Outstanding
<1>4. Cardinality(waited[t] \cup S) = Cardinality(waited[t]) + Cardinality(S)
    BY <1>1, <1>3, Zenon DEF Counts
<1>5. block_count_[t] = Cardinality(waited[t]) - Cardinality(Signalling(t) \cap signalled)
    <2>1. waited[t] \cup pending[t] = waited[t]
        OBVIOUS
    <2> QED
        BY <2>1 DEF IInv, BlockCountExact
<1>6. /\ Cardinality(waited[t]) \in Nat /\ Cardinality(S) \in Nat
      /\ Cardinality(waited[t] \cup S) \in Nat /\ Cardinality(Signalling(t) \cap signalled) \in Nat
    BY <1>1, <1>2, TaskSets
<1>7. ASSUME S = Outstanding(t)
      PROVE  /\ Spawned(t) \subseteq waited[t] \cup S
             /\ block_count_[t] + Cardinality(S) >= 0
    <2>1. Spawned(t) \subseteq waited[t] \cup S
        BY <1>7 DEF Spawned, Signalling, Outstanding
    <2>2. Signalling(t) \cap signalled \in SUBSET (waited[t] \cup S)
        BY <2>1, SignalledSpawned
    <2>3. Cardinality(Signalling(t) \cap signalled) <= Cardinality(waited[t] \cup S)
        BY <1>1, <2>2, CountPart, Zenon
    <2> QED
        BY <1>4, <1>5, <1>6, <2>1, <2>3
<1> QED
    BY <1>4, <1>5, <1>6, <1>7

(* Wait keeps the invariant: block_count_ goes up by the subtasks that are  *)
(* named, and the task parks only if that is not zero.                      *)
LEMMA WaitKeeps ==
    ASSUME NEW w \in Workers, NEW S \in SUBSET Tasks, IInv, Counts, Wait(w, S)
    PROVE  IInv'
<1>1. /\ ingress' = ingress /\ fail' = fail /\ active_tasks_' = active_tasks_
      /\ active_lanes_' = active_lanes_ /\ count_' = count_ /\ route_lane_' = route_lane_
      /\ prio' = prio /\ iter' = iter /\ num' = num /\ cur_lane_' = cur_lane_ /\ left' = left
      /\ done_tasks' = done_tasks /\ cur_task_' = cur_task_ /\ created' = created
      /\ yields' = yields /\ waited' = waited /\ signalled' = signalled /\ complete' = complete
      /\ pc[w] = "run"
    BY DEF Wait, lanes, poll
<1>2. pc[w] \in Running /\ CoTypes /\ PollTypes /\ pc[w] # "park"
    BY <1>1, TypesAre DEF IInv, Running
<1>3. PICK t \in Tasks : t = cur_task_[w]
    BY <1>2, InHandIs, Zenon
<1>4. co[t] = "ready" /\ pending[t] = {} /\ t \notin signalled
    <2>1. co[t] = "ready"
        BY <1>1, <1>3, Zenon DEF IInv, CoInv, TaskOk
    <2> QED
        BY <2>1 DEF IInv, CoInv
<1>5. /\ S \subseteq Outstanding(t) /\ (WaitAll => S = Outstanding(t))
      /\ block_count_' = [block_count_ EXCEPT ![t] = block_count_[t] + Cardinality(S)]
      /\ pending' = [pending EXCEPT ![t] = S]
      /\ co' = [co EXCEPT ![t] = "wait"]
    BY <1>3 DEF Wait, BlockedBy
<1>6. Cardinality(S) \in Nat
    BY TaskSets
<1>7. /\ co' \in [Tasks -> {"new", "ready", "wait", "ended"}] /\ co'[t] = "wait"
      /\ \A s \in Tasks : s # t => co'[s] = co[s]
      /\ pending' \in [Tasks -> SUBSET Tasks] /\ pending'[t] = S
      /\ \A s \in Tasks : s # t => pending'[s] = pending[s]
      /\ block_count_' \in [Tasks -> Int] /\ block_count_'[t] = block_count_[t] + Cardinality(S)
      /\ \A s \in Tasks : s # t => block_count_'[s] = block_count_[s]
    BY <1>2, <1>5, <1>6 DEF CoTypes
<1>8. CoTypes'
    BY <1>1, <1>2, <1>7, Zenon DEF CoTypes
<1>9. /\ <<"hand", w>> \in Tokens(t)
      /\ \/ pc' = [pc EXCEPT ![w] = "park"] /\ block_count_'[t] # 0 /\ Moved(t, {})
         \/ pc' = [pc EXCEPT ![w] = "pushback"] /\ block_count_'[t] = 0 /\ Unmoved
    BY <1>3, WaitMoves, Zenon
<1>10. PICK q \in {"park", "pushback"} : pc' = [pc EXCEPT ![w] = q]
    BY <1>9
<1>11. /\ TypeOK' /\ WorkerInv' /\ SnapshotInv' /\ CountInv' /\ RequestInv' /\ QueuesInv'
       /\ RoutesKept /\ OthersStay(w) /\ pc'[w] = q
    <2>1. q \in Running
        BY DEF Running
    <2> QED
        BY <1>1, <1>2, <1>8, <1>10, <2>1, StepInHand, Zenon
<1>12. /\ block_count_'[t] = Cardinality(waited[t] \cup S) - Cardinality(Signalling(t) \cap signalled)
       /\ WaitAll => block_count_'[t] >= 0 /\ Spawned(t) \subseteq waited[t] \cup S
    <2>1. /\ block_count_[t] + Cardinality(S)
                = Cardinality(waited[t] \cup S) - Cardinality(Signalling(t) \cap signalled)
          /\ S = Outstanding(t) => block_count_[t] + Cardinality(S) >= 0
          /\ S = Outstanding(t) => Spawned(t) \subseteq waited[t] \cup S
        BY <1>4, <1>5, WaitCounts, Zenon
    <2> QED
        BY <1>5, <1>7, <2>1
<1>13. BlockCountExact'
    <2>1. ASSUME NEW s \in Tasks
          PROVE  block_count_'[s] = Cardinality(waited'[s] \cup pending'[s])
                                    - Cardinality(Signalling(s) \cap signalled')
        <3>1. CASE s = t
            BY <1>1, <1>7, <1>12, <3>1, Zenon
        <3>2. CASE s # t
            BY <1>1, <1>7, <3>2, Zenon DEF IInv, BlockCountExact
        <3> QED
            BY <3>1, <3>2, Zenon
    <2> QED
        BY <2>1, Zenon DEF BlockCountExact, Signalling
<1>14. CoInv'
    <2>1. TaskOk(w)'
        BY <1>1, <1>3, <1>7, <1>11, Zenon DEF TaskOk
    <2>2. ASSUME NEW v \in Workers, v # w, cur_task_[v] # Null
          PROVE  co'[cur_task_[v]] = co[cur_task_[v]]
        BY <1>3, <1>7, <2>2, HeldStarted, HeldByOne, Zenon
    <2>3. \A v \in Workers : TaskOk(v)'
        BY <1>1, <1>11, <2>1, <2>2, TasksKept, Zenon
    <2>4. \A s \in Tasks : co'[s] # "wait" => pending'[s] = {}
        BY <1>7, Zenon DEF IInv, CoInv
    <2>5. \A s \in signalled' : co'[s] = "ended"
        BY <1>1, <1>2, <1>4, <1>7 DEF IInv, CoInv, CoTypes
    <2>6. ASSUME NEW s \in Tasks PROVE waited'[s] \cup pending'[s] \subseteq Signalling(s)
        <3>1. waited[s] \cup pending[s] \subseteq Signalling(s)
            BY Zenon DEF IInv, CoInv
        <3>2. S \subseteq Signalling(t)
            BY <1>5 DEF Outstanding, Signalling
        <3> QED
            BY <1>1, <1>7, <3>1, <3>2
    <2> QED
        BY <2>3, <2>4, <2>5, <2>6, Zenon DEF CoInv, Signalling
<1>15. \A c \in Tasks : co'[c] = "new" \/ co[c] # "new"
    BY <1>4, <1>7
<1>16. (CoversInv /\ WaitAll => CoversInv') /\ (DoneInv => DoneInv')
    <2>1. \A s \in Tasks : Spawned(s)' = Spawned(s)
        BY <1>4, <1>7 DEF Spawned, Signalling
    <2>2. CoversInv /\ WaitAll => CoversInv'
        BY <1>1, <1>7, <1>12, <2>1, Zenon DEF CoversInv
    <2> QED
        BY <1>1, <2>2, Zenon DEF DoneInv
<1>17. \A s \in Tasks : s # t => co'[s] = co[s] /\ block_count_'[s] = block_count_[s]
    BY <1>7, Zenon
<1>18. RouteInv' /\ HandInv' /\ TokenInv' /\ (AwakeInv /\ WaitAll => AwakeInv')
    <2>1. CASE pc' = [pc EXCEPT ![w] = "park"] /\ block_count_'[t] # 0 /\ Moved(t, {})
        <3>1. PICK X : X = {}
            BY Zenon
        <3>2. Moved(t, X)
            BY <2>1, <3>1, Zenon
        <3>3. RouteInv'
            <4>1. /\ \A l \in Lanes : <<"lane", l>> \in X => route_lane_'[t] = l
                  /\ \A s \in Tasks : s # t => route_lane_'[s] = route_lane_[s]
                BY <1>1, <3>1
            <4> QED
                BY <1>11, <1>15, <3>2, <4>1, MovedKeepsRoutes, Zenon
        <3>4. TokensOk(X, co'[t], block_count_'[t])
            BY <1>7, <3>1 DEF TokensOk
        <3>5. WaitAll => block_count_'[t] > 0
            BY <1>7, <1>12, <2>1
        <3>6. TokenInv' /\ (AwakeInv /\ WaitAll => AwakeInv')
            BY <1>17, <3>2, <3>4, <3>5, MovedKeepsTokens, Zenon
        <3>7. HandInv'
            <4>1. ASSUME NEW v \in Workers, pc'[v] = "park", NEW x \in Tokens(cur_task_[v])'
                  PROVE  x = <<"fail", v>> \/ x[1] = "wake"
                <5>1. PICK s : s = cur_task_[v]
                    OBVIOUS
                <5>2. x \in Tokens(s)'
                    BY <1>1, <5>1, Zenon DEF Tokens, Token
                <5>3. v # w
                    BY <1>3, <2>1, <5>1, <5>2 DEF Moved
                <5>4. pc[v] = "park" /\ "park" \in Running
                    BY <1>11, <4>1, <5>3 DEF OthersStay, Running
                <5>5. s \in Tasks /\ s # t
                    BY <1>3, <5>1, <5>3, <5>4, InHandIs, HeldByOne, Zenon
                <5>6. x \in Tokens(s)
                    BY <2>1, <5>2, <5>5, Zenon DEF Moved
                <5> QED
                    BY <5>1, <5>4, <5>6, Zenon DEF IInv, HandInv
            <4> QED
                BY <1>1, <4>1, Zenon DEF IInv, HandInv
        <3> QED
            BY <3>3, <3>6, <3>7, Zenon
    <2>2. CASE pc' = [pc EXCEPT ![w] = "pushback"] /\ block_count_'[t] = 0 /\ Unmoved
        <3>1. PICK X : X = Tokens(t)
            OBVIOUS
        <3>2. Moved(t, X) /\ X = {<<"hand", w>>}
            BY <1>9, <2>2, <3>1, UnmovedMoved, OnlyToken, Zenon
        <3>3. RouteInv'
            BY <1>1, <1>15, <2>2, UnmovedKeepsRoutes, Zenon
        <3>4. TokensOk(X, co'[t], block_count_'[t]) /\ X # {}
            BY <1>7, <2>2, <3>2 DEF TokensOk
        <3>5. TokenInv' /\ (AwakeInv => AwakeInv')
            BY <1>17, <3>2, <3>4, MovedKeepsTokens, Zenon
        <3>6. pc'[w] # "park"
            BY <1>2, <2>2 DEF PollTypes
        <3>7. HandsKept
            BY <1>1, <1>11, <3>6, Zenon DEF HandsKept, OthersStay
        <3> QED
            BY <2>2, <3>3, <3>5, <3>7, UnmovedKeepsHands, Zenon
    <2> QED
        BY <1>9, <2>1, <2>2, Zenon
<1> QED
    BY <1>11, <1>13, <1>14, <1>16, <1>18, Zenon DEF IInv

(* A subtask signals: its parent's count goes down by one.                  *)
LEMMA SignalCounts ==
    ASSUME IInv, Counts, NEW c \in Tasks, NEW t \in Tasks, t = ParentOf[c], c \notin signalled,
           c \notin FireAndForget \cup LongRunning,
           signalled' = signalled \cup {c}, waited' = waited, pending' = pending,
           block_count_' = [block_count_ EXCEPT ![t] = @ - 1]
    PROVE  BlockCountExact'
<1>1. block_count_ \in [Tasks -> Int] /\ signalled \in SUBSET Tasks
    BY TypesAre, Zenon DEF IInv, CoTypes
<1>2. ASSUME NEW s \in Tasks
      PROVE  block_count_'[s] = Cardinality(waited'[s] \cup pending'[s])
                                - Cardinality(Signalling(s) \cap signalled')
    <2>1. PICK n, A : n = Cardinality(waited[s] \cup pending[s]) /\ A = Signalling(s) \cap signalled
        BY Zenon
    <2>2. block_count_[s] = n - Cardinality(A)
        BY <2>1, Zenon DEF IInv, BlockCountExact
    <2>3. n = Cardinality(waited'[s] \cup pending'[s])
        BY <2>1, Zenon
    <2>4. CASE s = t
        <3>1. Signalling(s) \cap signalled' = A \cup {c} /\ c \notin A /\ A \in SUBSET Tasks
            BY <1>1, <2>1, <2>4 DEF Signalling
        <3>2. Cardinality(A) \in Nat
            BY <3>1, TaskSets
        <3>3. Cardinality(Signalling(s) \cap signalled') = Cardinality(A) + 1
            BY <3>1 DEF Counts
        <3>4. waited[s] \cup pending[s] \in SUBSET Tasks
            BY TypesAre DEF IInv, CoTypes
        <3>5. n \in Nat
            BY <2>1, <3>4, TaskSets
        <3>6. block_count_'[s] = block_count_[s] - 1
            BY <1>1, <2>4
        <3>7. (n - Cardinality(A)) - 1 = n - (Cardinality(A) + 1)
            BY <3>2, <3>5
        <3> QED
            BY <2>2, <2>3, <3>3, <3>6, <3>7, Zenon
    <2>5. CASE s # t
        <3>1. Signalling(s) \cap signalled' = A
            BY <2>1, <2>5 DEF Signalling
        <3>2. block_count_'[s] = block_count_[s]
            BY <1>1, <2>5
        <3> QED
            BY <2>2, <2>3, <3>1, <3>2, Zenon
    <2> QED
        BY <2>4, <2>5, Zenon
<1> QED
    BY <1>2, Zenon DEF BlockCountExact, Signalling

(* SignalUnblock keeps the invariant: the signal that brings block_count_   *)
(* to zero is the one that makes the token of the parent.                   *)
LEMMA SignalUnblockKeeps ==
    ASSUME NEW w \in Workers, IInv, Counts, SignalUnblock(w)
    PROVE  IInv'
<1>1. /\ ingress' = ingress /\ fail' = fail /\ active_tasks_' = active_tasks_
      /\ active_lanes_' = active_lanes_ /\ count_' = count_ /\ route_lane_' = route_lane_
      /\ prio' = prio /\ iter' = iter /\ num' = num /\ cur_lane_' = cur_lane_ /\ left' = left
      /\ done_tasks' = done_tasks /\ cur_task_' = cur_task_ /\ created' = created
      /\ co' = co /\ pending' = pending /\ yields' = yields /\ waited' = waited
      /\ signalled' = signalled \cup {cur_task_[w]} /\ complete' = complete
      /\ pc[w] = "signal"
    BY DEF SignalUnblock, lanes, poll
<1>2. pc[w] \in Running /\ CoTypes /\ PollTypes /\ pc[w] # "park"
    BY <1>1, TypesAre DEF IInv, Running
<1>3. PICK c \in Tasks : c = cur_task_[w]
    BY <1>2, InHandIs, Zenon
<1>4. co[c] = "ended" /\ c \notin signalled /\ c \notin FireAndForget \cup LongRunning
    BY <1>1, <1>3 DEF IInv, CoInv, TaskOk
<1>5. PICK t \in Tasks :
        /\ t = ParentOf[c] /\ pc[w] = "signal"
        /\ block_count_' = [block_count_ EXCEPT ![t] = @ - 1]
        /\ \/ /\ block_count_[t] = 1 /\ pc' = [pc EXCEPT ![w] = "wake"]
              /\ Tokens(t) = {} /\ Moved(t, {<<"wake", w>>})
           \/ block_count_[t] # 1 /\ pc' = [pc EXCEPT ![w] = "complete"] /\ Unmoved
    BY <1>3, SignalMoves, Zenon
<1>6. /\ block_count_' \in [Tasks -> Int] /\ block_count_'[t] = block_count_[t] - 1
      /\ \A s \in Tasks : s # t => block_count_'[s] = block_count_[s]
      /\ signalled' \in SUBSET Tasks /\ block_count_[t] \in Int
    BY <1>1, <1>2, <1>3, <1>5 DEF CoTypes
<1>7. CoTypes'
    BY <1>1, <1>2, <1>6, Zenon DEF CoTypes
<1>8. PICK q \in {"wake", "complete"} : pc' = [pc EXCEPT ![w] = q]
    BY <1>5
<1>9. /\ TypeOK' /\ WorkerInv' /\ SnapshotInv' /\ CountInv' /\ RequestInv' /\ QueuesInv'
      /\ RoutesKept /\ OthersStay(w) /\ pc'[w] = q
    <2>1. q \in Running
        BY DEF Running
    <2> QED
        BY <1>1, <1>2, <1>7, <1>8, <2>1, StepInHand, Zenon
<1>10. BlockCountExact'
    BY <1>1, <1>3, <1>4, <1>5, SignalCounts, Zenon
<1>11. CoInv'
    <2>1. TaskOk(w)'
        BY <1>1, <1>3, <1>4, <1>5, <1>9, SchedAssumption, Zenon DEF TaskOk
    <2>2. ASSUME NEW v \in Workers, v # w, cur_task_[v] # Null
          PROVE  cur_task_[v] \in signalled' => cur_task_[v] \in signalled
        <3>1. cur_task_[v] # c
            BY <1>3, <2>2, HeldByOne, Zenon
        <3> QED
            BY <1>1, <1>3, <3>1, Zenon
    <2>3. \A v \in Workers : TaskOk(v)'
        BY <1>1, <1>9, <2>1, <2>2, TasksKept, Zenon
    <2>4. \A s \in signalled' : co'[s] = "ended"
        BY <1>1, <1>3, <1>4, Zenon DEF IInv, CoInv
    <2> QED
        BY <1>1, <2>3, <2>4, Zenon DEF IInv, CoInv, Signalling
<1>12. (CoversInv => CoversInv') /\ (DoneInv => DoneInv')
    <2>1. CoversInv => CoversInv'
        BY <1>1, Zenon DEF CoversInv, Spawned, Signalling
    <2>2. DoneInv => DoneInv'
        BY <1>1 DEF DoneInv
    <2> QED
        BY <2>1, <2>2, Zenon
<1>13. \A s \in Tasks : s # t => co'[s] = co[s] /\ block_count_'[s] = block_count_[s]
    BY <1>1, <1>6, Zenon
<1>14. HandsKept
    <2>1. pc'[w] # "park"
        BY <1>9
    <2> QED
        BY <1>1, <1>9, <2>1, Zenon DEF HandsKept, OthersStay
<1>15. TokensOk(Tokens(t), co[t], block_count_[t])
    BY TokenInvIs, Zenon DEF IInv
<1>16. CASE block_count_[t] = 1 /\ Tokens(t) = {} /\ Moved(t, {<<"wake", w>>})
    <2>1. co[t] = "wait"
        BY <1>15, <1>16 DEF TokensOk
    <2>2. TokensOk({<<"wake", w>>}, co'[t], block_count_'[t])
        <3>1. co'[t] = "wait" /\ block_count_'[t] = 0
            BY <1>1, <1>6, <1>16, <2>1
        <3> QED
            BY <3>1 DEF TokensOk
    <2>3. {<<"wake", w>>} # {}
        BY Zenon
    <2>4. TokenInv' /\ (AwakeInv => AwakeInv')
        BY <1>13, <1>16, <2>2, <2>3, MovedKeepsTokens, Zenon
    <2>5. RouteInv'
        <3>1. \A l \in Lanes : <<"lane", l>> \notin {<<"wake", w>>}
            BY TagsDiffer, Zenon
        <3>2. /\ \A d \in Tasks : co'[d] = "new" \/ co[d] # "new"
              /\ \A s \in Tasks : s # t => route_lane_'[s] = route_lane_[s]
            BY <1>1, Zenon
        <3> QED
            BY <1>9, <1>16, <3>1, <3>2, MovedKeepsRoutes, Zenon
    <2>6. HandInv'
        <3>1. \A v : ParkOk({<<"wake", w>>}, v)
            BY DEF ParkOk
        <3> QED
            BY <1>14, <1>16, <3>1, MovedKeepsHands, Zenon
    <2> QED
        BY <1>9, <1>10, <1>11, <1>12, <2>4, <2>5, <2>6, Zenon DEF IInv
<1>17. CASE block_count_[t] # 1 /\ Unmoved
    <2>1. PICK X : X = Tokens(t)
        OBVIOUS
    <2>2. Moved(t, X)
        BY <1>17, <2>1, UnmovedMoved, Zenon
    <2>3. block_count_'[t] > 0 <=> block_count_[t] > 0
        BY <1>6, <1>17
    <2>4. TokensOk(X, co'[t], block_count_'[t])
        BY <1>1, <1>15, <2>1, <2>3, Zenon DEF TokensOk
    <2>5. AwakeInv => (co'[t] \in {"ready", "wait"} => X # {} \/ block_count_'[t] > 0)
        BY <1>1, <2>1, <2>3, Zenon DEF AwakeInv
    <2>6. TokenInv' /\ (AwakeInv => AwakeInv')
        BY <1>13, <2>2, <2>4, <2>5, MovedKeepsTokens, Zenon
    <2>7. RouteInv' /\ HandInv'
        BY <1>1, <1>14, <1>17, UnmovedKeepsRoutes, UnmovedKeepsHands, Zenon
    <2> QED
        BY <1>9, <1>10, <1>11, <1>12, <2>6, <2>7, Zenon DEF IInv
<1> QED
    BY <1>5, <1>16, <1>17, Zenon

(* Whom HandInv is about after a step.                                      *)
LEMMA HandsAfter ==
    ASSUME \A v, w \in Workers : cur_task_'[v] = cur_task_'[w] /\ cur_task_'[v] # Null => v = w,
           \A v \in Workers : pc'[v] = "park" =>
                \E s \in Tasks : s = cur_task_'[v] /\ ParkOk(Tokens(s)', v)
    PROVE  HandInv'
<1>1. ASSUME NEW v \in Workers, pc'[v] = "park", NEW x \in Tokens(cur_task_[v])'
      PROVE  x = <<"fail", v>> \/ x[1] = "wake"
    <2>1. PICK s \in Tasks : s = cur_task_'[v] /\ ParkOk(Tokens(s)', v)
        BY <1>1, Zenon
    <2>2. x \in Tokens(s)'
        BY <2>1, Zenon DEF Tokens, Token
    <2> QED
        BY <2>1, <2>2, Zenon DEF ParkOk
<1> QED
    BY <1>1, Zenon DEF HandInv

(* A Wait is over only when all it names, and all spawned, have signalled.  *)
LEMMA WaitIsOver ==
    ASSUME IInv, Counts, NEW t \in Tasks, CoversInv, DoneInv, co[t] \in {"ready", "wait"}, ~(block_count_[t] > 0)
    PROVE  waited[t] \cup pending[t] \subseteq signalled
<1>1. CASE co[t] = "ready"
    BY <1>1 DEF IInv, CoInv, DoneInv
<1>2. CASE co[t] = "wait"
    <2>1. PICK A, B : A = waited[t] \cup pending[t] /\ B = Signalling(t) \cap signalled
        BY Zenon
    <2>2. A \in SUBSET Tasks /\ block_count_[t] \in Int
        BY <2>1, TypesAre DEF IInv, CoTypes
    <2>3. B \in SUBSET A
        BY <1>2, <2>1, SignalledSpawned DEF CoversInv
    <2>4. block_count_[t] = Cardinality(A) - Cardinality(B)
        BY <2>1, Zenon DEF IInv, BlockCountExact
    <2>5. Cardinality(A) \in Nat /\ Cardinality(B) \in Nat
        BY <2>2, <2>3, TaskSets
    <2>6. Cardinality(B) <= Cardinality(A) /\ (Cardinality(A) = Cardinality(B) => A = B)
        BY <2>2, <2>3, CountPart, Zenon
    <2>7. A = B
        BY <2>2, <2>4, <2>5, <2>6
    <2> QED
        BY <2>1, <2>7
<1> QED
    BY <1>1, <1>2

(* RunTask keeps the invariant: a task that was waiting goes on when all    *)
(* its subtasks have signalled.                                             *)
LEMMA RunTaskKeeps ==
    ASSUME NEW w \in Workers, IInv, Counts, RunTask(w)
    PROVE  IInv'
<1>1. PICK t \in Tasks, l \in Lanes :
        /\ l = cur_lane_[w] /\ <<"lane", l>> \in Tokens(t) /\ Moved(t, {<<"hand", w>>})
        /\ active_tasks_' \in [Lanes -> Seq(Tasks)] /\ \A m \in Lanes : Single(active_tasks_'[m])
        /\ Len(active_tasks_[l]) \in Nat \ {0} /\ Len(active_tasks_'[l]) = Len(active_tasks_[l]) - 1
        /\ \A m \in Lanes : m # l => active_tasks_'[m] = active_tasks_[m]
        /\ pc' = [pc EXCEPT ![w] = "run"] /\ cur_task_' = [cur_task_ EXCEPT ![w] = t]
        /\ co' = [co EXCEPT ![t] = "ready"]
        /\ waited' = [waited EXCEPT ![t] = @ \cup pending[t]]
        /\ pending' = [pending EXCEPT ![t] = {}]
        /\ UNCHANGED done_tasks
    BY RunTaskMoves, Zenon
<1>2. /\ ingress' = ingress /\ fail' = fail
      /\ active_lanes_' = active_lanes_ /\ count_' = count_ /\ route_lane_' = route_lane_
      /\ prio' = prio /\ iter' = iter /\ num' = num /\ cur_lane_' = cur_lane_ /\ created' = created
      /\ block_count_' = block_count_ /\ yields' = yields /\ signalled' = signalled
      /\ complete' = complete /\ left[w] > 0 /\ left' = [left EXCEPT ![w] = @ - 1]
      /\ pc[w] = "lane" /\ done_tasks' = done_tasks
    BY <1>1 DEF RunTask
<1>3. CoTypes /\ PollTypes
    BY TypesAre, Zenon DEF IInv
<1>4. /\ pc'[w] = "run" /\ cur_task_'[w] = t
      /\ \A v \in Workers : v # w => pc'[v] = pc[v] /\ cur_task_'[v] = cur_task_[v]
      /\ pc' \in [Workers -> PCs] /\ cur_task_' \in [Workers -> Tasks \cup {Null}]
      /\ left' \in [Workers -> Nat]
    BY <1>1, <1>2, <1>3 DEF PollTypes, PCs
<1>5. PollTypes'
    BY <1>2, <1>3, <1>4, Zenon DEF PollTypes
<1>6. /\ co' \in [Tasks -> {"new", "ready", "wait", "ended"}] /\ co'[t] = "ready"
      /\ \A s \in Tasks : s # t => co'[s] = co[s]
      /\ pending' \in [Tasks -> SUBSET Tasks] /\ pending'[t] = {}
      /\ \A s \in Tasks : s # t => pending'[s] = pending[s]
      /\ waited' \in [Tasks -> SUBSET Tasks] /\ waited'[t] = waited[t] \cup pending[t]
      /\ \A s \in Tasks : s # t => waited'[s] = waited[s]
    BY <1>1, <1>3 DEF CoTypes
<1>7. CoTypes'
    BY <1>2, <1>3, <1>6, Zenon DEF CoTypes
<1>8. co[t] \in {"ready", "wait"} /\ ~(block_count_[t] > 0) /\ co[t] # "new"
    <2>1. <<"lane", l>>[1] \in Queued
        BY DEF Queued
    <2> QED
        BY <1>1, <2>1, QueuedOk, Zenon
<1>9. t \notin signalled
    BY <1>8, Zenon DEF IInv, CoInv
<1>10. \A v \in Workers : cur_task_[v] # t
    <2>1. ASSUME NEW v \in Workers, cur_task_[v] = t PROVE FALSE
        <3>1. At(t, {<<"lane", l>>})
            BY <1>1, OnlyToken, Zenon
        <3>2. ~Holds(v, t)
            BY <3>1, TagsDiffer, Zenon DEF At
        <3>3. pc[v] = "park"
            BY <2>1, <3>2, Zenon DEF Holds
        <3>4. <<"lane", l>> = <<"fail", v>> \/ <<"lane", l>>[1] = "wake"
            BY <1>1, <2>1, <3>3, Zenon DEF IInv, HandInv
        <3> QED
            BY <3>4
    <2> QED
        BY <2>1, Zenon
<1>11. route_lane_[t] = l /\ t # Null /\ l # Null
    <2>1. In(active_tasks_[l], t)
        BY <1>1, TokensAre, Zenon
    <2> QED
        BY <2>1, SchedAssumption DEF IInv, RouteInv
<1>12. HandStep(w)
    <2>1. pc[w] \in Running \cup {"lane"} /\ pc'[w] \in Running \cup {"lane"} /\ pc'[w] \in Running
        BY <1>2, <1>4, Zenon DEF Running
    <2> QED
        BY <1>1, <1>2, <1>4, <1>5, <1>7, <1>11, <2>1, Zenon DEF HandStep
<1>13. /\ TypeOK' /\ WorkerInv' /\ SnapshotInv' /\ RequestInv' /\ QueuesInv'
       /\ OthersStay(w) /\ RoutesKept
    BY <1>12, HandStepKeeps, Zenon
<1>14. CountInv'
    <2>1. cur_task_[w] = Null
        BY <1>2, Zenon DEF IInv, WorkerInv, WorkerOk, Running
    <2>2. InHand(w) = 0 /\ InHand(w)' = 1 /\ done_tasks[w] \in Nat
        BY <1>3, <1>4, <1>11, <2>1, Zenon DEF InHand, PollTypes
    <2>3. Len(active_tasks_'[l]) + (done_tasks'[w] + InHand(w)')
            = Len(active_tasks_[l]) + (done_tasks[w] + InHand(w))
        <3>1. PICK n, d : n = Len(active_tasks_[l]) /\ d = done_tasks[w]
            BY Zenon
        <3>2. n \in Nat /\ d \in Nat /\ Len(active_tasks_'[l]) = n - 1 /\ done_tasks'[w] = d
            BY <1>1, <1>2, <2>2, <3>1, Zenon
        <3>3. (n - 1) + (d + 1) = n + (d + 0)
            BY <3>2
        <3> QED
            BY <2>2, <3>1, <3>2, <3>3, Zenon
    <2> QED
        BY <1>1, <1>2, <1>13, <2>3, CountsKept, Zenon
<1>15. CoInv'
    <2>1. TaskOk(w)'
        BY <1>4, <1>6, Zenon DEF TaskOk
    <2>2. ASSUME NEW v \in Workers, v # w, cur_task_[v] # Null
          PROVE  co'[cur_task_[v]] = co[cur_task_[v]]
        BY <1>6, <1>10, <2>2, HeldStarted, Zenon
    <2>3. \A v \in Workers : TaskOk(v)'
        BY <1>2, <1>13, <2>1, <2>2, TasksKept, Zenon
    <2>4. \A s \in Tasks : co'[s] # "wait" => pending'[s] = {}
        BY <1>6, Zenon DEF IInv, CoInv
    <2>5. \A s \in signalled' : co'[s] = "ended"
        <3>1. ASSUME NEW s \in signalled PROVE s \in Tasks /\ s # t /\ co[s] = "ended"
            BY <1>3, <1>9 DEF IInv, CoInv, CoTypes
        <3> QED
            BY <1>2, <1>6, <3>1, Zenon
    <2>6. ASSUME NEW s \in Tasks PROVE waited'[s] \cup pending'[s] \subseteq Signalling(s)
        <3>1. waited[s] \cup pending[s] \subseteq Signalling(s)
            BY Zenon DEF IInv, CoInv
        <3> QED
            BY <1>6, <3>1
    <2> QED
        BY <2>3, <2>4, <2>5, <2>6, Zenon DEF CoInv, Signalling
<1>16. BlockCountExact'
    <2>1. ASSUME NEW s \in Tasks PROVE waited'[s] \cup pending'[s] = waited[s] \cup pending[s]
        BY <1>6
    <2> QED
        BY <1>2, <2>1, Zenon DEF IInv, BlockCountExact, Signalling
<1>17. TokenInv' /\ (AwakeInv => AwakeInv')
    <2>1. TokensOk({<<"hand", w>>}, co'[t], block_count_'[t]) /\ {<<"hand", w>>} # {}
        BY <1>2, <1>6, <1>8 DEF TokensOk
    <2>2. \A s \in Tasks : s # t => co'[s] = co[s] /\ block_count_'[s] = block_count_[s]
        BY <1>2, <1>6, Zenon
    <2> QED
        BY <1>1, <2>1, <2>2, MovedKeepsTokens, Zenon
<1>18. RouteInv'
    <2>1. \A m \in Lanes : <<"lane", m>> \notin {<<"hand", w>>}
        BY TagsDiffer, Zenon
    <2>2. /\ \A d \in Tasks : co'[d] = "new" \/ co[d] # "new"
          /\ \A s \in Tasks : s # t => route_lane_'[s] = route_lane_[s]
        BY <1>2, <1>6, <1>8, Zenon
    <2> QED
        BY <1>1, <1>13, <2>1, <2>2, MovedKeepsRoutes, Zenon
<1>19. HandInv'
    <2>1. \A u, v \in Workers : cur_task_'[u] = cur_task_'[v] /\ cur_task_'[u] # Null => u = v
        <3>1. ASSUME NEW u \in Workers, NEW v \in Workers, cur_task_'[u] = cur_task_'[v], cur_task_'[u] # Null
              PROVE  u = v
            <4>1. CASE u = w \/ v = w
                BY <1>4, <1>10, <3>1, <4>1, Zenon
            <4>2. CASE u # w /\ v # w
                <5>1. cur_task_[u] = cur_task_[v] /\ cur_task_[u] # Null
                    BY <1>4, <3>1, <4>2, Zenon
                <5> QED
                    BY <5>1, Zenon DEF IInv, HandInv
            <4> QED
                BY <4>1, <4>2, Zenon
        <3> QED
            BY <3>1, Zenon
    <2>2. ASSUME NEW v \in Workers, pc'[v] = "park"
          PROVE  \E s \in Tasks : s = cur_task_'[v] /\ ParkOk(Tokens(s)', v)
        <3>1. v # w
            BY <1>4, <2>2
        <3>2. pc[v] = "park" /\ "park" \in Running /\ cur_task_'[v] = cur_task_[v]
            BY <1>4, <2>2, <3>1 DEF Running
        <3>3. PICK s \in Tasks : s = cur_task_[v] /\ s # t
            BY <1>10, <3>2, InHandIs, Zenon
        <3>4. Tokens(s)' = Tokens(s)
            BY <1>1, <3>3, Zenon DEF Moved
        <3>5. ParkOk(Tokens(s), v)
            BY <3>2, <3>3, Zenon DEF IInv, HandInv, ParkOk
        <3> QED
            BY <3>2, <3>3, <3>4, <3>5, Zenon
    <2> QED
        BY <2>1, <2>2, HandsAfter, Zenon
<1>20. (CoversInv => CoversInv') /\ (CoversInv /\ DoneInv => DoneInv')
    <2>1. \A s \in Tasks : Spawned(s)' = Spawned(s)
        BY <1>6, <1>8 DEF Spawned, Signalling
    <2>2. CoversInv => CoversInv'
        <3>1. ASSUME NEW s \in Tasks, co'[s] = "wait" PROVE s # t
            BY <1>6, <3>1
        <3> QED
            BY <1>6, <2>1, <3>1, Zenon DEF CoversInv
    <2>3. CoversInv /\ DoneInv => DoneInv'
        <3>1. CoversInv /\ DoneInv => waited'[t] \subseteq signalled
            BY <1>6, <1>8, WaitIsOver, Zenon
        <3> QED
            BY <1>2, <1>6, <3>1, Zenon DEF DoneInv
    <2> QED
        BY <2>2, <2>3, Zenon
<1> QED
    BY <1>13, <1>14, <1>15, <1>16, <1>17, <1>18, <1>19, <1>20, Zenon DEF IInv
-----------------------------------------------------------------------------
(* A step of w that starts or ends the polling of a lane.                   *)
LEMMA LaneStepKeeps ==
    ASSUME NEW w \in Workers, IInv, PollTypes', LaneTypes', CountInv', RequestInv',
           ingress' = ingress, fail' = fail, active_tasks_' = active_tasks_,
           route_lane_' = route_lane_, cur_task_' = cur_task_, UNCHANGED coroutines,
           OthersStay(w), WorkerOk(w)', SnapshotOk(w)',
           \A v \in Workers : v # w => active_lanes_'[v] = active_lanes_[v],
           pc[w] \in {"poll", "lane"}, pc'[w] \in {"poll", "lane"}
    PROVE  IInv'
<1>1. QueueTypes' /\ QueuesInv'
    BY QueuesStay, Zenon
<1>2. RoutesKept
    BY Zenon DEF RoutesKept
<1>3. /\ CoTypes' /\ BlockCountExact'
      /\ block_count_' = block_count_ /\ co' = co /\ pending' = pending /\ waited' = waited
      /\ signalled' = signalled
      /\ (CoversInv => CoversInv') /\ (DoneInv => DoneInv')
    BY CoroutinesStay, Zenon
<1>4. TypeOK'
    BY <1>1, <1>3, TypesAfter, Zenon
<1>5. WorkerInv'
    BY <1>2, WorkersKept, Zenon
<1>6. SnapshotInv'
    <2>1. QueuesGrow(w)
        <3>1. ASSUME NEW v \in Workers, v # w
              PROVE  /\ Len(fail'[v]) >= Len(fail[v])
                     /\ \A k \in Prios : Len(active_lanes_'[v][k]) >= Len(active_lanes_[v][k])
            BY <3>1, LengthsAre DEF IInv
        <3> QED
            BY <3>1, Zenon DEF QueuesGrow
    <2> QED
        BY <1>4, <2>1, SnapshotsKept, Zenon
<1>7. pc[w] \notin {"park", "wake"} /\ pc'[w] \notin {"park", "wake"} /\ pc'[w] # "park"
    OBVIOUS
<1>8. Unmoved
    BY <1>7, PcUnmoved, Zenon DEF OthersStay
<1>9. TokenInv' /\ (AwakeInv => AwakeInv')
    BY <1>3, <1>8, UnmovedKeepsTokens, Zenon
<1>10. RouteInv' /\ HandInv'
    <2>1. HandsKept
        BY <1>7, Zenon DEF HandsKept, OthersStay
    <2> QED
        BY <1>3, <1>8, <2>1, UnmovedKeepsRoutes, UnmovedKeepsHands, Zenon
<1>11. CoInv'
    <2>1. TaskOk(w)'
        BY DEF TaskOk
    <2>2. \A v \in Workers : TaskOk(v)'
        BY <1>3, <2>1, TasksKept, Zenon
    <2> QED
        BY <1>3, <2>2, Zenon DEF IInv, CoInv, Signalling
<1> QED
    BY <1>1, <1>3, <1>4, <1>5, <1>6, <1>9, <1>10, <1>11, Zenon DEF IInv

(* PollLane keeps the invariant: the request of the lane is taken, and the  *)
(* lane is in hand.                                                         *)
LEMMA PollLaneKeeps ==
    ASSUME NEW w \in Workers, IInv, PollLane(w)
    PROVE  IInv'
<1>1. PICK k, q : k = prio[w] /\ q = active_lanes_[w][k]
    BY Zenon
<1>2. PICK l : l = Head(q)
    BY Zenon
<1>3. /\ ingress' = ingress /\ fail' = fail /\ active_tasks_' = active_tasks_ /\ count_' = count_
      /\ prio' = prio /\ iter' = iter /\ cur_task_' = cur_task_ /\ created' = created
      /\ route_lane_' = route_lane_ /\ UNCHANGED coroutines
      /\ pc[w] = "poll" /\ num[w] > 0 /\ num' = [num EXCEPT ![w] = @ - 1]
      /\ cur_lane_' = [cur_lane_ EXCEPT ![w] = l] /\ left' = [left EXCEPT ![w] = count_[l]]
      /\ active_lanes_' = [active_lanes_ EXCEPT ![w][k] = Tail(q)]
      /\ done_tasks' = [done_tasks EXCEPT ![w] = 0] /\ pc' = [pc EXCEPT ![w] = "lane"]
    BY <1>1, <1>2 DEF PollLane
<1>4. PollTypes /\ LaneTypes /\ active_lanes_ \in [Workers -> [Prios -> Seq(Lanes)]]
    BY TypesAre, Zenon DEF IInv, LaneTypes, Prios
<1>5. k \in Prios /\ q \in Seq(Lanes) /\ Len(q) \in Nat /\ num[w] \in Nat
    BY <1>1, LengthsAre, Zenon DEF IInv
<1>6. num[w] <= Len(q) /\ q # <<>>
    <2>1. num[w] <= Len(q)
        BY <1>1, <1>3, Zenon DEF IInv, SnapshotInv, SnapshotOk
    <2> QED
        BY <1>3, <1>5, <2>1
<1>7. Single(q) /\ \A m \in Lanes : In(q, m) <=> HasWork(w, k, m)
    BY <1>1, <1>5, Zenon DEF IInv, RequestInv
<1>8. /\ l \in Lanes /\ Tail(q) \in Seq(Lanes) /\ Len(Tail(q)) = Len(q) - 1 /\ In(q, l)
      /\ Single(Tail(q)) /\ \A m : In(Tail(q), m) <=> In(q, m) /\ m # l
    BY <1>2, <1>5, <1>6, <1>7, TailIn
<1>9. WorkerOf[l] = w /\ PrioOf[l] = k
    BY <1>7, <1>8, Zenon DEF HasWork
<1>10. cur_lane_[w] = Null /\ cur_task_[w] = Null
    BY <1>3 DEF IInv, WorkerInv, WorkerOk, Running
<1>11. /\ pc'[w] = "lane" /\ cur_lane_'[w] = l /\ num'[w] = num[w] - 1 /\ done_tasks'[w] = 0
       /\ \A v \in Workers : v # w => /\ pc'[v] = pc[v] /\ cur_lane_'[v] = cur_lane_[v]
                                      /\ num'[v] = num[v] /\ done_tasks'[v] = done_tasks[v]
       /\ pc' \in [Workers -> PCs] /\ cur_lane_' \in [Workers -> Lanes \cup {Null}]
       /\ num' \in [Workers -> Nat] /\ done_tasks' \in [Workers -> Nat] /\ left' \in [Workers -> Nat]
    <2>1. pc \in [Workers -> PCs] /\ cur_lane_ \in [Workers -> Lanes \cup {Null}] /\ "lane" \in PCs
        BY <1>4 DEF PollTypes, PCs
    <2>2. /\ num \in [Workers -> Nat] /\ done_tasks \in [Workers -> Nat] /\ left \in [Workers -> Nat]
          /\ count_[l] \in Nat
        BY <1>4, <1>8, Zenon DEF PollTypes, LaneTypes
    <2>3. num[w] - 1 \in Nat
        BY <1>3, <1>5
    <2>4. /\ pc'[w] = "lane" /\ pc' \in [Workers -> PCs]
          /\ \A v \in Workers : v # w => pc'[v] = pc[v]
        BY <1>3, <2>1
    <2>5. /\ cur_lane_'[w] = l /\ cur_lane_' \in [Workers -> Lanes \cup {Null}]
          /\ \A v \in Workers : v # w => cur_lane_'[v] = cur_lane_[v]
        BY <1>3, <1>8, <2>1
    <2>6. /\ num'[w] = num[w] - 1 /\ num' \in [Workers -> Nat]
          /\ \A v \in Workers : v # w => num'[v] = num[v]
        BY <1>3, <2>2, <2>3
    <2>7. /\ done_tasks'[w] = 0 /\ done_tasks' \in [Workers -> Nat] /\ left' \in [Workers -> Nat]
          /\ \A v \in Workers : v # w => done_tasks'[v] = done_tasks[v]
        BY <1>3, <2>2
    <2> QED
        BY <2>4, <2>5, <2>6, <2>7, Zenon
<1>12. PollTypes'
    BY <1>3, <1>4, <1>11, Zenon DEF PollTypes
<1>13. /\ active_lanes_'[w][k] = Tail(q)
       /\ \A v \in Workers, j \in Prios :
            v # w \/ j # k => active_lanes_'[v][j] = active_lanes_[v][j]
       /\ \A v \in Workers : v # w => active_lanes_'[v] = active_lanes_[v]
       /\ active_lanes_' \in [Workers -> [Prios -> Seq(Lanes)]]
    BY <1>3, <1>4, <1>5, <1>8
<1>14. LaneTypes'
    BY <1>3, <1>4, <1>13, Zenon DEF LaneTypes, Prios
<1>15. OthersStay(w)
    BY <1>3, <1>11, Zenon DEF OthersStay
<1>16. WorkerOk(w)'
    <2>1. pc'[w] \notin Running /\ pc'[w] \in Running \cup {"lane"} /\ l # Null
        BY <1>8, <1>11, SchedAssumption DEF Running
    <2> QED
        BY <1>1, <1>3, <1>9, <1>10, <1>11, <2>1, Zenon DEF WorkerOk
<1>17. SnapshotOk(w)'
    <2>1. num'[w] = num[w] - 1 /\ Len(active_lanes_'[w][k]) = Len(q) - 1
        BY <1>8, <1>11, <1>13, Zenon
    <2>2. num'[w] <= Len(active_lanes_'[w][k])
        BY <1>5, <1>6, <2>1
    <2> QED
        BY <1>1, <1>3, <1>11, <2>2 DEF SnapshotOk
<1>18. CountInv'
    <2>1. ASSUME NEW m \in Lanes PROVE More(m)' = More(m)
        <3>1. CASE WorkerOf[m] = w
            <4>1. InHand(w)' = 0 /\ m # Null
                BY <1>3, <1>10, SchedAssumption DEF InHand
            <4>2. done_tasks'[w] + InHand(w)' = 0
                BY <1>11, <4>1
            <4>3. More(m)' = 0
                BY <3>1, <4>2, Zenon DEF More
            <4>4. More(m) = 0
                BY <1>10, <3>1, <4>1, Zenon DEF More
            <4> QED
                BY <4>3, <4>4, Zenon
        <3>2. CASE WorkerOf[m] # w
            <4>1. WorkerOf[m] \in Workers
                BY SchedAssumption
            <4> QED
                BY <1>3, <1>11, <3>2, <4>1, Zenon DEF More, InHand
        <3> QED
            BY <3>1, <3>2, Zenon
    <2> QED
        BY <1>3, <2>1, CountInvIs, Zenon DEF IInv
<1>19. RequestInv'
    <2>1. \A v \in Workers, j \in Prios : Single(active_lanes_'[v][j])
        BY <1>8, <1>13, Zenon DEF IInv, RequestInv
    <2>2. ASSUME NEW v \in Workers, NEW j \in Prios, NEW m \in Lanes
          PROVE  In(active_lanes_'[v][j], m) <=> HasWork(v, j, m)'
        <3>1. In(active_lanes_[v][j], m) <=> HasWork(v, j, m)
            BY Zenon DEF IInv, RequestInv
        <3>2. CASE m = l
            <4>1. ~HasWork(v, j, m)'
                BY <1>9, <1>11, <3>2, Zenon DEF HasWork
            <4>2. ~In(active_lanes_'[v][j], m)
                <5>1. CASE v = w /\ j = k
                    BY <1>8, <1>13, <3>2, <5>1, Zenon
                <5>2. CASE v # w \/ j # k
                    BY <1>9, <1>13, <3>1, <3>2, <5>2, Zenon DEF HasWork
                <5> QED
                    BY <5>1, <5>2, Zenon
            <4> QED
                BY <4>1, <4>2, Zenon
        <3>3. CASE m # l
            <4>1. HasWork(v, j, m)' <=> HasWork(v, j, m)
                <5>1. cur_lane_'[v] # m <=> cur_lane_[v] # m
                    <6>1. m # Null
                        BY SchedAssumption
                    <6> QED
                        BY <1>10, <1>11, <3>3, <6>1, Zenon
                <5> QED
                    BY <1>3, <5>1, Zenon DEF HasWork
            <4>2. In(active_lanes_'[v][j], m) <=> In(active_lanes_[v][j], m)
                BY <1>1, <1>8, <1>13, <3>3, Zenon
            <4> QED
                BY <3>1, <4>1, <4>2, Zenon
        <3> QED
            BY <3>2, <3>3, Zenon
    <2> QED
        BY <2>1, <2>2, Zenon DEF RequestInv
<1>20. pc[w] \in {"poll", "lane"} /\ pc'[w] \in {"poll", "lane"}
    BY <1>3, <1>11
<1> QED
    BY <1>3, <1>12, <1>13, <1>14, <1>15, <1>16, <1>17, <1>18, <1>19, <1>20, LaneStepKeeps, Zenon

(* EndLane keeps the invariant: the count goes down by the tasks that are   *)
(* done with, and a lane with tasks is requested again.                     *)
LEMMA EndLaneKeeps ==
    ASSUME NEW w \in Workers, IInv, EndLane(w)
    PROVE  IInv'
<1>1. PICK k, q : k = prio[w] /\ q = active_lanes_[w][k]
    BY Zenon
<1>2. PICK l, n : l = cur_lane_[w] /\ n = count_[l] - done_tasks[w]
    BY Zenon
<1>3. /\ ingress' = ingress /\ fail' = fail /\ active_tasks_' = active_tasks_
      /\ prio' = prio /\ iter' = iter /\ num' = num /\ cur_task_' = cur_task_ /\ created' = created
      /\ route_lane_' = route_lane_ /\ UNCHANGED coroutines /\ done_tasks' = done_tasks
      /\ pc[w] = "lane" /\ count_' = [count_ EXCEPT ![l] = n]
      /\ active_lanes_' = IF n > 0 THEN [active_lanes_ EXCEPT ![w][k] = Append(q, l)]
                          ELSE active_lanes_
      /\ cur_lane_' = [cur_lane_ EXCEPT ![w] = Null] /\ left' = [left EXCEPT ![w] = 0]
      /\ pc' = [pc EXCEPT ![w] = "poll"]
    BY <1>1, <1>2 DEF EndLane
<1>4. /\ PollTypes /\ LaneTypes /\ QueueTypes
      /\ active_lanes_ \in [Workers -> [Prios -> Seq(Lanes)]]
    BY TypesAre, Zenon DEF IInv, LaneTypes, Prios
<1>5. k \in Prios /\ q \in Seq(Lanes) /\ Len(q) \in Nat /\ num[w] \in Nat
    BY <1>1, LengthsAre, Zenon DEF IInv
<1>6. cur_task_[w] = Null /\ l # Null /\ WorkerOf[l] = w /\ PrioOf[l] = k /\ l \in Lanes
    <2>1. WorkerOk(w) /\ cur_lane_[w] \in Lanes \cup {Null}
        BY <1>4, Zenon DEF IInv, WorkerInv, PollTypes
    <2>2. pc[w] \notin Running /\ pc[w] \in Running \cup {"lane"}
        BY <1>3 DEF Running
    <2>3. cur_task_[w] = Null /\ l # Null /\ WorkerOf[l] = w /\ PrioOf[l] = k
        BY <1>1, <1>2, <2>1, <2>2, Zenon DEF WorkerOk
    <2> QED
        BY <1>2, <2>1, <2>3, Zenon
<1>7. n = Len(active_tasks_[l]) /\ n \in Nat
    <2>1. count_[l] = Len(active_tasks_[l]) + (done_tasks[w] + InHand(w))
        BY <1>2, <1>6, Zenon DEF IInv, CountInv
    <2>2. InHand(w) = 0 /\ done_tasks[w] \in Nat /\ active_tasks_[l] \in Seq(Tasks)
        BY <1>4, <1>6, Zenon DEF InHand, PollTypes, QueueTypes
    <2> QED
        BY <1>2, <2>1, <2>2
<1>8. num[w] <= Len(q)
    BY <1>1, <1>3, Zenon DEF IInv, SnapshotInv, SnapshotOk
<1>9. Single(q) /\ \A m \in Lanes : In(q, m) <=> HasWork(w, k, m)
    BY <1>1, <1>5, Zenon DEF IInv, RequestInv
<1>10. ~In(q, l)
    BY <1>2, <1>6, <1>9, Zenon DEF HasWork
<1>11. PICK r : r = IF n > 0 THEN Append(q, l) ELSE q
    BY Zenon
<1>12. /\ r \in Seq(Lanes) /\ Len(r) >= Len(q) /\ Len(r) \in Nat /\ Single(r)
       /\ \A m : In(r, m) <=> In(q, m) \/ (m = l /\ n > 0)
    <2>1. /\ Append(q, l) \in Seq(Lanes) /\ Len(Append(q, l)) = Len(q) + 1 /\ Single(Append(q, l))
          /\ \A m : In(Append(q, l), m) <=> In(q, m) \/ m = l
        BY <1>5, <1>6, <1>9, <1>10, AppendIn
    <2>2. CASE n > 0
        <3>1. r = Append(q, l)
            BY <1>11, <2>2, Zenon
        <3>2. Len(r) >= Len(q) /\ Len(r) \in Nat
            BY <1>5, <2>1, <3>1
        <3> QED
            BY <2>1, <2>2, <3>1, <3>2, Zenon
    <2>3. CASE ~(n > 0)
        <3>1. r = q
            BY <1>11, <2>3, Zenon
        <3>2. Len(r) >= Len(q)
            BY <1>5, <3>1
        <3> QED
            BY <1>5, <1>9, <2>3, <3>1, <3>2, Zenon
    <2> QED
        BY <2>2, <2>3, Zenon
<1>13. /\ active_lanes_'[w][k] = r
       /\ \A v \in Workers, j \in Prios :
            v # w \/ j # k => active_lanes_'[v][j] = active_lanes_[v][j]
       /\ \A v \in Workers : v # w => active_lanes_'[v] = active_lanes_[v]
       /\ active_lanes_' \in [Workers -> [Prios -> Seq(Lanes)]]
    <2>1. CASE n > 0
        <3>1. r = Append(q, l) /\ active_lanes_' = [active_lanes_ EXCEPT ![w][k] = r]
            BY <1>3, <1>11, <2>1, Zenon
        <3> QED
            BY <1>4, <1>5, <1>12, <3>1
    <2>2. CASE ~(n > 0)
        BY <1>1, <1>3, <1>4, <1>11, <2>2, Zenon
    <2> QED
        BY <2>1, <2>2, Zenon
<1>14. /\ pc'[w] = "poll" /\ cur_lane_'[w] = Null /\ count_'[l] = n
       /\ \A v \in Workers : v # w => pc'[v] = pc[v] /\ cur_lane_'[v] = cur_lane_[v]
       /\ \A m \in Lanes : m # l => count_'[m] = count_[m]
       /\ pc' \in [Workers -> PCs] /\ cur_lane_' \in [Workers -> Lanes \cup {Null}]
       /\ left' \in [Workers -> Nat] /\ count_' \in [Lanes -> Nat]
    BY <1>3, <1>4, <1>6, <1>7, Zenon DEF PollTypes, LaneTypes, PCs
<1>15. PollTypes'
    BY <1>3, <1>4, <1>14, Zenon DEF PollTypes
<1>16. LaneTypes'
    BY <1>3, <1>4, <1>13, <1>14, Zenon DEF LaneTypes, Prios
<1>17. OthersStay(w)
    BY <1>3, <1>14, Zenon DEF OthersStay
<1>18. WorkerOk(w)'
    <2>1. pc'[w] \notin Running /\ pc'[w] \notin Running \cup {"lane"}
        BY <1>14 DEF Running
    <2> QED
        BY <1>3, <1>6, <1>14, <2>1, Zenon DEF WorkerOk
<1>19. SnapshotOk(w)'
    <2>1. num'[w] <= Len(active_lanes_'[w][k])
        BY <1>3, <1>5, <1>8, <1>12, <1>13
    <2> QED
        BY <1>1, <1>3, <1>14, <2>1 DEF SnapshotOk
<1>20. CountInv'
    <2>1. ASSUME NEW m \in Lanes PROVE count_'[m] = Len(active_tasks_'[m]) + More(m)'
        <3>1. WorkerOf[m] = w => More(m)' = 0
            <4>1. m # Null
                BY SchedAssumption
            <4> QED
                BY <1>14, <4>1, Zenon DEF More
        <3>2. CASE m = l
            BY <1>3, <1>6, <1>7, <1>14, <3>1, <3>2
        <3>3. CASE m # l
            <4>1. count_[m] = Len(active_tasks_[m]) + More(m)
                BY CountInvIs, Zenon DEF IInv
            <4>2. More(m)' = More(m)
                <5>1. CASE WorkerOf[m] = w
                    BY <1>2, <3>1, <3>3, <5>1, Zenon DEF More
                <5>2. CASE WorkerOf[m] # w
                    <6>1. WorkerOf[m] \in Workers
                        BY SchedAssumption
                    <6> QED
                        BY <1>3, <1>14, <5>2, <6>1, Zenon DEF More, InHand
                <5> QED
                    BY <5>1, <5>2, Zenon
            <4> QED
                BY <1>3, <1>14, <3>3, <4>1, <4>2, Zenon
        <3> QED
            BY <3>2, <3>3, Zenon
    <2> QED
        BY <2>1, CountInvIs, Zenon
<1>21. RequestInv'
    <2>1. \A v \in Workers, j \in Prios : Single(active_lanes_'[v][j])
        BY <1>12, <1>13, Zenon DEF IInv, RequestInv
    <2>2. ASSUME NEW v \in Workers, NEW j \in Prios, NEW m \in Lanes
          PROVE  In(active_lanes_'[v][j], m) <=> HasWork(v, j, m)'
        <3>1. In(active_lanes_[v][j], m) <=> HasWork(v, j, m)
            BY Zenon DEF IInv, RequestInv
        <3>2. CASE m = l
            <4>1. CASE v = w /\ j = k
                BY <1>6, <1>10, <1>12, <1>13, <1>14, <3>2, <4>1, Zenon DEF HasWork
            <4>2. CASE v # w \/ j # k
                BY <1>6, <1>13, <3>1, <3>2, <4>2, Zenon DEF HasWork
            <4> QED
                BY <4>1, <4>2, Zenon
        <3>3. CASE m # l
            <4>1. HasWork(v, j, m)' <=> HasWork(v, j, m)
                <5>1. cur_lane_'[v] # m <=> cur_lane_[v] # m
                    <6>1. m # Null
                        BY SchedAssumption
                    <6> QED
                        BY <1>2, <1>14, <3>3, <6>1, Zenon
                <5> QED
                    BY <1>14, <3>3, <5>1, Zenon DEF HasWork
            <4>2. In(active_lanes_'[v][j], m) <=> In(active_lanes_[v][j], m)
                BY <1>1, <1>12, <1>13, <3>3, Zenon
            <4> QED
                BY <3>1, <4>1, <4>2, Zenon
        <3> QED
            BY <3>2, <3>3, Zenon
    <2> QED
        BY <2>1, <2>2, Zenon DEF RequestInv
<1>22. pc[w] \in {"poll", "lane"} /\ pc'[w] \in {"poll", "lane"}
    BY <1>3, <1>14
<1> QED
    BY <1>3, <1>13, <1>15, <1>16, <1>17, <1>18, <1>19, <1>20, <1>21, <1>22, LaneStepKeeps, Zenon
=============================================================================
