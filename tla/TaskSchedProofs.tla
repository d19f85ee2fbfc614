-------------------------- MODULE TaskSchedProofs --------------------------
(***************************************************************************)
(* The safety of TaskSched for any workers, lanes, tasks and task trees:    *)
(* the invariant of TaskSchedMoves holds at first and every step keeps it,  *)
(* and the properties follow from it.                                       *)
(***************************************************************************)
EXTENDS TaskSchedSteps, FiniteSetTheorems

(* No element, one element.                                                 *)
LEMMA CountSmall == Cardinality({}) = 0 /\ \A x : Cardinality({x}) = 1
    BY FS_EmptySet, FS_Singleton, Zenon

(* The tasks are finitely many, so that sets of tasks can be counted.       *)
LEMMA CountsHold == Counts
<1>1. ASSUME NEW S \in SUBSET Tasks PROVE IsFiniteSet(S) /\ Cardinality(S) \in Nat
    <2>1. IsFiniteSet(S)
        BY FS_Subset, SchedAssumption
    <2> QED
        BY <2>1, FS_CardinalityType
<1>2. ASSUME NEW S \in SUBSET Tasks, NEW x \in Tasks \ S
      PROVE  Cardinality(S \cup {x}) = Cardinality(S) + 1
    BY <1>1, <1>2, FS_AddElement
<1>3. ASSUME NEW S \in SUBSET Tasks, NEW A \in SUBSET S
      PROVE  Cardinality(A) <= Cardinality(S) /\ (Cardinality(A) = Cardinality(S) => A = S)
    BY <1>1, FS_Subset
<1>4. ASSUME NEW A \in SUBSET Tasks, NEW B \in SUBSET Tasks, A \cap B = {}
      PROVE  Cardinality(A \cup B) = Cardinality(A) + Cardinality(B)
    <2>1. Cardinality(A \cup B) = Cardinality(A) + Cardinality(B) - Cardinality(A \cap B)
        BY <1>1, FS_Union, Zenon
    <2> QED
        BY <1>1, <1>4, <2>1, CountSmall
<1> QED
    BY <1>1, <1>2, <1>3, <1>4, Zenon DEF Counts

(* What tasks and lanes are made of stays: the container is created, or     *)
(* nothing happens.                                                         *)
LEMMA NothingMoves ==
    ASSUME IInv, created' \in BOOLEAN, ingress' = ingress, fail' = fail,
           active_tasks_' = active_tasks_, active_lanes_' = active_lanes_, count_' = count_,
           route_lane_' = route_lane_, pc' = pc, prio' = prio, iter' = iter, num' = num,
           cur_lane_' = cur_lane_, left' = left, done_tasks' = done_tasks, cur_task_' = cur_task_,
           UNCHANGED coroutines
    PROVE  IInv'
<1>1. QueueTypes' /\ QueuesInv'
    BY QueuesStay, Zenon
<1>2. /\ CoTypes' /\ BlockCountExact'
      /\ block_count_' = block_count_ /\ co' = co /\ pending' = pending /\ waited' = waited
      /\ signalled' = signalled
      /\ (CoversInv => CoversInv') /\ (DoneInv => DoneInv')
    BY CoroutinesStay, Zenon
<1>3. TypeOK'
    <2>1. LaneTypes /\ PollTypes
        BY TypesAre, Zenon DEF IInv
    <2>2. LaneTypes' /\ PollTypes'
        BY <2>1, Zenon DEF LaneTypes, PollTypes
    <2> QED
        BY <1>1, <1>2, <2>2, TypesAfter, Zenon
<1>4. WorkerInv' /\ SnapshotInv'
    BY Zenon DEF IInv, WorkerInv, WorkerOk, SnapshotInv, SnapshotOk
<1>5. CountInv' /\ RequestInv'
    BY CountsStay, RequestsKept, Zenon
<1>6. Unmoved
    BY StaysUnmoved, Zenon DEF Holds, Wakes
<1>7. TokenInv' /\ (AwakeInv => AwakeInv')
    BY <1>2, <1>6, UnmovedKeepsTokens, Zenon
<1>8. RouteInv' /\ HandInv'
    <2>1. HandsKept
        BY Zenon DEF HandsKept
    <2> QED
        BY <1>2, <1>6, <2>1, UnmovedKeepsRoutes, UnmovedKeepsHands, Zenon
<1>9. CoInv'
    BY <1>2, Zenon DEF IInv, CoInv, TaskOk, Signalling
<1> QED
    BY <1>1, <1>2, <1>3, <1>4, <1>5, <1>7, <1>8, <1>9, Zenon DEF IInv

(* Every step keeps the invariant.                                          *)
LEMMA NextIInv == IInv /\ [Next]_vars => IInv'
<1> SUFFICES ASSUME IInv, [Next]_vars PROVE IInv'
    BY Zenon
<1>1. CASE CreateContainer
    <2>1. /\ created' \in BOOLEAN /\ ingress' = ingress /\ fail' = fail
          /\ active_tasks_' = active_tasks_ /\ active_lanes_' = active_lanes_ /\ count_' = count_
          /\ route_lane_' = route_lane_ /\ pc' = pc /\ prio' = prio /\ iter' = iter /\ num' = num
          /\ cur_lane_' = cur_lane_ /\ left' = left /\ done_tasks' = done_tasks
          /\ cur_task_' = cur_task_ /\ UNCHANGED coroutines
        BY <1>1 DEF CreateContainer, lanes, poll
    <2> QED
        BY <2>1, NothingMoves, Zenon
<1>2. CASE UNCHANGED vars
    <2>1. /\ created' = created /\ ingress' = ingress /\ fail' = fail
          /\ active_tasks_' = active_tasks_ /\ active_lanes_' = active_lanes_ /\ count_' = count_
          /\ route_lane_' = route_lane_ /\ pc' = pc /\ prio' = prio /\ iter' = iter /\ num' = num
          /\ cur_lane_' = cur_lane_ /\ left' = left /\ done_tasks' = done_tasks
          /\ cur_task_' = cur_task_ /\ UNCHANGED coroutines
        BY <1>2 DEF vars, lanes, poll
    <2>2. created' \in BOOLEAN
        BY <2>1, Zenon DEF IInv, TypeOK
    <2> QED
        BY <2>1, <2>2, NothingMoves, Zenon
<1>3. ASSUME NEW t \in Tasks, NEW w \in Workers, Submit(t, w) PROVE IInv'
    BY <1>3, SubmitKeeps, Zenon
<1>4. ASSUME NEW w \in Workers, WorkerStep(w) PROVE IInv'
    <2>1. ASSUME Coroutine(w) PROVE IInv'
        <3>1. ASSUME NEW c \in Tasks, Spawn(w, c) PROVE IInv'
            BY <3>1, SpawnKeeps, Zenon
        <3>2. ASSUME NEW S \in SUBSET Tasks, Wait(w, S) PROVE IInv'
            BY <3>2, CountsHold, WaitKeeps, Zenon
        <3> QED
            BY <2>1, <3>1, <3>2, YieldKeeps, ReturnKeeps, Zenon DEF Coroutine
    <2>2. ASSUME \/ IngestLane(w) \/ EndIngest(w) \/ PollLane(w) \/ RunTask(w) \/ EndLane(w)
          PROVE  IInv'
        BY <2>2, CountsHold, IngestKeeps, EndIngestKeeps, PollLaneKeeps, RunTaskKeeps, EndLaneKeeps, Zenon
    <2>3. ASSUME \/ Park(w) \/ PushBack(w) \/ SignalUnblock(w) \/ Wake(w) \/ SetComplete(w)
          PROVE  IInv'
        BY <2>3, CountsHold, ParkKeeps, PushBackKeeps, SignalUnblockKeeps, WakeKeeps, SetCompleteKeeps, Zenon
    <2>4. ASSUME \/ EndPoll(w) \/ PollFail(w) \/ EndPass(w)
          PROVE  IInv'
        BY <2>4, EndPollKeeps, PollFailKeeps, EndPassKeeps, Zenon
    <2> QED
        BY <1>4, <2>1, <2>2, <2>3, <2>4, Zenon DEF WorkerStep
<1> QED
    BY <1>1, <1>2, <1>3, <1>4, Zenon DEF Next

(* The invariant holds when the runtime starts.                             *)
LEMMA InitIInv == Init => IInv
<1> SUFFICES ASSUME Init PROVE IInv
    BY Zenon
<1>1. TypeOK
    <2>1. <<>> \in Seq(Tasks) /\ <<>> \in Seq(Lanes) /\ 0 \in 0..(Inner - 1) /\ 0 \in 0..MaxYields
        BY SchedAssumption
    <2>2. QueueTypes
        BY <2>1 DEF Init, QueueTypes
    <2>3. LaneTypes
        BY <2>1 DEF Init, LaneTypes
    <2>4. PollTypes
        BY <2>1, Zenon DEF Init, PollTypes, PCs
    <2>5. CoTypes
        BY <2>1 DEF Init, CoTypes
    <2> QED
        BY <2>2, <2>3, <2>4, <2>5, TypesAre, Zenon
<1>2. \A w \in Workers : /\ ingress[w] = <<>> /\ fail[w] = <<>> /\ pc[w] = "ingest" /\ num[w] = 0
                         /\ cur_lane_[w] = Null /\ cur_task_[w] = Null
                         /\ \A k \in Prios : active_lanes_[w][k] = <<>>
    BY DEF Init, Prios
<1>3. \A l \in Lanes : active_tasks_[l] = <<>> /\ count_[l] = 0
    BY DEF Init
<1>4. /\ \A t \in Tasks : /\ route_lane_[t] = Null /\ block_count_[t] = 0 /\ co[t] = "new"
                          /\ pending[t] = {} /\ waited[t] = {}
      /\ signalled = {}
    BY DEF Init
<1>5. WorkerInv /\ SnapshotInv
    BY <1>2 DEF WorkerInv, WorkerOk, SnapshotInv, SnapshotOk, Running
<1>6. QueuesInv
    BY <1>2, <1>3, EmptyIn, Zenon DEF QueuesInv
<1>7. RouteInv
    BY <1>3, <1>4, EmptyIn, Zenon DEF RouteInv
<1>8. CountInv
    <2>1. ASSUME NEW l \in Lanes PROVE count_[l] = Len(active_tasks_[l]) + More(l)
        <3>1. WorkerOf[l] \in Workers /\ l # Null
            BY SchedAssumption
        <3>2. More(l) = 0
            BY <1>2, <3>1, Zenon DEF More
        <3> QED
            BY <1>3, <3>2
    <2> QED
        BY <2>1, CountInvIs, Zenon
<1>9. RequestInv
    <2>1. \A w \in Workers, k \in Prios, l \in Lanes : ~HasWork(w, k, l)
        BY <1>3 DEF HasWork
    <2> QED
        BY <1>2, <2>1, EmptyIn, Zenon DEF RequestInv
<1>10. CoInv
    BY <1>2, <1>4 DEF CoInv, TaskOk
<1>11. ASSUME NEW t \in Tasks PROVE Tokens(t) = {}
    <2>1. t # Null
        BY SchedAssumption
    <2>2. ASSUME NEW x \in Tokens(t) PROVE FALSE
        <3>1. x \in Tags
            BY TokensAre, Zenon
        <3>2. \A w \in Workers : pc[w] # "wake"
            BY <1>2
        <3>3. \A w \in Workers : /\ <<"ingress", w>> \notin Tokens(t) /\ <<"fail", w>> \notin Tokens(t)
                                 /\ <<"hand", w>> \notin Tokens(t) /\ <<"wake", w>> \notin Tokens(t)
            <4> TAKE w \in Workers
            <4>1. ~In(ingress[w], t) /\ ~In(fail[w], t) /\ cur_task_[w] # t
                BY <1>2, <2>1, EmptyIn, Zenon
            <4> QED
                BY <3>2, <4>1, TokensAre, Zenon
        <3>4. \A l \in Lanes : <<"lane", l>> \notin Tokens(t)
            <4> TAKE l \in Lanes
            <4>1. ~In(active_tasks_[l], t)
                BY <1>3, EmptyIn, Zenon
            <4> QED
                BY <4>1, TokensAre, Zenon
        <3> QED
            BY <2>2, <3>1, <3>3, <3>4, TagsAre, Zenon
    <2> QED
        BY <2>2
<1>12. TokenInv
    <2>1. ASSUME NEW t \in Tasks PROVE TokensOk(Tokens(t), co[t], block_count_[t])
        BY <1>4, <1>11 DEF TokensOk
    <2> QED
        BY <2>1, TokenInvIs, Zenon
<1>13. HandInv
    BY <1>2 DEF HandInv
<1>14. BlockCountExact
    <2>1. ASSUME NEW t \in Tasks
          PROVE  block_count_[t] = Cardinality(waited[t] \cup pending[t])
                                    - Cardinality(Signalling(t) \cap signalled)
        <3>1. waited[t] \cup pending[t] = {} /\ Signalling(t) \cap signalled = {}
            BY <1>4
        <3> QED
            BY <1>4, <3>1, CountSmall
    <2> QED
        BY <2>1, Zenon DEF BlockCountExact
<1>15. CoversInv /\ DoneInv /\ AwakeInv
    BY <1>4 DEF CoversInv, DoneInv, AwakeInv
<1> QED
    BY <1>1, <1>5, <1>6, <1>7, <1>8, <1>9, <1>10, <1>12, <1>13, <1>14, <1>15, Zenon DEF IInv
-----------------------------------------------------------------------------
(* The invariant holds in every reachable state, for any number of workers, *)
(* lanes and tasks and whichever tasks are subtasks of which: each task that *)
(* Worker::Run, the lanes and the fail queues pass around has one token.    *)
THEOREM AlwaysIInv == Spec => []IInv
    BY InitIInv, NextIInv, PTL DEF Spec

(* The state has its types: block_count_ stays an integer, positions stay   *)
(* in their ranges, queues hold tasks and lanes.                            *)
THEOREM TypeCorrect == Spec => []TypeOK
<1>1. IInv => TypeOK
    BY Zenon DEF IInv
<1> QED
    BY <1>1, AlwaysIInv, PTL

(* block_count_ is always the number of subtasks waited for less the number *)
(* of those that have signalled: SetBlocked and SignalUnblock lose no       *)
(* update, whichever subtasks a Wait names.                                 *)
THEOREM BlocksAreExact == Spec => []BlockCountExact
<1>1. IInv => BlockCountExact
    BY Zenon DEF IInv
<1> QED
    BY <1>1, AlwaysIInv, PTL

(* A slot of a queue that holds t.                                          *)
LEMMA InQueueIs ==
    ASSUME NEW tag, NEW q, NEW t, NEW p \in InQueue(tag, q, t)
    PROVE  p[1] = tag /\ In(q, t)
    BY DEF InQueue, In

(* A queue without repetition holds t in one slot at most.                  *)
LEMMA InQueueOnce ==
    ASSUME NEW tag, NEW q, NEW t, Single(q),
           NEW p \in InQueue(tag, q, t), NEW r \in InQueue(tag, q, t)
    PROVE  p = r
    BY DEF InQueue, Single

(* A queue with t in it has a slot that holds t.                            *)
LEMMA InInQueue ==
    ASSUME NEW tag, NEW q, NEW t, In(q, t)
    PROVE  InQueue(tag, q, t) # {}
    BY Zenon DEF InQueue, In

(* The queue that a tag of a slot names.                                    *)
QueueOf(x) ==
    CASE x[1] = "ingress" -> ingress[x[2]]
      [] x[1] = "fail" -> fail[x[2]]
      [] x[1] = "lane" -> active_tasks_[x[2]]
QueueTags == ({"ingress", "fail"} \X Workers) \cup ({"lane"} \X Lanes)

(* The slots that hold t are slots of an ingress lane, a fail queue or a    *)
(* lane.                                                                    *)
LEMMA PlacesAre ==
    ASSUME NEW t
    PROVE  \A p : p \in Places(t) <=> \E x \in QueueTags : p \in InQueue(x, QueueOf(x), t)
<1>1. /\ \A w \in Workers : /\ QueueOf(<<"ingress", w>>) = ingress[w]
                            /\ QueueOf(<<"fail", w>>) = fail[w]
      /\ \A l \in Lanes : QueueOf(<<"lane", l>>) = active_tasks_[l]
    BY DEF QueueOf
<1>2. \A p : p \in Places(t) <=>
           \/ \E w \in Workers : p \in InQueue(<<"ingress", w>>, ingress[w], t)
           \/ \E w \in Workers : p \in InQueue(<<"fail", w>>, fail[w], t)
           \/ \E l \in Lanes : p \in InQueue(<<"lane", l>>, active_tasks_[l], t)
    BY Zenon DEF Places
<1>3. /\ \A x \in QueueTags : \/ \E w \in Workers : x = <<"ingress", w>> \/ x = <<"fail", w>>
                             \/ \E l \in Lanes : x = <<"lane", l>>
      /\ \A w \in Workers : <<"ingress", w>> \in QueueTags /\ <<"fail", w>> \in QueueTags
      /\ \A l \in Lanes : <<"lane", l>> \in QueueTags
    BY DEF QueueTags
<1>4. ASSUME NEW p \in Places(t)
      PROVE  \E x \in QueueTags : p \in InQueue(x, QueueOf(x), t)
    <2>1. ASSUME NEW w \in Workers, p \in InQueue(<<"ingress", w>>, ingress[w], t)
          PROVE  \E x \in QueueTags : p \in InQueue(x, QueueOf(x), t)
        BY <1>1, <1>3, <2>1, Zenon
    <2>2. ASSUME NEW w \in Workers, p \in InQueue(<<"fail", w>>, fail[w], t)
          PROVE  \E x \in QueueTags : p \in InQueue(x, QueueOf(x), t)
        BY <1>1, <1>3, <2>2, Zenon
    <2>3. ASSUME NEW l \in Lanes, p \in InQueue(<<"lane", l>>, active_tasks_[l], t)
          PROVE  \E x \in QueueTags : p \in InQueue(x, QueueOf(x), t)
        BY <1>1, <1>3, <2>3, Zenon
    <2> QED
        BY <1>2, <2>1, <2>2, <2>3, Zenon
<1>5. ASSUME NEW p, NEW x \in QueueTags, p \in InQueue(x, QueueOf(x), t)
      PROVE  p \in Places(t)
    <2>1. CASE \E w \in Workers : x = <<"ingress", w>> \/ x = <<"fail", w>>
        BY <1>1, <1>2, <1>5, <2>1, Zenon
    <2>2. CASE \E l \in Lanes : x = <<"lane", l>>
        BY <1>1, <1>2, <1>5, <2>2, Zenon
    <2> QED
        BY <1>3, <2>1, <2>2, Zenon
<1> QED
    BY <1>4, <1>5, Zenon

(* A queue that holds t is a token of t.                                    *)
LEMMA QueueTokens ==
    ASSUME NEW t, NEW x \in QueueTags
    PROVE  x \in Tokens(t) <=> In(QueueOf(x), t)
<1>1. x \in Tags /\ x[1] \in {"ingress", "fail", "lane"}
    BY DEF QueueTags, Tags
<1> QED
    BY <1>1, Zenon DEF Tokens, Token, QueueOf

(* The slots that hold t are its tokens, each once.                         *)
LEMMA PlacesTokens ==
    ASSUME IInv, NEW t \in Tasks, NEW p \in Places(t)
    PROVE  /\ p[1] \in Tokens(t)
           /\ p[1][1] # "wake" /\ \A w : p[1] # <<"hand", w>>
           /\ \A r \in Places(t) : p[1] = r[1] => p = r
<1>1. PICK x \in QueueTags : p \in InQueue(x, QueueOf(x), t)
    BY PlacesAre, Zenon
<1>2. p[1] = x /\ In(QueueOf(x), t)
    BY <1>1, InQueueIs, Zenon
<1>3. Single(QueueOf(x))
    <2>1. \A w \in Workers : Single(ingress[w]) /\ Single(fail[w])
        BY Zenon DEF IInv, QueuesInv
    <2>2. \A l \in Lanes : Single(active_tasks_[l])
        BY Zenon DEF IInv, QueuesInv
    <2> QED
        BY <2>1, <2>2 DEF QueueTags, QueueOf
<1>4. ASSUME NEW r \in Places(t), p[1] = r[1] PROVE p = r
    <2>1. PICK y \in QueueTags : r \in InQueue(y, QueueOf(y), t)
        BY PlacesAre, Zenon
    <2>2. y = x
        BY <1>2, <1>4, <2>1, InQueueIs, Zenon
    <2> QED
        BY <1>1, <1>3, <2>1, <2>2, InQueueOnce, Zenon
<1>5. p[1][1] # "wake" /\ \A w : p[1] # <<"hand", w>>
    BY <1>2 DEF QueueTags
<1> QED
    BY <1>2, <1>4, <1>5, QueueTokens, Zenon

(* A task stands in one queue slot at most and is held by one worker at     *)
(* most: no order of SetBlocked, SignalUnblock, the push of a wake-up and   *)
(* the yield lets two workers run one coroutine.                            *)
THEOREM PlacesAreSingle == Spec => []InOnePlace
<1>1. ASSUME IInv, NEW t \in Tasks PROVE Cardinality(Places(t)) <= 1
    <2>1. \A p, r \in Places(t) : p = r
        <3>1. \A x, y \in Tokens(t) : x = y
            BY <1>1, Zenon DEF IInv, TokenInv
        <3> QED
            BY <1>1, <3>1, PlacesTokens, Zenon
    <2>2. CASE Places(t) = {}
        BY <2>2, CountSmall
    <2>3. CASE Places(t) # {}
        <3>1. PICK p : Places(t) = {p}
            BY <2>1, <2>3
        <3> QED
            BY <3>1, CountSmall
    <2> QED
        BY <2>2, <2>3, Zenon
<1>2. ASSUME IInv, NEW t \in Tasks, NEW w \in Workers, cur_task_[w] = t
      PROVE  /\ \A v \in Workers \ {w} : cur_task_[v] # t
             /\ \A p \in Places(t) : pc[w] = "park" /\ p[1] = <<"fail", w>>
    <2>1. \A v \in Workers \ {w} : cur_task_[v] # t
        BY <1>2, HeldByOne
    <2>2. ASSUME NEW p \in Places(t) PROVE pc[w] = "park" /\ p[1] = <<"fail", w>>
        <3>1. p[1] \in Tokens(t) /\ p[1][1] # "wake" /\ p[1] # <<"hand", w>>
            BY <1>2, PlacesTokens, Zenon
        <3>2. pc[w] = "park"
            <4>1. pc[w] # "park" => <<"hand", w>> \in Tokens(t)
                BY <1>2, TokensAre, Zenon
            <4> QED
                BY <1>2, <3>1, <4>1, Zenon DEF IInv, TokenInv
        <3> QED
            BY <1>2, <3>1, <3>2, Zenon DEF IInv, HandInv
    <2> QED
        BY <2>1, <2>2, Zenon
<1>3. IInv => InOnePlace
    BY <1>1, <1>2, Zenon DEF InOnePlace
<1> QED
    BY <1>3, AlwaysIInv, PTL

(* The requests of w to poll l, one queue of requests per priority.         *)
Requests(w, l) == UNION {InQueue(k, active_lanes_[w][k], l) : k \in {"low", "high"}}

(* A lane is requested once at most, with its own priority, and it is if it *)
(* has tasks and is not being polled.                                       *)
LEMMA RequestsAre ==
    ASSUME IInv, NEW w \in Workers, NEW l \in Lanes
    PROVE  /\ \A r \in Requests(w, l) : r[1] = PrioOf[l] /\ HasWork(w, PrioOf[l], l)
           /\ \A r, s \in Requests(w, l) : r = s
           /\ HasWork(w, PrioOf[l], l) => Requests(w, l) # {}
<1>1. PICK R : R = Requests(w, l)
    BY Zenon
<1>2. \A r : r \in R <=> \E k \in Prios : r \in InQueue(k, active_lanes_[w][k], l)
    BY <1>1 DEF Requests, Prios
<1>3. ASSUME NEW r \in R
      PROVE  /\ r \in InQueue(PrioOf[l], active_lanes_[w][PrioOf[l]], l)
             /\ r[1] = PrioOf[l] /\ HasWork(w, PrioOf[l], l)
    <2>1. PICK k \in Prios : r \in InQueue(k, active_lanes_[w][k], l)
        BY <1>2, Zenon
    <2>2. r[1] = k /\ In(active_lanes_[w][k], l)
        BY <2>1, InQueueIs, Zenon
    <2>3. HasWork(w, k, l)
        BY <2>2, Zenon DEF IInv, RequestInv
    <2>4. k = PrioOf[l]
        BY <2>3, Zenon DEF HasWork
    <2> QED
        BY <2>1, <2>2, <2>3, <2>4, Zenon
<1>4. ASSUME NEW r \in R, NEW s \in R PROVE r = s
    <2>1. PrioOf[l] \in Prios
        BY SchedAssumption DEF Prios
    <2>2. PICK k \in Prios : k = PrioOf[l] /\ r \in InQueue(k, active_lanes_[w][k], l)
        BY <1>3, <2>1, Zenon
    <2>3. s \in InQueue(k, active_lanes_[w][k], l)
        BY <1>3, <2>2, Zenon
    <2>4. Single(active_lanes_[w][k])
        BY Zenon DEF IInv, RequestInv
    <2> QED
        BY <2>2, <2>3, <2>4, InQueueOnce, Zenon
<1>5. ASSUME HasWork(w, PrioOf[l], l) PROVE R # {}
    <2>1. PrioOf[l] \in Prios
        BY SchedAssumption DEF Prios
    <2>2. PICK k \in Prios : k = PrioOf[l]
        BY <2>1, Zenon
    <2>3. In(active_lanes_[w][k], l)
        BY <1>5, <2>2, Zenon DEF IInv, RequestInv
    <2>4. PICK r : r \in InQueue(k, active_lanes_[w][k], l)
        BY <2>3, InInQueue, Zenon
    <2> QED
        BY <1>2, <2>4, Zenon
<1> QED
    BY <1>1, <1>3, <1>4, <1>5, Zenon

(* Lane::count_ is exact, RequestLane requests a lane with tasks exactly    *)
(* once, of its own worker, and ExecTask runs a task on the lane that it was *)
(* routed to.                                                               *)
THEOREM LanesAreActive == Spec => []LaneIsActive
<1>1. ASSUME IInv, NEW l \in Lanes, NEW w \in Workers
      PROVE  /\ WorkerOf[l] # w => cur_lane_[w] # l /\ Requests(w, l) = {}
             /\ WorkerOf[l] = w =>
                 /\ count_[l] = Len(active_tasks_[l])
                       + (IF cur_lane_[w] = l
                          THEN done_tasks[w] + (IF cur_task_[w] # Null THEN 1 ELSE 0) ELSE 0)
                 /\ Cardinality(Requests(w, l)) = IF count_[l] > 0 /\ cur_lane_[w] # l THEN 1 ELSE 0
                 /\ \A r \in Requests(w, l) : r[1] = PrioOf[l]
    <2>1. /\ \A r \in Requests(w, l) : r[1] = PrioOf[l] /\ HasWork(w, PrioOf[l], l)
          /\ \A r, s \in Requests(w, l) : r = s
          /\ HasWork(w, PrioOf[l], l) => Requests(w, l) # {}
        BY <1>1, RequestsAre, Zenon
    <2>2. WorkerOf[l] # w => cur_lane_[w] # l
        <3>1. l # Null
            BY SchedAssumption
        <3> QED
            BY <1>1, <3>1, Zenon DEF IInv, WorkerInv, WorkerOk
    <2>3. WorkerOf[l] # w => Requests(w, l) = {}
        BY <2>1, Zenon DEF HasWork
    <2>4. WorkerOf[l] = w =>
                 count_[l] = Len(active_tasks_[l])
                       + (IF cur_lane_[w] = l
                          THEN done_tasks[w] + (IF cur_task_[w] # Null THEN 1 ELSE 0) ELSE 0)
        BY <1>1, Zenon DEF IInv, CountInv, InHand
    <2>5. WorkerOf[l] = w =>
                 Cardinality(Requests(w, l)) = IF count_[l] > 0 /\ cur_lane_[w] # l THEN 1 ELSE 0
        <3> HAVE WorkerOf[l] = w
        <3>1. CASE count_[l] > 0 /\ cur_lane_[w] # l
            <4>1. Requests(w, l) # {}
                BY <2>1, <3>1, Zenon DEF HasWork
            <4>2. PICK r : Requests(w, l) = {r}
                BY <2>1, <4>1, Zenon
            <4> QED
                BY <3>1, <4>2, CountSmall
        <3>2. CASE ~(count_[l] > 0 /\ cur_lane_[w] # l)
            <4>1. Requests(w, l) = {}
                BY <2>1, <3>2, Zenon DEF HasWork
            <4> QED
                BY <3>2, <4>1, CountSmall
        <3> QED
            BY <3>1, <3>2, Zenon
    <2>6. \A r \in Requests(w, l) : r[1] = PrioOf[l]
        BY <2>1, Zenon
    <2> QED
        BY <2>2, <2>3, <2>4, <2>5, <2>6, Zenon
<1>2. ASSUME IInv, NEW w \in Workers, cur_task_[w] # Null
      PROVE  cur_lane_[w] = route_lane_[cur_task_[w]]
    BY <1>2, Zenon DEF IInv, WorkerInv, WorkerOk
<1>3. IInv => LaneIsActive
    BY <1>1, <1>2, Zenon DEF LaneIsActive, Requests
<1> QED
    BY <1>3, AlwaysIInv, PTL

(* Task::Wait returns after the subtasks it names have run to their end and *)
(* signalled, if callers wait for all the subtasks they have outstanding.   *)
THEOREM WaitsCoverSubtasks ==
    ASSUME WaitAll
    PROVE  Spec => []WaitCoversSubtasks
<1>1. IInv => WaitCoversSubtasks
    BY Zenon DEF IInv, DoneInv, CoInv, WaitCoversSubtasks
<1> QED
    BY <1>1, AlwaysIInv, PTL

(* A blocked task waits for a subtask that has not signalled yet.           *)
LEMMA BlockedOnOne ==
    ASSUME IInv, DoneInv, NEW t \in Tasks, block_count_[t] > 0
    PROVE  \E c \in pending[t] : c \notin signalled
<1> SUFFICES ASSUME \A c \in pending[t] : c \in signalled PROVE FALSE
    BY Zenon
<1>1. waited[t] \cup pending[t] \subseteq Signalling(t) \cap signalled
    BY Zenon DEF IInv, CoInv, DoneInv
<1>2. waited[t] \cup pending[t] \in SUBSET Tasks /\ Signalling(t) \cap signalled \in SUBSET Tasks
    BY <1>1 DEF Signalling
<1>3. Cardinality(waited[t] \cup pending[t]) <= Cardinality(Signalling(t) \cap signalled)
    BY <1>1, <1>2, CountsHold, CountPart, Zenon
<1>4. Cardinality(waited[t] \cup pending[t]) \in Nat /\ Cardinality(Signalling(t) \cap signalled) \in Nat
    BY <1>2, CountsHold, TaskSets, Zenon
<1>5. block_count_[t] = Cardinality(waited[t] \cup pending[t])
                         - Cardinality(Signalling(t) \cap signalled)
    BY Zenon DEF IInv, BlockCountExact
<1> QED
    BY <1>3, <1>4, <1>5

(* A token is a place in a queue, a worker that holds the task, or a worker *)
(* about to push it.                                                        *)
LEMMA TokenPlaces ==
    ASSUME NEW t \in Tasks, Tokens(t) # {}
    PROVE  \/ Places(t) # {}
           \/ \E w \in Workers : cur_task_[w] = t
           \/ \E w \in Workers : pc[w] = "wake" /\ ParentOf[cur_task_[w]] = t
<1>1. PICK x \in Tags : x \in Tokens(t)
    BY TokensAre, Zenon
<1>2. CASE x \in QueueTags
    <2>1. InQueue(x, QueueOf(x), t) # {}
        BY <1>1, <1>2, QueueTokens, InInQueue, Zenon
    <2> QED
        BY <1>2, <2>1, PlacesAre, Zenon
<1>3. CASE x \notin QueueTags
    <2>1. PICK w \in Workers : x = <<"hand", w>> \/ x = <<"wake", w>>
        BY <1>3 DEF Tags, QueueTags
    <2>2. CASE x = <<"hand", w>>
        BY <1>1, <2>2, TokensAre, Zenon
    <2>3. CASE x = <<"wake", w>>
        BY <1>1, <2>3, TokensAre, Zenon
    <2> QED
        BY <2>1, <2>2, <2>3, Zenon
<1> QED
    BY <1>2, <1>3, Zenon

(* No wake-up is lost, if callers wait for all the subtasks they have       *)
(* outstanding: a task that nobody holds and that is in no queue is to be   *)
(* pushed, or waits for a subtask that has still to signal.                 *)
THEOREM NoneStranded ==
    ASSUME WaitAll
    PROVE  Spec => []NeverStranded
<1>1. ASSUME IInv, NEW t \in Tasks, co[t] \notin {"new", "ended"}
      PROVE  \/ Places(t) # {}
             \/ \E w \in Workers : cur_task_[w] = t
             \/ co[t] = "wait" /\ block_count_[t] > 0 /\ \E c \in pending[t] : c \notin signalled
             \/ \E w \in Workers : pc[w] = "wake" /\ ParentOf[cur_task_[w]] = t
    <2>1. co[t] \in {"ready", "wait"}
        BY <1>1 DEF IInv, TypeOK
    <2>2. CASE Tokens(t) # {}
        BY <2>2, TokenPlaces, Zenon
    <2>3. CASE block_count_[t] > 0
        <3>1. co[t] = "wait"
            BY <1>1, <2>3, Zenon DEF IInv, TokenInv
        <3>2. DoneInv
            BY <1>1, Zenon DEF IInv
        <3> QED
            BY <1>1, <2>3, <3>1, <3>2, BlockedOnOne, Zenon
    <2> QED
        BY <1>1, <2>1, <2>2, <2>3, Zenon DEF IInv, AwakeInv
<1>2. IInv => NeverStranded
    BY <1>1, Zenon DEF NeverStranded
<1> QED
    BY <1>2, AlwaysIInv, PTL
=============================================================================
