--------------------------- MODULE TaskSchedMoves ---------------------------
(***************************************************************************)
(* The inductive invariant of TaskSched for any workers, lanes, tasks and   *)
(* task trees, and how a step moves tasks.                                  *)
(*                                                                          *)
(* A task runs because of one token: its place in a queue, a worker that    *)
(* has it in hand, or a worker that is about to push it.  A step moves the  *)
(* token of one task at most; a blocked task has none until the signal that *)
(* brings block_count_ to zero makes one.  The lemmas say where the token   *)
(* lands in each action, and what such a move keeps of the invariant.       *)
(***************************************************************************)
EXTENDS TaskSched, TLAPS

(* Membership in a queue, and a queue without repetition.                   *)
In(q, x) == \E i \in 1..Len(q) : q[i] = x
Single(q) == \A i, j \in 1..Len(q) : q[i] = q[j] => i = j

(* What makes a worker run a task sooner or later: its place in a queue, a  *)
(* worker that has it in hand and will not park it, a worker that is about  *)
(* to push it.                                                              *)
Tags == ({"ingress", "fail", "hand", "wake"} \X Workers) \cup ({"lane"} \X Lanes)
Token(x, t) ==
    CASE x[1] = "ingress" -> In(ingress[x[2]], t)
      [] x[1] = "fail" -> In(fail[x[2]], t)
      [] x[1] = "lane" -> In(active_tasks_[x[2]], t)
      [] x[1] = "hand" -> cur_task_[x[2]] = t /\ pc[x[2]] # "park"
      [] x[1] = "wake" -> pc[x[2]] = "wake" /\ ParentOf[cur_task_[x[2]]] = t
Tokens(t) == {x \in Tags : Token(x, t)}

Running == {"run", "park", "pushback", "signal", "wake", "complete"}

(* What worker w polls and runs, by where it is in Run.                     *)
WorkerOk(w) ==
    /\ cur_task_[w] # Null <=> pc[w] \in Running
    /\ cur_lane_[w] # Null <=> pc[w] \in Running \cup {"lane"}
    /\ cur_lane_[w] # Null => WorkerOf[cur_lane_[w]] = w /\ PrioOf[cur_lane_[w]] = prio[w]
    /\ cur_task_[w] # Null => route_lane_[cur_task_[w]] = cur_lane_[w]
WorkerInv == \A w \in Workers : WorkerOk(w)

(* The snapshots are no longer than the queues they were taken of.          *)
SnapshotOk(w) ==
    /\ pc[w] \in Running \cup {"poll", "lane"} => num[w] <= Len(active_lanes_[w][prio[w]])
    /\ pc[w] = "fail" => num[w] <= Len(fail[w])
SnapshotInv == \A w \in Workers : SnapshotOk(w)

RouteInv ==
    /\ \A l \in Lanes, t \in Tasks : In(active_tasks_[l], t) => route_lane_[t] = l
    /\ \A c \in Tasks :
        ParentOf[c] # Null /\ co[c] # "new" => route_lane_[ParentOf[c]] # Null

InHand(w) == IF cur_task_[w] # Null THEN 1 ELSE 0

(* count_ of a lane counts its tasks, the one in hand and those to subtract. *)
CountInv ==
    \A l \in Lanes :
        count_[l] = Len(active_tasks_[l])
                     + (IF cur_lane_[WorkerOf[l]] = l
                        THEN done_tasks[WorkerOf[l]] + InHand(WorkerOf[l]) ELSE 0)

Prios == {"low", "high"}

(* A lane is requested, once, when it has tasks and is not being polled.    *)
HasWork(w, k, l) == WorkerOf[l] = w /\ PrioOf[l] = k /\ count_[l] > 0 /\ cur_lane_[w] # l
RequestInv ==
    /\ \A w \in Workers, k \in Prios : Single(active_lanes_[w][k])
    /\ \A w \in Workers, k \in Prios, l \in Lanes :
        In(active_lanes_[w][k], l) <=> HasWork(w, k, l)

QueuesInv ==
    /\ \A w \in Workers : Single(ingress[w]) /\ Single(fail[w])
    /\ \A l \in Lanes : Single(active_tasks_[l])

(* How far the coroutine of the task in hand is, by where its worker is.    *)
TaskOk(w) ==
    LET t == cur_task_[w] IN
    /\ pc[w] = "run" => co[t] = "ready"
    /\ pc[w] = "park" => co[t] = "wait"
    /\ pc[w] = "pushback" => co[t] \in {"ready", "wait"}
    /\ pc[w] \in {"signal", "wake", "complete"} => co[t] = "ended"
    /\ pc[w] \in {"signal", "wake"} => ParentOf[t] # Null /\ t \notin FireAndForget \cup LongRunning
    /\ pc[w] = "signal" => t \notin signalled
CoInv ==
    /\ \A w \in Workers : TaskOk(w)
    /\ \A t \in Tasks : co[t] # "wait" => pending[t] = {}
    /\ \A t \in Tasks : waited[t] \cup pending[t] \subseteq Signalling(t)
    /\ \A t \in signalled : co[t] = "ended"

TokenInv ==
    \A t \in Tasks :
        /\ \A x, y \in Tokens(t) : x = y
        /\ co[t] = "new" => Tokens(t) = {}
        /\ block_count_[t] > 0 => co[t] = "wait" /\ Tokens(t) = {}
        /\ \A x \in Tokens(t) : x[1] \in {"ingress", "fail", "lane", "wake"} => co[t] \in {"ready", "wait"}

HandInv ==
    /\ \A v, w \in Workers : cur_task_[v] = cur_task_[w] /\ cur_task_[v] # Null => v = w
    /\ \A w \in Workers :
        pc[w] = "park" => \A x \in Tokens(cur_task_[w]) : x = <<"fail", w>> \/ x[1] = "wake"

Spawned(t) == {c \in Signalling(t) : co[c] # "new"}

(* If a Wait names all outstanding subtasks: it covers what was spawned, it *)
(* returns after all of them have signalled, and a task under way has a     *)
(* token or a subtask to wait for.                                          *)
CoversInv == \A t \in Tasks : co[t] = "wait" => Spawned(t) \subseteq waited[t] \cup pending[t]
DoneInv == \A t \in Tasks : waited[t] \subseteq signalled
AwakeInv == \A t \in Tasks : co[t] \in {"ready", "wait"} => Tokens(t) # {} \/ block_count_[t] > 0

IInv ==
    /\ TypeOK /\ WorkerInv /\ SnapshotInv /\ RouteInv /\ CountInv /\ RequestInv
    /\ QueuesInv /\ CoInv /\ TokenInv /\ HandInv /\ BlockCountExact
    /\ WaitAll => CoversInv /\ DoneInv /\ AwakeInv
-----------------------------------------------------------------------------
(* What Append and Tail do to a queue.                                      *)
LEMMA AppendIn ==
    ASSUME NEW S, NEW q \in Seq(S), NEW t \in S
    PROVE  /\ Append(q, t) \in Seq(S)
           /\ Len(Append(q, t)) = Len(q) + 1
           /\ \A s : In(Append(q, t), s) <=> In(q, s) \/ s = t
           /\ Single(q) /\ ~In(q, t) => Single(Append(q, t))
<1> DEFINE a == Append(q, t)
<1>1. /\ a \in Seq(S)
      /\ Len(a) = Len(q) + 1
      /\ Len(q) \in Nat
      /\ \A i \in 1..Len(q) : a[i] = q[i]
      /\ a[Len(q) + 1] = t
    OBVIOUS
<1>2. \A i \in 1..Len(a) : i \in 1..Len(q) \/ i = Len(q) + 1
    BY <1>1
<1>3. \A i \in 1..Len(q) : i \in 1..Len(a)
    BY <1>1
<1>4. Len(q) + 1 \in 1..Len(a)
    BY <1>1
<1> HIDE DEF a
<1>5. \A s : In(a, s) <=> In(q, s) \/ s = t
    BY <1>1, <1>2, <1>3, <1>4, Zenon DEF In
<1>6. ASSUME Single(q), ~In(q, t) PROVE Single(a)
    BY <1>1, <1>2, <1>6, Zenon DEF In, Single
<1> QED
    BY <1>1, <1>5, <1>6 DEF a

(* What a pop takes out of a queue, and what it leaves.                     *)
LEMMA TailIn ==
    ASSUME NEW S, NEW q \in Seq(S), q # <<>>
    PROVE  /\ Head(q) \in S /\ Tail(q) \in Seq(S)
           /\ Len(q) \in Nat \ {0} /\ Len(Tail(q)) = Len(q) - 1
           /\ In(q, Head(q))
           /\ Single(q) =>
                /\ Single(Tail(q))
                /\ \A s : In(Tail(q), s) <=> In(q, s) /\ s # Head(q)
<1> DEFINE r == Tail(q)
<1>1. /\ Head(q) \in S /\ Head(q) = q[1]
      /\ r \in Seq(S)
      /\ Len(q) \in Nat \ {0}
      /\ Len(r) = Len(q) - 1
      /\ \A i \in 1..Len(r) : r[i] = q[i + 1]
    OBVIOUS
<1>2. /\ 1 \in 1..Len(q)
      /\ \A i \in 1..Len(r) : i + 1 \in 1..Len(q) /\ i + 1 # 1
      /\ \A i \in 1..Len(q) : i = 1 \/ (i - 1 \in 1..Len(r) /\ (i - 1) + 1 = i)
      /\ \A i, j \in 1..Len(r) : i + 1 = j + 1 => i = j
    BY <1>1
<1> HIDE DEF r
<1>3. In(q, Head(q))
    BY <1>1, <1>2, Zenon DEF In
<1>4. ASSUME Single(q) PROVE Single(r)
    BY <1>1, <1>2, <1>4 DEF Single
<1>5. ASSUME Single(q), NEW s PROVE In(r, s) <=> In(q, s) /\ s # Head(q)
    <2>1. ASSUME In(r, s) PROVE In(q, s) /\ s # Head(q)
        <3>1. PICK i \in 1..Len(r) : r[i] = s
            BY <2>1, Zenon DEF In
        <3> QED
            BY <1>1, <1>2, <1>5, <3>1 DEF In, Single
    <2>2. ASSUME In(q, s), s # Head(q) PROVE In(r, s)
        <3>1. PICK i \in 1..Len(q) : q[i] = s
            BY <2>2, Zenon DEF In
        <3>2. i - 1 \in 1..Len(r) /\ r[i - 1] = s
            BY <1>1, <1>2, <2>2, <3>1
        <3> QED
            BY <3>2, Zenon DEF In
    <2> QED
        BY <2>1, <2>2, Zenon
<1> QED
    BY <1>1, <1>3, <1>4, <1>5 DEF r

(* An empty queue holds nothing.                                            *)
LEMMA EmptyIn == Single(<<>>) /\ \A s : ~In(<<>>, s)
    BY DEF Single, In
-----------------------------------------------------------------------------
(* The tokens of a task, one by one, before and after a step.               *)
LEMMA TokensAre ==
    ASSUME NEW t
    PROVE  /\ \A w \in Workers :
                /\ <<"ingress", w>> \in Tokens(t) <=> In(ingress[w], t)
                /\ <<"fail", w>> \in Tokens(t) <=> In(fail[w], t)
                /\ <<"hand", w>> \in Tokens(t) <=> cur_task_[w] = t /\ pc[w] # "park"
                /\ <<"wake", w>> \in Tokens(t) <=>
                    pc[w] = "wake" /\ ParentOf[cur_task_[w]] = t
           /\ \A l \in Lanes : <<"lane", l>> \in Tokens(t) <=> In(active_tasks_[l], t)
           /\ Tokens(t) \subseteq Tags
<1>1. \A w \in Workers : /\ <<"ingress", w>> \in Tags /\ <<"fail", w>> \in Tags
                         /\ <<"hand", w>> \in Tags /\ <<"wake", w>> \in Tags
    BY DEF Tags
<1>2. \A l \in Lanes : <<"lane", l>> \in Tags
    BY DEF Tags
<1> QED
    BY <1>1, <1>2, Zenon DEF Tokens, Token

(* The same after a step.                                                   *)
LEMMA TokensAfter ==
    ASSUME NEW t
    PROVE  /\ \A w \in Workers :
                /\ <<"ingress", w>> \in Tokens(t)' <=> In(ingress'[w], t)
                /\ <<"fail", w>> \in Tokens(t)' <=> In(fail'[w], t)
                /\ <<"hand", w>> \in Tokens(t)' <=> cur_task_'[w] = t /\ pc'[w] # "park"
                /\ <<"wake", w>> \in Tokens(t)' <=>
                    pc'[w] = "wake" /\ ParentOf[cur_task_'[w]] = t
           /\ \A l \in Lanes : <<"lane", l>> \in Tokens(t)' <=> In(active_tasks_'[l], t)
           /\ Tokens(t)' \subseteq Tags
<1>1. \A w \in Workers : /\ <<"ingress", w>> \in Tags /\ <<"fail", w>> \in Tags
                         /\ <<"hand", w>> \in Tags /\ <<"wake", w>> \in Tags
    BY DEF Tags
<1>2. \A l \in Lanes : <<"lane", l>> \in Tags
    BY DEF Tags
<1> QED
    BY <1>1, <1>2, Zenon DEF Tokens, Token

(* The kinds of token.                                                      *)
LEMMA TagsAre ==
    ASSUME NEW x \in Tags
    PROVE  \/ \E w \in Workers : x = <<"ingress", w>> \/ x = <<"fail", w>>
                                  \/ x = <<"hand", w>> \/ x = <<"wake", w>>
           \/ \E l \in Lanes : x = <<"lane", l>>
    BY DEF Tags

(* Tokens of two kinds, or of two workers or lanes, are two tokens.         *)
LEMMA TagsDiffer ==
    /\ \A v, w : /\ <<"fail", v>> = <<"fail", w>> <=> v = w
                 /\ <<"lane", v>> = <<"lane", w>> <=> v = w
                 /\ <<"hand", v>> = <<"hand", w>> <=> v = w
                 /\ <<"wake", v>> = <<"wake", w>> <=> v = w
                 /\ <<"ingress", v>> = <<"ingress", w>> <=> v = w
                 /\ <<"fail", v>> # <<"lane", w>> /\ <<"fail", v>> # <<"hand", w>>
                 /\ <<"fail", v>> # <<"wake", w>> /\ <<"fail", v>> # <<"ingress", w>>
                 /\ <<"lane", v>> # <<"hand", w>> /\ <<"lane", v>> # <<"wake", w>>
                 /\ <<"lane", v>> # <<"ingress", w>> /\ <<"hand", v>> # <<"wake", w>>
                 /\ <<"hand", v>> # <<"ingress", w>> /\ <<"wake", v>> # <<"ingress", w>>
    OBVIOUS

(* t has come to x, and the queues hold the other tasks that queues did.    *)
Landed(x, t, queues) ==
    /\ fail' \in [Workers -> Seq(Tasks)]
    /\ active_tasks_' \in [Lanes -> Seq(Tasks)]
    /\ \A v \in Workers :
        /\ Single(fail'[v])
        /\ Len(fail'[v]) >= Len(queues[v])
        /\ \A s \in Tasks : In(fail'[v], s) <=> In(queues[v], s) \/ (s = t /\ x = <<"fail", v>>)
    /\ \A l \in Lanes :
        /\ Single(active_tasks_'[l])
        /\ \A s \in Tasks :
            In(active_tasks_'[l], s) <=> In(active_tasks_[l], s) \/ (s = t /\ x = <<"lane", l>>)

(* A push to a fail queue lands there.                                      *)
LEMMA FailLands ==
    ASSUME NEW t \in Tasks, NEW u \in Workers, NEW queues \in [Workers -> Seq(Tasks)],
           \A v \in Workers : Single(queues[v]), ~In(queues[u], t),
           TypeOK, QueuesInv,
           fail' = [queues EXCEPT ![u] = Append(@, t)], UNCHANGED active_tasks_
    PROVE  Landed(<<"fail", u>>, t, queues)
<1>1. /\ active_tasks_ \in [Lanes -> Seq(Tasks)]
      /\ \A l \in Lanes : Single(active_tasks_[l])
    BY Zenon DEF TypeOK, QueuesInv
<1>2. fail'[u] = Append(queues[u], t) /\ \A v \in Workers \ {u} : fail'[v] = queues[v]
    OBVIOUS
<1>3. queues[u] \in Seq(Tasks) /\ \A v \in Workers : Len(queues[v]) \in Nat
    OBVIOUS
<1>4. /\ fail'[u] \in Seq(Tasks)
      /\ Len(fail'[u]) = Len(queues[u]) + 1
      /\ Single(fail'[u])
      /\ \A s \in Tasks : In(fail'[u], s) <=> In(queues[u], s) \/ s = t
    BY <1>2, <1>3, AppendIn, Zenon
<1>5. fail' \in [Workers -> Seq(Tasks)]
    BY <1>2, <1>4
<1>6. \A v \in Workers : Len(fail'[v]) >= Len(queues[v])
    BY <1>2, <1>3, <1>4
<1>7. ASSUME NEW v \in Workers
      PROVE  /\ Single(fail'[v])
             /\ \A s \in Tasks : In(fail'[v], s) <=>
                    In(queues[v], s) \/ (s = t /\ <<"fail", u>> = <<"fail", v>>)
    BY <1>2, <1>4, TagsDiffer, Zenon
<1>8. \A l \in Lanes, s \in Tasks : In(active_tasks_'[l], s) <=> In(active_tasks_[l], s)
    BY Zenon
<1> QED
    BY <1>1, <1>5, <1>6, <1>7, <1>8, TagsDiffer, Zenon DEF Landed

(* A push to a lane lands there.                                            *)
LEMMA LaneLands ==
    ASSUME NEW t \in Tasks, NEW l \in Lanes, NEW queues \in [Workers -> Seq(Tasks)],
           \A v \in Workers : Single(queues[v]), ~In(active_tasks_[l], t),
           TypeOK, QueuesInv,
           fail' = queues, active_tasks_' = [active_tasks_ EXCEPT ![l] = Append(@, t)]
    PROVE  Landed(<<"lane", l>>, t, queues)
<1>1. /\ active_tasks_ \in [Lanes -> Seq(Tasks)]
      /\ \A m \in Lanes : Single(active_tasks_[m])
    BY Zenon DEF TypeOK, QueuesInv
<1>2. /\ active_tasks_'[l] = Append(active_tasks_[l], t)
      /\ \A m \in Lanes \ {l} : active_tasks_'[m] = active_tasks_[m]
    BY <1>1
<1>3. active_tasks_[l] \in Seq(Tasks) /\ \A v \in Workers : Len(queues[v]) >= Len(queues[v])
    BY <1>1
<1> DEFINE a == Append(active_tasks_[l], t)
<1>4. /\ a \in Seq(Tasks)
      /\ Single(a)
      /\ \A s \in Tasks : In(a, s) <=> In(active_tasks_[l], s) \/ s = t
    BY <1>1, <1>3, AppendIn, Zenon
<1>5. /\ active_tasks_'[l] \in Seq(Tasks)
      /\ Single(active_tasks_'[l])
      /\ \A s \in Tasks : In(active_tasks_'[l], s) <=> In(active_tasks_[l], s) \/ s = t
    BY <1>2, <1>4, Zenon
<1>6. active_tasks_' \in [Lanes -> Seq(Tasks)]
    BY <1>1, <1>2, <1>5
<1>7. ASSUME NEW m \in Lanes
      PROVE  /\ Single(active_tasks_'[m])
             /\ \A s \in Tasks : In(active_tasks_'[m], s) <=>
                    In(active_tasks_[m], s) \/ (s = t /\ <<"lane", l>> = <<"lane", m>>)
    BY <1>1, <1>2, <1>5, TagsDiffer, Zenon
<1> QED
    BY <1>3, <1>6, <1>7, TagsDiffer, Zenon DEF Landed
-----------------------------------------------------------------------------
(* Lane::push from worker w: the lane itself if w owns it, the fail queue   *)
(* of the owner otherwise.                                                  *)
LEMMA LanePushLands ==
    ASSUME NEW w \in Workers, NEW l \in Lanes, NEW t \in Tasks,
           NEW queues \in [Workers -> Seq(Tasks)],
           \A v \in Workers : Single(queues[v]) /\ ~In(queues[v], t),
           ~In(active_tasks_[l], t),
           TypeOK, QueuesInv, LanePush(w, l, t, queues)
    PROVE  Landed(IF WorkerOf[l] = w THEN <<"lane", l>> ELSE <<"fail", WorkerOf[l]>>, t, queues)
<1>1. WorkerOf[l] \in Workers
    BY SchedAssumption
<1>2. CASE WorkerOf[l] = w
    <2>1. fail' = queues /\ active_tasks_' = [active_tasks_ EXCEPT ![l] = Append(@, t)]
        BY <1>2, Zenon DEF LanePush
    <2> QED
        BY <1>2, <2>1, LaneLands, Zenon
<1>3. CASE WorkerOf[l] # w
    <2>1. /\ fail' = [queues EXCEPT ![WorkerOf[l]] = Append(@, t)]
          /\ UNCHANGED active_tasks_
        BY <1>3, Zenon DEF LanePush, lanes
    <2> QED
        BY <1>1, <1>3, <2>1, FailLands, Zenon
<1> QED
    BY <1>2, <1>3, Zenon

(* A push leaves every lane with tasks requested once.                      *)
LEMMA LanePushRequests ==
    ASSUME NEW w \in Workers, NEW l \in Lanes, NEW t \in Tasks, NEW queues,
           TypeOK, CountInv, RequestInv, LanePush(w, l, t, queues),
           cur_lane_[w] = l => cur_task_[w] # Null,
           cur_lane_' = cur_lane_, done_tasks' = done_tasks, cur_task_' = cur_task_
    PROVE  /\ CountInv' /\ RequestInv'
           /\ count_' \in [Lanes -> Nat]
           /\ active_lanes_' \in [Workers -> [Prios -> Seq(Lanes)]]
           /\ \A v \in Workers, k \in Prios :
                Len(active_lanes_'[v][k]) >= Len(active_lanes_[v][k])
<1>1. /\ count_ \in [Lanes -> Nat] /\ active_lanes_ \in [Workers -> [Prios -> Seq(Lanes)]]
      /\ active_tasks_ \in [Lanes -> Seq(Tasks)] /\ done_tasks \in [Workers -> Nat]
    BY Zenon DEF TypeOK, Prios
<1>2. \A v \in Workers, k \in Prios : active_lanes_[v][k] \in Seq(Lanes) /\ Len(active_lanes_[v][k]) \in Nat
    BY <1>1
<1>3. CASE WorkerOf[l] # w
    <2>1. active_lanes_' = active_lanes_ /\ active_tasks_' = active_tasks_ /\ count_' = count_
        BY <1>3 DEF LanePush, lanes
    <2>2. CountInv'
        BY <2>1, Zenon DEF CountInv, InHand
    <2>3. RequestInv'
        BY <2>1 DEF RequestInv, HasWork
    <2> QED
        BY <1>1, <1>2, <2>1, <2>2, <2>3
<1>4. CASE WorkerOf[l] = w
    <2>1. /\ count_' = [count_ EXCEPT ![l] = @ + 1]
          /\ active_lanes_' = IF count_[l] = 0
                              THEN [active_lanes_ EXCEPT ![w][PrioOf[l]] = Append(@, l)]
                              ELSE active_lanes_
          /\ active_tasks_' = [active_tasks_ EXCEPT ![l] = Append(@, t)]
        BY <1>4, Zenon DEF LanePush, MustRequest
    <2>2. /\ count_'[l] = count_[l] + 1 /\ count_[l] \in Nat
          /\ \A m \in Lanes \ {l} : count_'[m] = count_[m]
          /\ count_' \in [Lanes -> Nat]
        BY <1>1, <2>1
    <2>3. /\ Len(active_tasks_'[l]) = Len(active_tasks_[l]) + 1 /\ Len(active_tasks_[l]) \in Nat
          /\ \A m \in Lanes \ {l} : active_tasks_'[m] = active_tasks_[m]
        BY <1>1, <2>1
    <2>4. CountInv'
        <3> DEFINE More(m) == IF cur_lane_[WorkerOf[m]] = m
                              THEN done_tasks[WorkerOf[m]] + InHand(WorkerOf[m]) ELSE 0
        <3>1. \A m \in Lanes : More(m) \in Nat
            BY <1>1, SchedAssumption DEF InHand
        <3> SUFFICES ASSUME NEW m \in Lanes PROVE count_'[m] = Len(active_tasks_'[m]) + More(m)
            BY Zenon DEF CountInv, InHand
        <3>2. count_[m] = Len(active_tasks_[m]) + More(m)
            BY Zenon DEF CountInv
        <3>3. More(m) \in Nat
            BY <3>1
        <3> HIDE DEF More
        <3>4. CASE m = l
            BY <2>2, <2>3, <3>2, <3>3, <3>4
        <3>5. CASE m # l
            <4>1. count_'[m] = count_[m] /\ active_tasks_'[m] = active_tasks_[m]
                BY <2>2, <2>3, <3>5, Zenon
            <4> QED
                BY <3>2, <4>1, Zenon
        <3> QED
            BY <3>4, <3>5, Zenon
    <2>5. PrioOf[l] \in Prios
        BY SchedAssumption DEF Prios
    <2>6. count_[l] = 0 => cur_lane_[w] # l
        <3> SUFFICES ASSUME cur_lane_[w] = l PROVE count_[l] # 0
            BY Zenon
        <3>1. count_[l] = Len(active_tasks_[l]) + (done_tasks[w] + 1)
            BY <1>4, Zenon DEF CountInv, InHand
        <3>2. done_tasks[w] \in Nat
            BY <1>1
        <3> QED
            BY <2>3, <3>1, <3>2
    <2> DEFINE a == Append(active_lanes_[w][PrioOf[l]], l)
    <2>7. CASE count_[l] = 0
        <3>1. ~In(active_lanes_[w][PrioOf[l]], l) /\ Single(active_lanes_[w][PrioOf[l]])
            BY <2>2, <2>5, <2>7 DEF RequestInv, HasWork
        <3>2. active_lanes_[w][PrioOf[l]] \in Seq(Lanes)
            BY <1>2, <2>5, Zenon
        <3>3. /\ a \in Seq(Lanes) /\ Len(a) = Len(active_lanes_[w][PrioOf[l]]) + 1
              /\ Single(a)
              /\ \A m : In(a, m) <=> In(active_lanes_[w][PrioOf[l]], m) \/ m = l
            BY <3>1, <3>2, AppendIn
        <3> HIDE DEF a
        <3>4. /\ active_lanes_' = [active_lanes_ EXCEPT ![w][PrioOf[l]] = a]
            BY <2>1, <2>7 DEF a
        <3>5. /\ active_lanes_'[w][PrioOf[l]] = a
              /\ \A v \in Workers, k \in Prios :
                    v # w \/ k # PrioOf[l] => active_lanes_'[v][k] = active_lanes_[v][k]
              /\ active_lanes_' \in [Workers -> [Prios -> Seq(Lanes)]]
            BY <1>1, <2>5, <3>3, <3>4, Zenon
        <3>6. \A v \in Workers, k \in Prios : Len(active_lanes_'[v][k]) >= Len(active_lanes_[v][k])
            <4> SUFFICES ASSUME NEW v \in Workers, NEW k \in Prios
                         PROVE  Len(active_lanes_'[v][k]) >= Len(active_lanes_[v][k])
                BY Zenon
            <4>1. Len(active_lanes_[v][k]) \in Nat
                BY <1>2, Zenon
            <4>2. CASE v = w /\ k = PrioOf[l]
                BY <3>3, <3>5, <4>1, <4>2
            <4>3. CASE v # w \/ k # PrioOf[l]
                <5>1. active_lanes_'[v][k] = active_lanes_[v][k]
                    BY <3>5, <4>3, Zenon
                <5> QED
                    BY <4>1, <5>1
            <4> QED
                BY <4>2, <4>3, Zenon
        <3>7. \A v \in Workers, k \in Prios : Single(active_lanes_'[v][k])
            BY <3>3, <3>5, Zenon DEF RequestInv
        <3>8. ASSUME NEW v \in Workers, NEW k \in Prios, NEW m \in Lanes
              PROVE  In(active_lanes_'[v][k], m) <=> HasWork(v, k, m)'
            <4>1. In(active_lanes_[v][k], m) <=> HasWork(v, k, m)
                BY Zenon DEF RequestInv
            <4>2. CASE m # l
                <5>1. In(active_lanes_'[v][k], m) <=> In(active_lanes_[v][k], m)
                    BY <3>3, <3>5, <4>2, Zenon
                <5>2. HasWork(v, k, m)' <=> HasWork(v, k, m)
                    BY <2>2, <4>2, Zenon DEF HasWork
                <5> QED
                    BY <4>1, <5>1, <5>2, Zenon
            <4>3. CASE m = l
                <5>1. HasWork(v, k, l)' <=> v = w /\ k = PrioOf[l]
                    BY <1>4, <2>2, <2>6, <2>7 DEF HasWork
                <5>2. ~HasWork(v, k, l)
                    BY <2>7 DEF HasWork
                <5>3. In(active_lanes_'[v][k], l) <=> v = w /\ k = PrioOf[l]
                    <6>1. CASE v = w /\ k = PrioOf[l]
                        BY <3>3, <3>5, <6>1, Zenon
                    <6>2. CASE v # w \/ k # PrioOf[l]
                        <7>1. active_lanes_'[v][k] = active_lanes_[v][k]
                            BY <3>5, <6>2, Zenon
                        <7> QED
                            BY <4>1, <4>3, <5>2, <6>2, <7>1, Zenon
                    <6> QED
                        BY <6>1, <6>2, Zenon
                <5> QED
                    BY <4>3, <5>1, <5>3, Zenon
            <4> QED
                BY <4>2, <4>3, Zenon
        <3>9. RequestInv'
            BY <3>7, <3>8, Zenon DEF RequestInv
        <3> QED
            BY <2>2, <2>4, <3>5, <3>6, <3>9
    <2>8. CASE count_[l] # 0
        <3>1. active_lanes_' = active_lanes_ /\ \A m \in Lanes : count_'[m] > 0 <=> count_[m] > 0
            BY <1>1, <2>1, <2>2, <2>8
        <3>2. \A v \in Workers, k \in Prios, m \in Lanes : HasWork(v, k, m)' <=> HasWork(v, k, m)
            BY <3>1, Zenon DEF HasWork
        <3>3. RequestInv'
            BY <3>1, <3>2, Zenon DEF RequestInv
        <3> QED
            BY <1>1, <1>2, <2>2, <2>4, <3>1, <3>3
    <2> QED
        BY <2>7, <2>8
<1> QED
    BY <1>3, <1>4
-----------------------------------------------------------------------------
(* A push brings t to x, the lanes and their requests stay exact, and a     *)
(* route that was chosen is kept.                                           *)
LaneTypes ==
    /\ count_ \in [Lanes -> Nat]
    /\ active_lanes_ \in [Workers -> [{"low", "high"} -> Seq(Lanes)]]
    /\ route_lane_ \in [Tasks -> Lanes \cup {Null}]

Pushed(x, t, queues) ==
    /\ Landed(x, t, queues)
    /\ \/ \E v \in Workers : x = <<"fail", v>>
       \/ \E l \in Lanes : x = <<"lane", l>> /\ route_lane_'[t] = l
    /\ CountInv' /\ RequestInv' /\ LaneTypes'
    /\ \A v \in Workers, k \in Prios : Len(active_lanes_'[v][k]) >= Len(active_lanes_[v][k])
    /\ \A s \in Tasks : route_lane_'[s] = route_lane_[s] \/ (s = t /\ route_lane_[s] = Null)

(* Worker::Push lands in one place and keeps the counts and the requests of *)
(* the lanes.                                                               *)
LEMMA PushPushes ==
    ASSUME NEW w \in Workers, NEW t \in Tasks,
           NEW queues \in [Workers -> Seq(Tasks)],
           \A v \in Workers : Single(queues[v]) /\ ~In(queues[v], t),
           \A l \in Lanes : ~In(active_tasks_[l], t),
           TypeOK, QueuesInv, CountInv, RequestInv, Push(w, t, queues),
           cur_lane_[w] # Null => cur_task_[w] # Null,
           cur_lane_' = cur_lane_, done_tasks' = done_tasks, cur_task_' = cur_task_
    PROVE  \E x : Pushed(x, t, queues)
<1>1. LaneTypes /\ \A v \in Workers, k \in Prios : Len(active_lanes_[v][k]) \in Nat
    <2>1. LaneTypes
        BY Zenon DEF TypeOK, LaneTypes
    <2>2. ASSUME NEW v \in Workers, NEW k \in Prios PROVE active_lanes_[v][k] \in Seq(Lanes)
        BY <2>1 DEF LaneTypes, Prios
    <2>3. ASSUME NEW v \in Workers, NEW k \in Prios PROVE Len(active_lanes_[v][k]) \in Nat
        BY <2>2
    <2> QED
        BY <2>1, <2>3, Zenon
<1>2. CASE ~created /\ Postpone(w, t, queues)
    <2>1. /\ fail' = [queues EXCEPT ![w] = Append(@, t)]
          /\ active_lanes_' = active_lanes_ /\ active_tasks_' = active_tasks_
          /\ count_' = count_ /\ route_lane_' = route_lane_
        BY <1>2 DEF Postpone, lanes
    <2>2. Landed(<<"fail", w>>, t, queues)
        BY <2>1, FailLands, Zenon
    <2>3. CountInv' /\ RequestInv' /\ LaneTypes'
        <3>1. CountInv'
            BY <2>1, Zenon DEF CountInv, InHand
        <3>2. RequestInv'
            BY <2>1 DEF RequestInv, HasWork
        <3>3. LaneTypes'
            BY <1>1, <2>1, Zenon DEF LaneTypes
        <3> QED
            BY <3>1, <3>2, <3>3, Zenon
    <2>4. \A v \in Workers, k \in Prios : Len(active_lanes_'[v][k]) >= Len(active_lanes_[v][k])
        BY <1>1, <2>1
    <2>5. Pushed(<<"fail", w>>, t, queues)
        BY <2>1, <2>2, <2>3, <2>4, Zenon DEF Pushed
    <2> QED
        BY <2>5, Zenon
<1>3. ASSUME NEW l \in Lanes, LanePush(w, l, t, queues), route_lane_'[t] = l, LaneTypes',
             \A s \in Tasks : route_lane_'[s] = route_lane_[s] \/ (s = t /\ route_lane_[s] = Null)
      PROVE  \E x : Pushed(x, t, queues)
    <2> DEFINE x == IF WorkerOf[l] = w THEN <<"lane", l>> ELSE <<"fail", WorkerOf[l]>>
    <2>1. Landed(x, t, queues)
        BY <1>3, LanePushLands, Zenon
    <2>2. cur_lane_[w] = l => cur_task_[w] # Null
        BY SchedAssumption, Zenon
    <2>3. /\ CountInv' /\ RequestInv'
          /\ \A v \in Workers, k \in Prios : Len(active_lanes_'[v][k]) >= Len(active_lanes_[v][k])
        BY <1>3, <2>2, LanePushRequests, Zenon
    <2>4. \/ \E v \in Workers : x = <<"fail", v>>
          \/ \E m \in Lanes : x = <<"lane", m>> /\ route_lane_'[t] = m
        BY <1>3, SchedAssumption
    <2> HIDE DEF x
    <2>5. Pushed(x, t, queues)
        BY <1>3, <2>1, <2>3, <2>4, Zenon DEF Pushed
    <2> QED
        BY <2>5, Zenon
<1>4. ASSUME NEW l \in Lanes, LanePush(w, l, t, queues), route_lane_' \in [Tasks -> Lanes \cup {Null}]
      PROVE  LaneTypes'
    <2>1. cur_lane_[w] = l => cur_task_[w] # Null
        BY SchedAssumption, Zenon
    <2> QED
        BY <1>4, <2>1, LanePushRequests DEF LaneTypes, Prios
<1>5. CASE created /\ route_lane_[t] # Null
    <2>1. LanePush(w, route_lane_[t], t, queues) /\ route_lane_' = route_lane_
        BY <1>2, <1>5, Zenon DEF Push
    <2>2. route_lane_[t] \in Lanes /\ route_lane_' \in [Tasks -> Lanes \cup {Null}]
        BY <1>1, <1>5, <2>1 DEF LaneTypes
    <2> QED
        BY <1>3, <1>4, <2>1, <2>2, Zenon
<1>6. CASE created /\ route_lane_[t] = Null
    <2>1. PICK l \in Lanes : route_lane_' = [route_lane_ EXCEPT ![t] = l] /\ LanePush(w, l, t, queues)
        BY <1>6, Zenon DEF Push
    <2>2. /\ route_lane_' \in [Tasks -> Lanes \cup {Null}] /\ route_lane_'[t] = l
          /\ \A s \in Tasks : s # t => route_lane_'[s] = route_lane_[s]
        BY <1>1, <2>1 DEF LaneTypes
    <2> QED
        BY <1>3, <1>4, <1>6, <2>1, <2>2, Zenon
<1> QED
    BY <1>2, <1>5, <1>6, Zenon DEF Push
-----------------------------------------------------------------------------
(* A step changes the tokens of t only, to X.                               *)
Moved(t, X) ==
    /\ Tokens(t)' = X
    /\ \A s \in Tasks : s # t => Tokens(s)' = Tokens(s)

Holds(w, t) == cur_task_[w] = t /\ pc[w] # "park"
Wakes(w, t) == pc[w] = "wake" /\ ParentOf[cur_task_[w]] = t

(* The places of t after a step, one kind after the other, are those of X.  *)
LandsAt(t, X) ==
    /\ \A v \in Workers : In(ingress'[v], t) <=> <<"ingress", v>> \in X
    /\ \A v \in Workers : In(fail'[v], t) <=> <<"fail", v>> \in X
    /\ \A l \in Lanes : In(active_tasks_'[l], t) <=> <<"lane", l>> \in X
    /\ \A v \in Workers : Holds(v, t)' <=> <<"hand", v>> \in X
    /\ \A v \in Workers : Wakes(v, t)' <=> <<"wake", v>> \in X

(* Where a task is after a step, piece by piece, gives its tokens.          *)
LEMMA TokensLandAt ==
    ASSUME NEW t \in Tasks, NEW X \in SUBSET Tags, LandsAt(t, X)
    PROVE  Tokens(t)' = X
<1>1. ASSUME NEW v \in Workers
      PROVE  /\ <<"ingress", v>> \in Tokens(t)' <=> <<"ingress", v>> \in X
             /\ <<"fail", v>> \in Tokens(t)' <=> <<"fail", v>> \in X
             /\ <<"hand", v>> \in Tokens(t)' <=> <<"hand", v>> \in X
             /\ <<"wake", v>> \in Tokens(t)' <=> <<"wake", v>> \in X
    <2>1. <<"ingress", v>> \in Tokens(t)' <=> <<"ingress", v>> \in X
        BY TokensAfter, Zenon DEF LandsAt
    <2>2. <<"fail", v>> \in Tokens(t)' <=> <<"fail", v>> \in X
        BY TokensAfter, Zenon DEF LandsAt
    <2>3. <<"hand", v>> \in Tokens(t)' <=> <<"hand", v>> \in X
        BY TokensAfter, Zenon DEF LandsAt, Holds
    <2>4. <<"wake", v>> \in Tokens(t)' <=> <<"wake", v>> \in X
        BY TokensAfter, Zenon DEF LandsAt, Wakes
    <2> QED
        BY <2>1, <2>2, <2>3, <2>4, Zenon
<1>2. ASSUME NEW l \in Lanes PROVE <<"lane", l>> \in Tokens(t)' <=> <<"lane", l>> \in X
    BY TokensAfter, Zenon DEF LandsAt
<1>3. ASSUME NEW x \in Tags PROVE x \in Tokens(t)' <=> x \in X
    BY <1>1, <1>2, TagsAre, Zenon
<1>4. Tokens(t)' \subseteq Tags /\ X \subseteq Tags
    BY TokensAfter, Zenon
<1> QED
    BY <1>3, <1>4, Zenon

(* A step that gives t the tokens X, piece by piece, and leaves the other   *)
(* tasks where they are.                                                    *)
LEMMA TokensMove ==
    ASSUME NEW t \in Tasks, NEW X \in SUBSET Tags, LandsAt(t, X),
           \A s \in Tasks : s # t => LandsAt(s, Tokens(s))
    PROVE  Moved(t, X)
    BY TokensAre, TokensLandAt, Zenon DEF Moved

(* Apart from fail queues and lanes, t has no place after a step and the    *)
(* other tasks have the places they had.                                    *)
ElseKept(t) ==
    /\ \A v \in Workers : ~In(ingress'[v], t) /\ ~Holds(v, t)' /\ ~Wakes(v, t)'
    /\ \A s \in Tasks, v \in Workers : s # t => (In(ingress'[v], s) <=> In(ingress[v], s))
    /\ \A s \in Tasks, v \in Workers : s # t => (Holds(v, s)' <=> Holds(v, s))
    /\ \A s \in Tasks, v \in Workers : s # t => (Wakes(v, s)' <=> Wakes(v, s))

(* Before a push t has no place in queues or on a lane.                     *)
Fresh(t, queues) ==
    /\ queues \in [Workers -> Seq(Tasks)]
    /\ \A v \in Workers : Single(queues[v]) /\ ~In(queues[v], t)
    /\ \A s \in Tasks, v \in Workers : s # t => (In(queues[v], s) <=> In(fail[v], s))
    /\ \A l \in Lanes : ~In(active_tasks_[l], t)

(* A push of a task that was nowhere else is a move to the queue it lands   *)
(* in.                                                                      *)
LEMMA LandedMoves ==
    ASSUME NEW t \in Tasks, NEW x, NEW queues, Landed(x, t, queues), Fresh(t, queues), ElseKept(t),
           \/ \E v \in Workers : x = <<"fail", v>>
           \/ \E l \in Lanes : x = <<"lane", l>>
    PROVE  Moved(t, {x})
<1>1. {x} \in SUBSET Tags
    BY DEF Tags
<1>2. LandsAt(t, {x})
    <2> \A v : <<"ingress", v>> \notin {x} /\ <<"hand", v>> \notin {x} /\ <<"wake", v>> \notin {x}
        OBVIOUS
    <2>1. \A v \in Workers : In(ingress'[v], t) <=> <<"ingress", v>> \in {x}
        BY Zenon DEF ElseKept
    <2>2. \A v \in Workers : In(fail'[v], t) <=> <<"fail", v>> \in {x}
        BY Zenon DEF Landed, Fresh
    <2>3. \A l \in Lanes : In(active_tasks_'[l], t) <=> <<"lane", l>> \in {x}
        BY Zenon DEF Landed, Fresh
    <2>4. \A v \in Workers : Holds(v, t)' <=> <<"hand", v>> \in {x}
        BY Zenon DEF ElseKept
    <2>5. \A v \in Workers : Wakes(v, t)' <=> <<"wake", v>> \in {x}
        BY Zenon DEF ElseKept
    <2> QED
        BY <2>1, <2>2, <2>3, <2>4, <2>5, Zenon DEF LandsAt
<1>3. ASSUME NEW s \in Tasks, s # t PROVE LandsAt(s, Tokens(s))
    <2>1. \A v \in Workers : In(ingress'[v], s) <=> <<"ingress", v>> \in Tokens(s)
        BY <1>3, TokensAre, Zenon DEF ElseKept
    <2>2. \A v \in Workers : In(fail'[v], s) <=> In(fail[v], s)
        BY <1>3, Zenon DEF Landed, Fresh
    <2>3. \A v \in Workers : In(fail'[v], s) <=> <<"fail", v>> \in Tokens(s)
        BY <2>2, TokensAre, Zenon
    <2>4. \A l \in Lanes : In(active_tasks_'[l], s) <=> In(active_tasks_[l], s)
        BY <1>3, Zenon DEF Landed
    <2>5. \A l \in Lanes : In(active_tasks_'[l], s) <=> <<"lane", l>> \in Tokens(s)
        BY <2>4, TokensAre, Zenon
    <2>6. \A v \in Workers : Holds(v, s) <=> <<"hand", v>> \in Tokens(s)
        BY TokensAre, Zenon DEF Holds
    <2>7. \A v \in Workers : Wakes(v, s) <=> <<"wake", v>> \in Tokens(s)
        BY TokensAre, Zenon DEF Wakes
    <2>8. \A v \in Workers : Holds(v, s)' <=> <<"hand", v>> \in Tokens(s)
        BY <1>3, <2>6, Zenon DEF ElseKept
    <2>9. \A v \in Workers : Wakes(v, s)' <=> <<"wake", v>> \in Tokens(s)
        BY <1>3, <2>7, Zenon DEF ElseKept
    <2> QED
        BY <2>1, <2>3, <2>5, <2>8, <2>9, Zenon DEF LandsAt
<1> QED
    BY <1>1, <1>2, <1>3, TokensMove, Zenon

(* Worker::Push of a task that was nowhere else is such a move.             *)
LEMMA PushMoves ==
    ASSUME NEW w \in Workers, NEW t \in Tasks, NEW queues, IInv, Push(w, t, queues),
           Fresh(t, queues), ElseKept(t), cur_lane_[w] # Null => cur_task_[w] # Null,
           cur_lane_' = cur_lane_, done_tasks' = done_tasks, cur_task_' = cur_task_
    PROVE  \E x : Pushed(x, t, queues) /\ Moved(t, {x})
<1>1. PICK x : Pushed(x, t, queues)
    <2>1. /\ queues \in [Workers -> Seq(Tasks)]
          /\ \A v \in Workers : Single(queues[v]) /\ ~In(queues[v], t)
          /\ \A l \in Lanes : ~In(active_tasks_[l], t)
        BY Zenon DEF Fresh
    <2>2. TypeOK /\ QueuesInv /\ CountInv /\ RequestInv
        BY Zenon DEF IInv
    <2> QED
        BY <2>1, <2>2, PushPushes, Zenon
<1>2. Moved(t, {x})
    BY <1>1, LandedMoves, Zenon DEF Pushed
<1> QED
    BY <1>1, <1>2, Zenon

(* The places of t before a step.                                           *)
At(t, X) ==
    /\ \A v \in Workers : In(ingress[v], t) <=> <<"ingress", v>> \in X
    /\ \A v \in Workers : In(fail[v], t) <=> <<"fail", v>> \in X
    /\ \A l \in Lanes : In(active_tasks_[l], t) <=> <<"lane", l>> \in X
    /\ \A v \in Workers : Holds(v, t) <=> <<"hand", v>> \in X
    /\ \A v \in Workers : Wakes(v, t) <=> <<"wake", v>> \in X

(* Where a task is, piece by piece, are its tokens.                         *)
LEMMA AtTokens == ASSUME NEW t PROVE At(t, Tokens(t))
    BY TokensAre, Zenon DEF At, Holds, Wakes

(* A task has one token at most.                                            *)
LEMMA OnlyToken ==
    ASSUME NEW t \in Tasks, NEW x, IInv, x \in Tokens(t)
    PROVE  Tokens(t) = {x} /\ At(t, {x})
<1>1. Tokens(t) = {x}
    BY Zenon DEF IInv, TokenInv
<1> QED
    BY <1>1, AtTokens, Zenon

Unmoved == \A s \in Tasks : Tokens(s)' = Tokens(s)

(* A step that changes no queue and nobody's hands moves no task.           *)
LEMMA StaysUnmoved ==
    ASSUME ingress' = ingress, fail' = fail, active_tasks_' = active_tasks_,
           \A s \in Tasks, v \in Workers : Holds(v, s)' <=> Holds(v, s),
           \A s \in Tasks, v \in Workers : Wakes(v, s)' <=> Wakes(v, s)
    PROVE  Unmoved
<1>1. ASSUME NEW s \in Tasks PROVE LandsAt(s, Tokens(s))
    BY AtTokens, Zenon DEF At, LandsAt
<1>2. ASSUME NEW s \in Tasks PROVE Tokens(s)' = Tokens(s)
    <2>1. Tokens(s) \in SUBSET Tags
        BY TokensAre, Zenon
    <2> QED
        BY <1>1, <2>1, TokensLandAt, Zenon
<1> QED
    BY <1>2, Zenon DEF Unmoved

(* A step of w from one place in Run to another moves no task, unless it    *)
(* parks or wakes one.                                                      *)
LEMMA PcUnmoved ==
    ASSUME NEW w \in Workers,
           ingress' = ingress, fail' = fail, active_tasks_' = active_tasks_, cur_task_' = cur_task_,
           \A v \in Workers : v # w => pc'[v] = pc[v],
           pc[w] \notin {"park", "wake"}, pc'[w] \notin {"park", "wake"}
    PROVE  Unmoved
<1>1. pc[w] # "park" /\ pc[w] # "wake" /\ pc'[w] # "park" /\ pc'[w] # "wake"
    OBVIOUS
<1>2. \A s \in Tasks, v \in Workers : Holds(v, s)' <=> Holds(v, s)
    BY <1>1, Zenon DEF Holds
<1>3. \A s \in Tasks, v \in Workers : Wakes(v, s)' <=> Wakes(v, s)
    BY <1>1, Zenon DEF Wakes
<1> QED
    BY <1>2, <1>3, StaysUnmoved, Zenon
-----------------------------------------------------------------------------
(* What each step does to the tokens.                                       *)
LEMMA SubmitMoves ==
    ASSUME NEW w \in Workers, NEW t \in Tasks, IInv, Submit(t, w)
    PROVE  /\ Moved(t, {<<"ingress", w>>})
           /\ ingress' \in [Workers -> Seq(Tasks)] /\ \A v \in Workers : Single(ingress'[v])
<1>1. Tokens(t) = {} /\ At(t, {})
    <2>1. Tokens(t) = {}
        BY Zenon DEF IInv, TokenInv, Submit
    <2> QED
        BY <2>1, AtTokens, Zenon
<1>2. ingress \in [Workers -> Seq(Tasks)] /\ \A v \in Workers : Single(ingress[v])
    BY Zenon DEF IInv, TypeOK, QueuesInv
<1>3. ingress' = [ingress EXCEPT ![w] = Append(@, t)]
    BY Zenon DEF Submit
<1>4. /\ ingress'[w] = Append(ingress[w], t) /\ ingress[w] \in Seq(Tasks)
      /\ \A v \in Workers : v # w => ingress'[v] = ingress[v]
    BY <1>2, <1>3
<1>5. ~In(ingress[w], t)
    BY <1>1, Zenon DEF At
<1>6. /\ ingress'[w] \in Seq(Tasks) /\ Single(ingress'[w])
      /\ \A s : In(ingress'[w], s) <=> In(ingress[w], s) \/ s = t
    BY <1>2, <1>4, <1>5, AppendIn
<1>7. ingress' \in [Workers -> Seq(Tasks)] /\ \A v \in Workers : Single(ingress'[v])
    <2>1. \A v \in Workers : Single(ingress'[v])
        BY <1>2, <1>4, <1>6, Zenon
    <2>2. ingress' \in [Workers -> Seq(Tasks)]
        BY <1>2, <1>3, <1>4, <1>6
    <2> QED
        BY <2>1, <2>2, Zenon
<1>8. /\ fail' = fail /\ active_tasks_' = active_tasks_ /\ pc' = pc /\ cur_task_' = cur_task_
    BY DEF Submit, lanes
<1>9. \A s \in Tasks, v \in Workers : (Holds(v, s)' <=> Holds(v, s)) /\ (Wakes(v, s)' <=> Wakes(v, s))
    BY <1>8, Zenon DEF Holds, Wakes
<1>10. LandsAt(t, {<<"ingress", w>>})
    <2> DEFINE X == {<<"ingress", w>>}
    <2>1. \A v : /\ <<"ingress", v>> \in X <=> v = w
                 /\ <<"fail", v>> \notin X /\ <<"lane", v>> \notin X
                 /\ <<"hand", v>> \notin X /\ <<"wake", v>> \notin X
        OBVIOUS
    <2>2. \A v : <<"ingress", v>> \notin {} /\ <<"fail", v>> \notin {} /\ <<"lane", v>> \notin {}
                    /\ <<"hand", v>> \notin {} /\ <<"wake", v>> \notin {}
        OBVIOUS
    <2> HIDE DEF X
    <2>3. \A v \in Workers : In(ingress'[v], t) <=> <<"ingress", v>> \in X
        BY <1>1, <1>4, <1>6, <2>1, <2>2, Zenon DEF At
    <2>4. /\ \A v \in Workers : In(fail'[v], t) <=> <<"fail", v>> \in X
          /\ \A l \in Lanes : In(active_tasks_'[l], t) <=> <<"lane", l>> \in X
        BY <1>1, <1>8, <2>1, <2>2, Zenon DEF At
    <2>5. /\ \A v \in Workers : Holds(v, t)' <=> <<"hand", v>> \in X
          /\ \A v \in Workers : Wakes(v, t)' <=> <<"wake", v>> \in X
        BY <1>1, <1>9, <2>1, <2>2, Zenon DEF At
    <2>6. LandsAt(t, X)
        BY <2>3, <2>4, <2>5, Zenon DEF LandsAt
    <2> QED
        BY <2>6, Zenon DEF X
<1>11. ASSUME NEW s \in Tasks, s # t PROVE LandsAt(s, Tokens(s))
    <2>1. \A v \in Workers : In(ingress'[v], s) <=> In(ingress[v], s)
        BY <1>4, <1>6, <1>11, Zenon
    <2> QED
        BY <1>8, <1>9, <2>1, AtTokens, Zenon DEF At, LandsAt
<1>12. {<<"ingress", w>>} \in SUBSET Tags
    BY DEF Tags
<1> QED
    BY <1>7, <1>10, <1>11, <1>12, TokensMove, Zenon

(* IngestLane moves the first task of the ingress lane to where Push puts   *)
(* it.                                                                      *)
LEMMA IngestMoves ==
    ASSUME NEW w \in Workers, IInv, IngestLane(w)
    PROVE  \E t \in Tasks : \E x :
            /\ <<"ingress", w>> \in Tokens(t)
            /\ Pushed(x, t, fail) /\ Moved(t, {x})
            /\ ingress' \in [Workers -> Seq(Tasks)] /\ \A v \in Workers : Single(ingress'[v])
<1>1. /\ ingress \in [Workers -> Seq(Tasks)] /\ \A v \in Workers : Single(ingress[v])
      /\ fail \in [Workers -> Seq(Tasks)] /\ \A v \in Workers : Single(fail[v])
    BY Zenon DEF IInv, TypeOK, QueuesInv
<1>2. /\ pc[w] = "ingest" /\ ingress[w] # <<>> /\ ingress' = [ingress EXCEPT ![w] = Tail(@)]
      /\ Push(w, Head(ingress[w]), fail)
      /\ pc' = pc /\ cur_task_' = cur_task_ /\ cur_lane_' = cur_lane_ /\ done_tasks' = done_tasks
    BY DEF IngestLane, poll
<1>3. /\ ingress'[w] = Tail(ingress[w]) /\ ingress[w] \in Seq(Tasks)
      /\ \A v \in Workers : v # w => ingress'[v] = ingress[v]
    BY <1>1, <1>2
<1>4. PICK t \in Tasks :
        /\ t = Head(ingress[w])
        /\ ingress'[w] \in Seq(Tasks) /\ Single(ingress'[w]) /\ In(ingress[w], t)
        /\ \A s : In(ingress'[w], s) <=> In(ingress[w], s) /\ s # t
    BY <1>1, <1>2, <1>3, TailIn
<1>5. ingress' \in [Workers -> Seq(Tasks)] /\ \A v \in Workers : Single(ingress'[v])
    <2>1. \A v \in Workers : Single(ingress'[v])
        BY <1>1, <1>3, <1>4, Zenon
    <2>2. ingress' \in [Workers -> Seq(Tasks)]
        BY <1>1, <1>2, <1>3, <1>4
    <2> QED
        BY <2>1, <2>2, Zenon
<1>6. <<"ingress", w>> \in Tokens(t) /\ At(t, {<<"ingress", w>>})
    BY <1>4, TokensAre, OnlyToken, Zenon
<1>7. /\ \A v \in Workers : In(ingress[v], t) => v = w
      /\ \A v \in Workers : ~In(fail[v], t) /\ ~Holds(v, t) /\ ~Wakes(v, t)
      /\ \A l \in Lanes : ~In(active_tasks_[l], t)
    BY <1>6 DEF At
<1>8. Fresh(t, fail)
    BY <1>1, <1>7, Zenon DEF Fresh
<1>9. \A s \in Tasks, v \in Workers : (Holds(v, s)' <=> Holds(v, s)) /\ (Wakes(v, s)' <=> Wakes(v, s))
    BY <1>2, Zenon DEF Holds, Wakes
<1>10. ElseKept(t)
    <2>1. \A v \in Workers : ~In(ingress'[v], t) /\ ~Holds(v, t)' /\ ~Wakes(v, t)'
        <3>1. ASSUME NEW v \in Workers PROVE ~In(ingress'[v], t)
            <4>1. CASE v = w
                BY <1>4, <4>1, Zenon
            <4>2. CASE v # w
                BY <1>3, <1>7, <4>2, Zenon
            <4> QED
                BY <4>1, <4>2, Zenon
        <3> QED
            BY <1>4, <1>7, <1>9, <3>1, Zenon
    <2>2. \A s \in Tasks, v \in Workers : s # t => (In(ingress'[v], s) <=> In(ingress[v], s))
        BY <1>3, <1>4, Zenon
    <2> QED
        BY <1>9, <2>1, <2>2, Zenon DEF ElseKept
<1>11. cur_lane_[w] = Null
    BY <1>2 DEF IInv, WorkerInv, WorkerOk, Running
<1>12. Push(w, t, fail)
    BY <1>2, <1>4, Zenon
<1>13. \E x : Pushed(x, t, fail) /\ Moved(t, {x})
    BY <1>2, <1>12, <1>8, <1>10, <1>11, PushMoves, Zenon
<1> QED
    BY <1>4, <1>5, <1>6, <1>13, Zenon

(* PollFail moves the first task of the fail queue to where Push puts it.   *)
LEMMA PollFailMoves ==
    ASSUME NEW w \in Workers, IInv, PollFail(w)
    PROVE  \E t \in Tasks : \E x, queues :
            /\ <<"fail", w>> \in Tokens(t)
            /\ queues = [fail EXCEPT ![w] = Tail(@)] /\ Len(queues[w]) = Len(fail[w]) - 1
            /\ Pushed(x, t, queues) /\ Moved(t, {x})
<1>1. fail \in [Workers -> Seq(Tasks)] /\ \A v \in Workers : Single(fail[v])
    BY Zenon DEF IInv, TypeOK, QueuesInv
<1>2. /\ pc[w] = "fail" /\ num[w] > 0
      /\ Push(w, Head(fail[w]), [fail EXCEPT ![w] = Tail(@)])
      /\ pc' = pc /\ cur_task_' = cur_task_ /\ cur_lane_' = cur_lane_ /\ done_tasks' = done_tasks
      /\ ingress' = ingress
    BY DEF PollFail
<1>3. fail[w] # <<>>
    <2>1. num[w] <= Len(fail[w])
        BY <1>2, Zenon DEF IInv, SnapshotInv, SnapshotOk
    <2>2. num[w] \in Nat
        BY DEF IInv, TypeOK
    <2> QED
        BY <1>1, <1>2, <2>1, <2>2
<1> PICK queues : queues = [fail EXCEPT ![w] = Tail(@)]
    BY Zenon
<1>4. /\ queues[w] = Tail(fail[w]) /\ fail[w] \in Seq(Tasks)
      /\ \A v \in Workers : v # w => queues[v] = fail[v]
      /\ queues \in [Workers -> Seq(Tasks)]
    BY <1>1, <1>3
<1>5. PICK t \in Tasks :
        /\ t = Head(fail[w])
        /\ Single(Tail(fail[w])) /\ In(fail[w], t)
        /\ Len(Tail(fail[w])) = Len(fail[w]) - 1
        /\ \A s : In(Tail(fail[w]), s) <=> In(fail[w], s) /\ s # t
    BY <1>1, <1>3, <1>4, TailIn
<1>6. Push(w, t, queues)
    BY <1>2, <1>5, Zenon
<1>7. <<"fail", w>> \in Tokens(t) /\ At(t, {<<"fail", w>>})
    BY <1>5, TokensAre, OnlyToken, Zenon
<1>8. /\ \A v \in Workers : In(fail[v], t) => v = w
      /\ \A v \in Workers : ~In(ingress[v], t) /\ ~Holds(v, t) /\ ~Wakes(v, t)
      /\ \A l \in Lanes : ~In(active_tasks_[l], t)
    BY <1>7 DEF At
<1>9. Fresh(t, queues)
    <2>1. ASSUME NEW v \in Workers
          PROVE  /\ Single(queues[v]) /\ ~In(queues[v], t)
                 /\ \A s \in Tasks : s # t => (In(queues[v], s) <=> In(fail[v], s))
        <3>1. CASE v = w
            BY <1>4, <1>5, <3>1, Zenon
        <3>2. CASE v # w
            BY <1>1, <1>4, <1>8, <3>2, Zenon
        <3> QED
            BY <3>1, <3>2, Zenon
    <2> QED
        BY <1>4, <1>8, <2>1, Zenon DEF Fresh
<1>10. \A s \in Tasks, v \in Workers : (Holds(v, s)' <=> Holds(v, s)) /\ (Wakes(v, s)' <=> Wakes(v, s))
    BY <1>2, Zenon DEF Holds, Wakes
<1>11. ElseKept(t)
    BY <1>2, <1>5, <1>8, <1>10, Zenon DEF ElseKept
<1>12. cur_lane_[w] = Null
    BY <1>2 DEF IInv, WorkerInv, WorkerOk, Running
<1>13. \E x : Pushed(x, t, queues) /\ Moved(t, {x})
    BY <1>2, <1>9, <1>11, <1>12, <1>6, PushMoves, Zenon
<1>14. Len(queues[w]) = Len(fail[w]) - 1
    BY <1>4, <1>5
<1> QED
    BY <1>7, <1>13, <1>14, Zenon

(* Spawn pushes a task that had no token.                                   *)
LEMMA SpawnMoves ==
    ASSUME NEW w \in Workers, NEW c \in Tasks, IInv, Spawn(w, c)
    PROVE  \E x : Pushed(x, c, fail) /\ Moved(c, {x}) /\ Tokens(c) = {}
<1>1. fail \in [Workers -> Seq(Tasks)] /\ \A v \in Workers : Single(fail[v])
    BY Zenon DEF IInv, TypeOK, QueuesInv
<1>2. /\ pc[w] = "run" /\ co[c] = "new" /\ Push(w, c, fail)
      /\ pc' = pc /\ cur_task_' = cur_task_ /\ cur_lane_' = cur_lane_ /\ done_tasks' = done_tasks
      /\ ingress' = ingress
    BY DEF Spawn, poll
<1>3. Tokens(c) = {} /\ At(c, {})
    <2>1. Tokens(c) = {}
        BY <1>2, Zenon DEF IInv, TokenInv
    <2> QED
        BY <2>1, AtTokens, Zenon
<1>4. /\ \A v \in Workers : ~In(ingress[v], c) /\ ~In(fail[v], c) /\ ~Holds(v, c) /\ ~Wakes(v, c)
      /\ \A l \in Lanes : ~In(active_tasks_[l], c)
    BY <1>3 DEF At
<1>5. Fresh(c, fail)
    BY <1>1, <1>4, Zenon DEF Fresh
<1>6. \A s \in Tasks, v \in Workers : (Holds(v, s)' <=> Holds(v, s)) /\ (Wakes(v, s)' <=> Wakes(v, s))
    BY <1>2, Zenon DEF Holds, Wakes
<1>7. ElseKept(c)
    BY <1>2, <1>4, <1>6, Zenon DEF ElseKept
<1>8. cur_task_[w] # Null
    BY <1>2 DEF IInv, WorkerInv, WorkerOk, Running
<1>9. \E x : Pushed(x, c, fail) /\ Moved(c, {x})
    BY <1>2, <1>5, <1>7, <1>8, PushMoves, Zenon
<1> QED
    BY <1>3, <1>9, Zenon

(* Wake turns the wake-up of the parent into its place in a queue.          *)
LEMMA WakeMoves ==
    ASSUME NEW w \in Workers, IInv, Wake(w)
    PROVE  \E t \in Tasks, l \in Lanes : \E x :
            /\ <<"wake", w>> \in Tokens(t) /\ route_lane_[t] = l
            /\ x = IF WorkerOf[l] = w THEN <<"lane", l>> ELSE <<"fail", WorkerOf[l]>>
            /\ Pushed(x, t, fail) /\ Moved(t, {x})
<1>1. /\ fail \in [Workers -> Seq(Tasks)] /\ \A v \in Workers : Single(fail[v])
      /\ pc \in [Workers -> PCs] /\ cur_task_ \in [Workers -> Tasks \cup {Null}]
      /\ route_lane_ \in [Tasks -> Lanes \cup {Null}]
    BY Zenon DEF IInv, TypeOK, QueuesInv
<1>2. /\ pc[w] = "wake" /\ pc' = [pc EXCEPT ![w] = "complete"]
      /\ LanePush(w, route_lane_[ParentOf[cur_task_[w]]], ParentOf[cur_task_[w]], fail)
      /\ cur_task_' = cur_task_ /\ cur_lane_' = cur_lane_ /\ done_tasks' = done_tasks
      /\ ingress' = ingress /\ route_lane_' = route_lane_
    BY DEF Wake, poll
<1>3. cur_task_[w] \in Tasks
    BY <1>1, <1>2 DEF IInv, WorkerInv, WorkerOk, Running
<1>4. PICK t \in Tasks : t = ParentOf[cur_task_[w]]
    BY <1>2, <1>3, SchedAssumption DEF IInv, CoInv, TaskOk
<1>5. PICK l \in Lanes : l = route_lane_[t]
    <2>1. co[cur_task_[w]] # "new"
        BY <1>2 DEF IInv, CoInv, TaskOk
    <2>2. t # Null
        BY SchedAssumption
    <2>3. route_lane_[t] # Null
        BY <1>3, <1>4, <2>1, <2>2, Zenon DEF IInv, RouteInv
    <2> QED
        BY <1>1, <2>3
<1>6. LanePush(w, l, t, fail)
    BY <1>2, <1>4, <1>5, Zenon
<1>7. <<"wake", w>> \in Tokens(t) /\ At(t, {<<"wake", w>>})
    BY <1>2, <1>4, TokensAre, OnlyToken, Zenon
<1>8. /\ \A v \in Workers : ~In(ingress[v], t) /\ ~In(fail[v], t) /\ ~Holds(v, t)
      /\ \A v \in Workers : Wakes(v, t) => v = w
      /\ \A m \in Lanes : ~In(active_tasks_[m], t)
    BY <1>7 DEF At
<1>9. Fresh(t, fail)
    BY <1>1, <1>8, Zenon DEF Fresh
<1>10. pc'[w] = "complete" /\ \A v \in Workers : v # w => pc'[v] = pc[v]
    BY <1>1, <1>2
<1>11. \A s \in Tasks, v \in Workers : Holds(v, s)' <=> Holds(v, s)
    BY <1>2, <1>10 DEF Holds
<1>12. ASSUME NEW s \in Tasks, NEW v \in Workers
       PROVE  Wakes(v, s)' <=> Wakes(v, s) /\ s # t
    <2>1. CASE v = w
        BY <1>4, <1>10, <2>1 DEF Wakes
    <2>2. CASE v # w
        BY <1>2, <1>8, <1>10, <2>2, Zenon DEF Wakes
    <2> QED
        BY <2>1, <2>2, Zenon
<1>13. ElseKept(t)
    BY <1>2, <1>8, <1>11, <1>12, Zenon DEF ElseKept
<1>14. PICK x : x = IF WorkerOf[l] = w THEN <<"lane", l>> ELSE <<"fail", WorkerOf[l]>>
    BY Zenon
<1>15. Landed(x, t, fail)
    <2>1. TypeOK /\ QueuesInv
        BY Zenon DEF IInv
    <2>2. Landed(IF WorkerOf[l] = w THEN <<"lane", l>> ELSE <<"fail", WorkerOf[l]>>, t, fail)
        BY <1>1, <1>6, <1>8, <2>1, LanePushLands, Zenon
    <2> QED
        BY <1>14, <2>2, Zenon
<1>16. \/ \E v \in Workers : x = <<"fail", v>>
       \/ \E m \in Lanes : x = <<"lane", m>> /\ route_lane_'[t] = m
    BY <1>2, <1>5, <1>14, SchedAssumption
<1>17. Moved(t, {x})
    BY <1>9, <1>13, <1>15, <1>16, LandedMoves, Zenon
<1>18. /\ CountInv' /\ RequestInv'
       /\ count_' \in [Lanes -> Nat]
       /\ active_lanes_' \in [Workers -> [Prios -> Seq(Lanes)]]
       /\ \A v \in Workers, k \in Prios : Len(active_lanes_'[v][k]) >= Len(active_lanes_[v][k])
    <2>1. TypeOK /\ CountInv /\ RequestInv /\ cur_task_[w] # Null
        BY <1>3, SchedAssumption, Zenon DEF IInv
    <2> QED
        BY <1>2, <1>6, <2>1, LanePushRequests, Zenon
<1>19. Pushed(x, t, fail)
    <2>1. LaneTypes'
        BY <1>1, <1>2, <1>18, Zenon DEF LaneTypes, Prios
    <2> QED
        BY <1>2, <1>15, <1>16, <1>18, <2>1, Zenon DEF Pushed
<1> QED
    BY <1>5, <1>7, <1>14, <1>17, <1>19, Zenon

(* A worker is done with the task in hand.                                  *)
LEMMA LetsGo ==
    ASSUME NEW w \in Workers, pc \in [Workers -> PCs], cur_task_ \in [Workers -> Tasks \cup {Null}],
           pc[w] # "wake", pc' = [pc EXCEPT ![w] = "lane"], cur_task_' = [cur_task_ EXCEPT ![w] = Null]
    PROVE  \A s \in Tasks, v \in Workers : /\ Holds(v, s)' <=> Holds(v, s) /\ v # w
                                           /\ Wakes(v, s)' <=> Wakes(v, s)
<1>1. /\ pc'[w] = "lane" /\ cur_task_'[w] = Null
      /\ \A v \in Workers : v # w => pc'[v] = pc[v] /\ cur_task_'[v] = cur_task_[v]
    OBVIOUS
<1>2. ASSUME NEW s \in Tasks, NEW v \in Workers
      PROVE  (Holds(v, s)' <=> Holds(v, s) /\ v # w) /\ (Wakes(v, s)' <=> Wakes(v, s))
    <2>1. CASE v = w
        <3>1. ~Holds(w, s)'
            BY <1>1, SchedAssumption, Zenon DEF Holds
        <3>2. ~Wakes(w, s) /\ ~Wakes(w, s)'
            BY <1>1 DEF Wakes
        <3> QED
            BY <2>1, <3>1, <3>2, Zenon
    <2>2. CASE v # w
        BY <1>1, <2>2, Zenon DEF Holds, Wakes
    <2> QED
        BY <2>1, <2>2, Zenon
<1> QED
    BY <1>2, Zenon

(* PushBack moves the task in hand to the end of its lane.                  *)
LEMMA PushBackMoves ==
    ASSUME NEW w \in Workers, IInv, PushBack(w)
    PROVE  \E t \in Tasks, l \in Lanes :
            /\ t = cur_task_[w] /\ l = cur_lane_[w] /\ route_lane_[t] = l /\ WorkerOf[l] = w
            /\ <<"hand", w>> \in Tokens(t)
            /\ Landed(<<"lane", l>>, t, fail) /\ Moved(t, {<<"lane", l>>})
<1>1. /\ fail \in [Workers -> Seq(Tasks)] /\ \A v \in Workers : Single(fail[v])
      /\ pc \in [Workers -> PCs] /\ cur_task_ \in [Workers -> Tasks \cup {Null}]
      /\ cur_lane_ \in [Workers -> Lanes \cup {Null}]
    BY Zenon DEF IInv, TypeOK, QueuesInv
<1>2. /\ pc[w] = "pushback" /\ pc' = [pc EXCEPT ![w] = "lane"]
      /\ active_tasks_' = [active_tasks_ EXCEPT ![cur_lane_[w]] = Append(@, cur_task_[w])]
      /\ cur_task_' = [cur_task_ EXCEPT ![w] = Null]
      /\ ingress' = ingress /\ fail' = fail
    BY DEF PushBack
<1>3. /\ cur_task_[w] # Null /\ cur_lane_[w] # Null
      /\ WorkerOf[cur_lane_[w]] = w /\ route_lane_[cur_task_[w]] = cur_lane_[w]
    BY <1>2 DEF IInv, WorkerInv, WorkerOk, Running
<1>4. PICK t \in Tasks, l \in Lanes : t = cur_task_[w] /\ l = cur_lane_[w]
    BY <1>1, <1>3
<1>5. <<"hand", w>> \in Tokens(t) /\ At(t, {<<"hand", w>>})
    <2>1. <<"hand", w>> \in Tokens(t)
        BY <1>2, <1>4, TokensAre, Zenon
    <2> QED
        BY <2>1, OnlyToken, Zenon
<1>6. /\ \A v \in Workers : ~In(ingress[v], t) /\ ~In(fail[v], t) /\ ~Wakes(v, t)
      /\ \A v \in Workers : Holds(v, t) => v = w
      /\ \A m \in Lanes : ~In(active_tasks_[m], t)
    BY <1>5 DEF At
<1>7. Fresh(t, fail)
    BY <1>1, <1>6, Zenon DEF Fresh
<1>8. \A s \in Tasks, v \in Workers : (Holds(v, s)' <=> Holds(v, s) /\ v # w) /\ (Wakes(v, s)' <=> Wakes(v, s))
    BY <1>1, <1>2, LetsGo, Zenon
<1>9. ASSUME NEW s \in Tasks, NEW v \in Workers
      PROVE  (Holds(v, s)' <=> Holds(v, s) /\ s # t) /\ (Wakes(v, s)' <=> Wakes(v, s))
    BY <1>4, <1>6, <1>8, Zenon DEF Holds
<1>10. ElseKept(t)
    BY <1>2, <1>6, <1>9, Zenon DEF ElseKept
<1>11. Landed(<<"lane", l>>, t, fail)
    <2>1. TypeOK /\ QueuesInv
        BY Zenon DEF IInv
    <2>2. active_tasks_' = [active_tasks_ EXCEPT ![l] = Append(@, t)]
        BY <1>2, <1>4, Zenon
    <2> QED
        BY <1>1, <1>2, <1>6, <2>1, <2>2, LaneLands, Zenon
<1>12. Moved(t, {<<"lane", l>>})
    BY <1>7, <1>10, <1>11, LandedMoves, Zenon
<1> QED
    BY <1>3, <1>4, <1>5, <1>11, <1>12, Zenon

(* SetComplete lets go of the task in hand, which has ended.                *)
LEMMA SetCompleteMoves ==
    ASSUME NEW w \in Workers, NEW t \in Tasks, IInv, SetComplete(w), t = cur_task_[w]
    PROVE  Moved(t, {}) /\ <<"hand", w>> \in Tokens(t)
<1>1. pc \in [Workers -> PCs] /\ cur_task_ \in [Workers -> Tasks \cup {Null}]
    BY Zenon DEF IInv, TypeOK
<1>2. /\ pc[w] = "complete" /\ pc' = [pc EXCEPT ![w] = "lane"]
      /\ cur_task_' = [cur_task_ EXCEPT ![w] = Null]
      /\ ingress' = ingress /\ fail' = fail /\ active_tasks_' = active_tasks_
    BY DEF SetComplete, lanes
<1>3. <<"hand", w>> \in Tokens(t) /\ At(t, {<<"hand", w>>})
    <2>1. <<"hand", w>> \in Tokens(t)
        BY <1>2, TokensAre, Zenon
    <2> QED
        BY <2>1, OnlyToken, Zenon
<1>4. /\ \A v \in Workers : ~In(ingress[v], t) /\ ~In(fail[v], t) /\ ~Wakes(v, t)
      /\ \A v \in Workers : Holds(v, t) => v = w
      /\ \A m \in Lanes : ~In(active_tasks_[m], t)
    BY <1>3 DEF At
<1>5. \A s \in Tasks, v \in Workers : (Holds(v, s)' <=> Holds(v, s) /\ v # w) /\ (Wakes(v, s)' <=> Wakes(v, s))
    BY <1>1, <1>2, LetsGo, Zenon
<1>6. LandsAt(t, {})
    BY <1>2, <1>4, <1>5, Zenon DEF LandsAt
<1>7. ASSUME NEW s \in Tasks, s # t PROVE LandsAt(s, Tokens(s))
    <2>1. \A v \in Workers : Holds(v, s)' <=> Holds(v, s)
        BY <1>5, <1>7, Zenon DEF Holds
    <2> QED
        BY <1>2, <1>5, <2>1, AtTokens, Zenon DEF At, LandsAt
<1>8. {} \in SUBSET Tags
    OBVIOUS
<1> QED
    BY <1>3, <1>6, <1>7, <1>8, TokensMove, Zenon

(* Park moves no task: the one it lets go of had no token, or one in the    *)
(* fail queue.                                                              *)
LEMMA ParkMoves ==
    ASSUME NEW w \in Workers, IInv, Park(w)
    PROVE  Unmoved
<1>1. pc \in [Workers -> PCs] /\ cur_task_ \in [Workers -> Tasks \cup {Null}]
    BY Zenon DEF IInv, TypeOK
<1>2. /\ pc[w] = "park" /\ pc' = [pc EXCEPT ![w] = "lane"]
      /\ cur_task_' = [cur_task_ EXCEPT ![w] = Null]
      /\ ingress' = ingress /\ fail' = fail /\ active_tasks_' = active_tasks_
    BY DEF Park, lanes
<1>3. \A s \in Tasks, v \in Workers : (Holds(v, s)' <=> Holds(v, s) /\ v # w) /\ (Wakes(v, s)' <=> Wakes(v, s))
    BY <1>1, <1>2, LetsGo, Zenon
<1>4. \A s \in Tasks, v \in Workers : Holds(v, s)' <=> Holds(v, s)
    BY <1>2, <1>3, Zenon DEF Holds
<1> QED
    BY <1>2, <1>3, <1>4, StaysUnmoved, Zenon

(* A Wait that blocks takes the token of the task in hand away; one that    *)
(* does not moves nothing.                                                  *)
LEMMA WaitMoves ==
    ASSUME NEW w \in Workers, NEW S, NEW t \in Tasks, IInv, Wait(w, S), t = cur_task_[w]
    PROVE  /\ <<"hand", w>> \in Tokens(t)
           /\ \/ pc' = [pc EXCEPT ![w] = "park"] /\ block_count_'[t] # 0 /\ Moved(t, {})
              \/ pc' = [pc EXCEPT ![w] = "pushback"] /\ block_count_'[t] = 0 /\ Unmoved
<1>1. /\ pc \in [Workers -> PCs] /\ cur_task_ \in [Workers -> Tasks \cup {Null}]
      /\ block_count_ \in [Tasks -> Int]
    BY Zenon DEF IInv, TypeOK
<1>2. /\ pc[w] = "run" /\ cur_task_' = cur_task_
      /\ block_count_' = [block_count_ EXCEPT ![t] = @ + BlockedBy(S)]
      /\ pc' = [pc EXCEPT ![w] = IF block_count_[t] + BlockedBy(S) # 0 THEN "park" ELSE "pushback"]
      /\ ingress' = ingress /\ fail' = fail /\ active_tasks_' = active_tasks_
    BY DEF Wait, lanes
<1>3. block_count_'[t] = block_count_[t] + BlockedBy(S)
    BY <1>1, <1>2, Zenon
<1>4. <<"hand", w>> \in Tokens(t) /\ At(t, {<<"hand", w>>})
    <2>1. <<"hand", w>> \in Tokens(t)
        BY <1>2, TokensAre, Zenon
    <2> QED
        BY <2>1, OnlyToken, Zenon
<1>5. CASE block_count_'[t] = 0
    <2>1. pc' = [pc EXCEPT ![w] = "pushback"]
        BY <1>2, <1>3, <1>5, Zenon
    <2>2. pc'[w] = "pushback" /\ \A v \in Workers : v # w => pc'[v] = pc[v]
        BY <1>1, <2>1
    <2>3. pc[w] \notin {"park", "wake"} /\ pc'[w] \notin {"park", "wake"}
        BY <1>2, <2>2
    <2>4. Unmoved
        BY <1>2, <2>2, <2>3, PcUnmoved, Zenon
    <2> QED
        BY <1>4, <1>5, <2>1, <2>4, Zenon
<1>6. CASE block_count_'[t] # 0
    <2>1. pc' = [pc EXCEPT ![w] = "park"]
        BY <1>2, <1>3, <1>6, Zenon
    <2>2. pc'[w] = "park" /\ \A v \in Workers : v # w => pc'[v] = pc[v]
        BY <1>1, <2>1
    <2>3. /\ \A v \in Workers : ~In(ingress[v], t) /\ ~In(fail[v], t) /\ ~Wakes(v, t)
          /\ \A v \in Workers : Holds(v, t) => v = w
          /\ \A m \in Lanes : ~In(active_tasks_[m], t)
        BY <1>4 DEF At
    <2>4. ASSUME NEW s \in Tasks, NEW v \in Workers
          PROVE  (Holds(v, s)' <=> Holds(v, s) /\ v # w) /\ (Wakes(v, s)' <=> Wakes(v, s))
        <3>1. CASE v = w
            BY <1>2, <2>2, <3>1 DEF Holds, Wakes
        <3>2. CASE v # w
            BY <1>2, <2>2, <3>2, Zenon DEF Holds, Wakes
        <3> QED
            BY <3>1, <3>2, Zenon
    <2>5. LandsAt(t, {})
        BY <1>2, <2>3, <2>4, Zenon DEF LandsAt
    <2>6. ASSUME NEW s \in Tasks, s # t PROVE LandsAt(s, Tokens(s))
        <3>1. \A v \in Workers : Holds(v, s)' <=> Holds(v, s)
            BY <2>4, <2>6, Zenon DEF Holds
        <3> QED
            BY <1>2, <2>4, <3>1, AtTokens, Zenon DEF At, LandsAt
    <2>7. {} \in SUBSET Tags
        OBVIOUS
    <2>8. Moved(t, {})
        BY <2>5, <2>6, <2>7, TokensMove, Zenon
    <2> QED
        BY <1>4, <1>6, <2>1, <2>8, Zenon
<1> QED
    BY <1>5, <1>6, Zenon

(* A signal makes a token for the parent if it brings block_count_ to zero, *)
(* and moves nothing otherwise.                                             *)
LEMMA SignalMoves ==
    ASSUME NEW w \in Workers, NEW c \in Tasks, IInv, SignalUnblock(w), c = cur_task_[w]
    PROVE  \E t \in Tasks :
            /\ t = ParentOf[c] /\ pc[w] = "signal"
            /\ block_count_' = [block_count_ EXCEPT ![t] = @ - 1]
            /\ \/ /\ block_count_[t] = 1 /\ pc' = [pc EXCEPT ![w] = "wake"]
                  /\ Tokens(t) = {} /\ Moved(t, {<<"wake", w>>})
               \/ block_count_[t] # 1 /\ pc' = [pc EXCEPT ![w] = "complete"] /\ Unmoved
<1>1. /\ pc \in [Workers -> PCs] /\ cur_task_ \in [Workers -> Tasks \cup {Null}]
      /\ block_count_ \in [Tasks -> Int]
    BY Zenon DEF IInv, TypeOK
<1>2. pc[w] = "signal"
    BY Zenon DEF SignalUnblock
<1>3. PICK t \in Tasks : t = ParentOf[c]
    BY <1>2, SchedAssumption DEF IInv, CoInv, TaskOk
<1>4. /\ block_count_' = [block_count_ EXCEPT ![t] = @ - 1]
      /\ pc' = [pc EXCEPT ![w] = IF Unblocks(t) THEN "wake" ELSE "complete"]
      /\ ingress' = ingress /\ fail' = fail /\ active_tasks_' = active_tasks_ /\ cur_task_' = cur_task_
    BY <1>3, Zenon DEF SignalUnblock, lanes
<1>5. Unblocks(t) <=> block_count_[t] = 1
    BY <1>1 DEF Unblocks
<1>6. CASE block_count_[t] # 1
    <2>1. pc' = [pc EXCEPT ![w] = "complete"]
        BY <1>4, <1>5, <1>6, Zenon
    <2>2. pc'[w] = "complete" /\ \A v \in Workers : v # w => pc'[v] = pc[v]
        BY <1>1, <2>1
    <2>3. pc[w] \notin {"park", "wake"} /\ pc'[w] \notin {"park", "wake"}
        BY <1>2, <2>2
    <2>4. Unmoved
        BY <1>4, <2>2, <2>3, PcUnmoved, Zenon
    <2> QED
        BY <1>2, <1>3, <1>4, <1>6, <2>1, <2>4, Zenon
<1>7. CASE block_count_[t] = 1
    <2>1. pc' = [pc EXCEPT ![w] = "wake"]
        BY <1>4, <1>5, <1>7, Zenon
    <2>2. pc'[w] = "wake" /\ \A v \in Workers : v # w => pc'[v] = pc[v]
        BY <1>1, <2>1
    <2>3. Tokens(t) = {} /\ At(t, {})
        <3>1. block_count_[t] > 0
            BY <1>7
        <3>2. Tokens(t) = {}
            BY <3>1, Zenon DEF IInv, TokenInv
        <3> QED
            BY <3>2, AtTokens, Zenon
    <2>4. /\ \A v \in Workers : ~In(ingress[v], t) /\ ~In(fail[v], t) /\ ~Wakes(v, t) /\ ~Holds(v, t)
          /\ \A m \in Lanes : ~In(active_tasks_[m], t)
        BY <2>3 DEF At
    <2>5. ASSUME NEW s \in Tasks, NEW v \in Workers
          PROVE  (Holds(v, s)' <=> Holds(v, s)) /\ (Wakes(v, s)' <=> Wakes(v, s) \/ (s = t /\ v = w))
        <3>1. CASE v = w
            BY <1>2, <1>3, <1>4, <2>2, <3>1 DEF Holds, Wakes
        <3>2. CASE v # w
            BY <1>4, <2>2, <3>2, Zenon DEF Holds, Wakes
        <3> QED
            BY <3>1, <3>2, Zenon
    <2> DEFINE X == {<<"wake", w>>}
    <2>6. \A v : /\ <<"ingress", v>> \notin X /\ <<"fail", v>> \notin X /\ <<"lane", v>> \notin X
                 /\ <<"hand", v>> \notin X /\ (<<"wake", v>> \in X <=> v = w)
        OBVIOUS
    <2>7. X \in SUBSET Tags
        BY DEF Tags
    <2> HIDE DEF X
    <2>8. LandsAt(t, X)
        BY <1>4, <2>4, <2>5, <2>6, Zenon DEF LandsAt
    <2>9. ASSUME NEW s \in Tasks, s # t PROVE LandsAt(s, Tokens(s))
        <3>1. \A v \in Workers : (Holds(v, s)' <=> Holds(v, s)) /\ (Wakes(v, s)' <=> Wakes(v, s))
            BY <2>5, <2>9, Zenon
        <3> QED
            BY <1>4, <3>1, AtTokens, Zenon DEF At, LandsAt
    <2>10. Moved(t, X)
        BY <2>7, <2>8, <2>9, TokensMove, Zenon
    <2> QED
        BY <1>2, <1>3, <1>4, <1>7, <2>1, <2>3, <2>10, Zenon DEF X
<1> QED
    BY <1>6, <1>7, Zenon

(* RunTask takes the first task of the lane in hand.                        *)
LEMMA RunTaskMoves ==
    ASSUME NEW w \in Workers, IInv, RunTask(w)
    PROVE  \E t \in Tasks, l \in Lanes :
            /\ l = cur_lane_[w] /\ <<"lane", l>> \in Tokens(t) /\ Moved(t, {<<"hand", w>>})
            /\ active_tasks_' \in [Lanes -> Seq(Tasks)] /\ \A m \in Lanes : Single(active_tasks_'[m])
            /\ Len(active_tasks_[l]) \in Nat \ {0} /\ Len(active_tasks_'[l]) = Len(active_tasks_[l]) - 1
            /\ \A m \in Lanes : m # l => active_tasks_'[m] = active_tasks_[m]
            /\ pc' = [pc EXCEPT ![w] = "run"] /\ cur_task_' = [cur_task_ EXCEPT ![w] = t]
            /\ co' = [co EXCEPT ![t] = "ready"]
            /\ waited' = [waited EXCEPT ![t] = @ \cup pending[t]]
            /\ pending' = [pending EXCEPT ![t] = {}]
            /\ UNCHANGED done_tasks
<1>1. /\ pc \in [Workers -> PCs] /\ cur_task_ \in [Workers -> Tasks \cup {Null}]
      /\ block_count_ \in [Tasks -> Int] /\ cur_lane_ \in [Workers -> Lanes \cup {Null}]
      /\ active_tasks_ \in [Lanes -> Seq(Tasks)] /\ \A m \in Lanes : Single(active_tasks_[m])
    BY Zenon DEF IInv, TypeOK, QueuesInv
<1>2. pc[w] = "lane"
    BY Zenon DEF RunTask
<1>3. PICK l \in Lanes : l = cur_lane_[w]
    BY <1>1, <1>2 DEF IInv, WorkerInv, WorkerOk
<1>4. /\ active_tasks_[l] # <<>> /\ active_tasks_' = [active_tasks_ EXCEPT ![l] = Tail(@)]
      /\ ingress' = ingress /\ fail' = fail
    BY <1>3 DEF RunTask
<1>5. /\ active_tasks_'[l] = Tail(active_tasks_[l]) /\ active_tasks_[l] \in Seq(Tasks)
      /\ \A m \in Lanes : m # l => active_tasks_'[m] = active_tasks_[m]
    BY <1>1, <1>4
<1>6. PICK t \in Tasks :
        /\ t = Head(active_tasks_[l])
        /\ active_tasks_'[l] \in Seq(Tasks) /\ Single(active_tasks_'[l]) /\ In(active_tasks_[l], t)
        /\ Len(active_tasks_[l]) \in Nat \ {0} /\ Len(active_tasks_'[l]) = Len(active_tasks_[l]) - 1
        /\ \A s : In(active_tasks_'[l], s) <=> In(active_tasks_[l], s) /\ s # t
    BY <1>1, <1>4, <1>5, TailIn
<1>7. active_tasks_' \in [Lanes -> Seq(Tasks)] /\ \A m \in Lanes : Single(active_tasks_'[m])
    <2>1. \A m \in Lanes : Single(active_tasks_'[m])
        BY <1>1, <1>5, <1>6, Zenon
    <2>2. active_tasks_' \in [Lanes -> Seq(Tasks)]
        BY <1>1, <1>4, <1>5, <1>6
    <2> QED
        BY <2>1, <2>2, Zenon
<1>8. <<"lane", l>> \in Tokens(t) /\ At(t, {<<"lane", l>>})
    BY <1>6, TokensAre, OnlyToken, Zenon
<1>9. ~(block_count_[t] > 0)
    BY <1>8, Zenon DEF IInv, TokenInv
<1>10. /\ pc' = [pc EXCEPT ![w] = "run"] /\ cur_task_' = [cur_task_ EXCEPT ![w] = t]
       /\ co' = [co EXCEPT ![t] = "ready"]
       /\ waited' = [waited EXCEPT ![t] = @ \cup pending[t]]
       /\ pending' = [pending EXCEPT ![t] = {}]
       /\ UNCHANGED done_tasks
    BY <1>3, <1>6, <1>9, Zenon DEF RunTask
<1>11. /\ pc'[w] = "run" /\ cur_task_'[w] = t
       /\ \A v \in Workers : v # w => pc'[v] = pc[v] /\ cur_task_'[v] = cur_task_[v]
    BY <1>1, <1>10
<1>12. /\ \A v \in Workers : ~In(ingress[v], t) /\ ~In(fail[v], t) /\ ~Wakes(v, t) /\ ~Holds(v, t)
       /\ \A m \in Lanes : In(active_tasks_[m], t) => m = l
    BY <1>8 DEF At
<1>13. cur_task_[w] = Null
    BY <1>2 DEF IInv, WorkerInv, WorkerOk, Running
<1>14. ASSUME NEW s \in Tasks, NEW v \in Workers
       PROVE  (Holds(v, s)' <=> Holds(v, s) \/ (s = t /\ v = w)) /\ (Wakes(v, s)' <=> Wakes(v, s))
    <2>1. CASE v = w
        <3>1. Holds(w, s)' <=> s = t
            BY <1>11 DEF Holds
        <3>2. ~Holds(w, s)
            BY <1>13, SchedAssumption, Zenon DEF Holds
        <3>3. ~Wakes(w, s) /\ ~Wakes(w, s)'
            BY <1>2, <1>11 DEF Wakes
        <3> QED
            BY <2>1, <3>1, <3>2, <3>3, Zenon
    <2>2. CASE v # w
        BY <1>11, <2>2, Zenon DEF Holds, Wakes
    <2> QED
        BY <2>1, <2>2, Zenon
<1>15. ASSUME NEW s \in Tasks, NEW m \in Lanes
       PROVE  In(active_tasks_'[m], s) <=> In(active_tasks_[m], s) /\ s # t
    <2>1. CASE m = l
        BY <1>6, <2>1, Zenon
    <2>2. CASE m # l
        BY <1>5, <1>12, <2>2, Zenon
    <2> QED
        BY <2>1, <2>2, Zenon
<1> DEFINE X == {<<"hand", w>>}
<1>16. \A v : /\ <<"ingress", v>> \notin X /\ <<"fail", v>> \notin X /\ <<"lane", v>> \notin X
              /\ <<"wake", v>> \notin X /\ (<<"hand", v>> \in X <=> v = w)
    OBVIOUS
<1>17. X \in SUBSET Tags
    BY DEF Tags
<1> HIDE DEF X
<1>18. LandsAt(t, X)
    <2>1. \A v \in Workers : ~In(ingress'[v], t) /\ ~In(fail'[v], t)
        BY <1>4, <1>12, Zenon
    <2>2. \A m \in Lanes : ~In(active_tasks_'[m], t)
        BY <1>15, Zenon
    <2>3. \A v \in Workers : (Holds(v, t)' <=> v = w) /\ ~Wakes(v, t)'
        BY <1>12, <1>14, Zenon
    <2> QED
        BY <1>16, <2>1, <2>2, <2>3, Zenon DEF LandsAt
<1>19. ASSUME NEW s \in Tasks, s # t PROVE LandsAt(s, Tokens(s))
    <2>1. /\ \A v \in Workers : (Holds(v, s)' <=> Holds(v, s)) /\ (Wakes(v, s)' <=> Wakes(v, s))
          /\ \A m \in Lanes : In(active_tasks_'[m], s) <=> In(active_tasks_[m], s)
        BY <1>14, <1>15, <1>19, Zenon
    <2> QED
        BY <1>4, <2>1, AtTokens, Zenon DEF At, LandsAt
<1>20. Moved(t, X)
    BY <1>17, <1>18, <1>19, TokensMove, Zenon
<1> QED
    BY <1>3, <1>5, <1>6, <1>7, <1>8, <1>10, <1>20, Zenon DEF X
-----------------------------------------------------------------------------
(* What a step keeps, from what it does to the tokens.                      *)
Queued == {"ingress", "fail", "lane", "wake"}

(* The tokens X are right for a task with these values.                     *)
TokensOk(X, coroutine, blocks) ==
    /\ \A x, y \in X : x = y
    /\ coroutine = "new" => X = {}
    /\ blocks > 0 => coroutine = "wait" /\ X = {}
    /\ \A x \in X : x[1] \in Queued => coroutine \in {"ready", "wait"}

(* TokenInv, task by task, before and after a step.                         *)
LEMMA TokenInvIs ==
    /\ TokenInv <=> \A s \in Tasks : TokensOk(Tokens(s), co[s], block_count_[s])
    /\ TokenInv' <=> \A s \in Tasks : TokensOk(Tokens(s)', co'[s], block_count_'[s])
    BY Zenon DEF TokenInv, TokensOk, Queued

(* A move to tokens that are right for the task keeps TokenInv, and         *)
(* AwakeInv unless it leaves the task nothing to wait for.                  *)
LEMMA MovedKeepsTokens ==
    ASSUME IInv, NEW t \in Tasks, NEW X, Moved(t, X),
           \A s \in Tasks : s # t => co'[s] = co[s] /\ block_count_'[s] = block_count_[s],
           TokensOk(X, co'[t], block_count_'[t])
    PROVE  /\ TokenInv'
           /\ AwakeInv /\ (co'[t] \in {"ready", "wait"} => X # {} \/ block_count_'[t] > 0) => AwakeInv'
<1>1. TokenInv'
    <2>1. ASSUME NEW s \in Tasks PROVE TokensOk(Tokens(s)', co'[s], block_count_'[s])
        <3>1. CASE s = t
            BY <3>1, Zenon DEF Moved
        <3>2. CASE s # t
            <4>1. Tokens(s)' = Tokens(s) /\ co'[s] = co[s] /\ block_count_'[s] = block_count_[s]
                BY <3>2, Zenon DEF Moved
            <4>2. TokensOk(Tokens(s), co[s], block_count_[s])
                BY TokenInvIs, Zenon DEF IInv
            <4> QED
                BY <4>1, <4>2, Zenon
        <3> QED
            BY <3>1, <3>2, Zenon
    <2> QED
        BY <2>1, TokenInvIs, Zenon
<1>2. ASSUME AwakeInv, co'[t] \in {"ready", "wait"} => X # {} \/ block_count_'[t] > 0
      PROVE  AwakeInv'
    <2> SUFFICES ASSUME NEW s \in Tasks
                 PROVE  co'[s] \in {"ready", "wait"} => Tokens(s)' # {} \/ block_count_'[s] > 0
        BY Zenon DEF AwakeInv
    <2>1. CASE s = t
        BY <1>2, <2>1, Zenon DEF Moved
    <2>2. CASE s # t
        BY <1>2, <2>2, Zenon DEF Moved, AwakeInv
    <2> QED
        BY <2>1, <2>2, Zenon
<1> QED
    BY <1>1, <1>2, Zenon

(* When nothing moves, any task moves to where it is.                       *)
LEMMA UnmovedMoved ==
    ASSUME Unmoved, NEW t \in Tasks, NEW X, X = Tokens(t)
    PROVE  Moved(t, X)
    BY Zenon DEF Unmoved, Moved

(* When nothing moves and no coroutine changes, TokenInv and AwakeInv stay. *)
LEMMA UnmovedKeepsTokens ==
    ASSUME IInv, Unmoved, co' = co, block_count_' = block_count_
    PROVE  TokenInv' /\ (AwakeInv => AwakeInv')
<1>1. TokenInv'
    <2>1. ASSUME NEW s \in Tasks PROVE TokensOk(Tokens(s)', co'[s], block_count_'[s])
        <3>1. Tokens(s)' = Tokens(s)
            BY Zenon DEF Unmoved
        <3>2. TokensOk(Tokens(s), co[s], block_count_[s])
            BY TokenInvIs, Zenon DEF IInv
        <3> QED
            BY <3>1, <3>2, Zenon
    <2> QED
        BY <2>1, TokenInvIs, Zenon
<1>2. ASSUME AwakeInv PROVE AwakeInv'
    BY <1>2, Zenon DEF AwakeInv, Unmoved
<1> QED
    BY <1>1, <1>2, Zenon

(* Routes are chosen once, lanes hold the tasks routed to them.             *)
RoutesKept == \A s \in Tasks : route_lane_[s] # Null => route_lane_'[s] = route_lane_[s]

(* A move to the lane that the task is routed to keeps RouteInv.            *)
LEMMA MovedKeepsRoutes ==
    ASSUME IInv, NEW t \in Tasks, NEW X, Moved(t, X), RoutesKept,
           \A s \in Tasks : s # t => route_lane_'[s] = route_lane_[s],
           \A l \in Lanes : <<"lane", l>> \in X => route_lane_'[t] = l,
           \A c \in Tasks : \/ co'[c] = "new" \/ co[c] # "new" \/ ParentOf[c] = Null
                            \/ route_lane_[ParentOf[c]] # Null
    PROVE  RouteInv'
<1>1. ASSUME NEW l \in Lanes, NEW s \in Tasks, In(active_tasks_'[l], s) PROVE route_lane_'[s] = l
    <2>1. <<"lane", l>> \in Tokens(s)'
        BY <1>1, TokensAfter, Zenon
    <2>2. CASE s = t
        BY <2>1, <2>2, Zenon DEF Moved
    <2>3. CASE s # t
        <3>1. <<"lane", l>> \in Tokens(s)
            BY <2>1, <2>3, Zenon DEF Moved
        <3>2. In(active_tasks_[l], s)
            BY <3>1, TokensAre, Zenon
        <3>3. route_lane_[s] = l
            BY <3>2, Zenon DEF IInv, RouteInv
        <3> QED
            BY <2>3, <3>3, Zenon
    <2> QED
        BY <2>2, <2>3, Zenon
<1>2. ASSUME NEW c \in Tasks, ParentOf[c] # Null, co'[c] # "new" PROVE route_lane_'[ParentOf[c]] # Null
    <2>1. ParentOf[c] \in Tasks
        BY <1>2, SchedAssumption
    <2>2. route_lane_[ParentOf[c]] # Null
        BY <1>2, Zenon DEF IInv, RouteInv
    <2> QED
        BY <2>1, <2>2, Zenon DEF RoutesKept
<1> QED
    BY <1>1, <1>2, Zenon DEF RouteInv

(* When nothing moves, RouteInv stays.                                      *)
LEMMA UnmovedKeepsRoutes ==
    ASSUME IInv, Unmoved, route_lane_' = route_lane_,
           \A c \in Tasks : co'[c] = "new" \/ co[c] # "new"
    PROVE  RouteInv'
<1>1. ASSUME NEW l \in Lanes, NEW s \in Tasks, In(active_tasks_'[l], s) PROVE route_lane_'[s] = l
    <2>1. <<"lane", l>> \in Tokens(s)'
        BY <1>1, TokensAfter, Zenon
    <2>2. <<"lane", l>> \in Tokens(s)
        BY <2>1, Zenon DEF Unmoved
    <2>3. In(active_tasks_[l], s)
        BY <2>2, TokensAre, Zenon
    <2> QED
        BY <2>3, Zenon DEF IInv, RouteInv
<1>2. ASSUME NEW c \in Tasks, ParentOf[c] # Null, co'[c] # "new" PROVE route_lane_'[ParentOf[c]] # Null
    BY <1>2, Zenon DEF IInv, RouteInv
<1> QED
    BY <1>1, <1>2, Zenon DEF RouteInv

(* Nobody takes a task in hand or starts to park one.                       *)
HandsKept ==
    \A v \in Workers : /\ cur_task_'[v] = cur_task_[v] \/ cur_task_'[v] = Null
                       /\ pc'[v] = "park" => pc[v] = "park" /\ cur_task_'[v] = cur_task_[v]

(* The tokens X are right for a task that v is about to park.               *)
ParkOk(X, v) == \A x \in X : x = <<"fail", v>> \/ x[1] = "wake"

(* A move keeps HandInv if it suits the worker that is about to park the    *)
(* task.                                                                    *)
LEMMA MovedKeepsHands ==
    ASSUME IInv, NEW t \in Tasks, NEW X, Moved(t, X), HandsKept,
           \A v \in Workers : pc[v] = "park" /\ cur_task_[v] = t => ParkOk(X, v)
    PROVE  HandInv'
<1>1. ASSUME NEW v \in Workers, NEW w \in Workers, cur_task_'[v] = cur_task_'[w], cur_task_'[v] # Null
      PROVE  v = w
    <2>1. cur_task_'[v] = cur_task_[v] /\ cur_task_'[w] = cur_task_[w]
        BY <1>1, Zenon DEF HandsKept
    <2>2. cur_task_[v] = cur_task_[w] /\ cur_task_[v] # Null
        BY <1>1, <2>1, Zenon
    <2> QED
        BY <2>2, Zenon DEF IInv, HandInv
<1>2. ASSUME NEW v \in Workers, pc'[v] = "park" PROVE ParkOk(Tokens(cur_task_[v])', v)
    <2>1. pc[v] = "park" /\ cur_task_'[v] = cur_task_[v]
        BY <1>2, Zenon DEF HandsKept
    <2>2. PICK s \in Tasks : s = cur_task_[v]
        <3>1. cur_task_[v] \in Tasks \cup {Null}
            BY Zenon DEF IInv, TypeOK
        <3>2. cur_task_[v] # Null
            BY <2>1 DEF IInv, WorkerInv, WorkerOk, Running
        <3> QED
            BY <3>1, <3>2
    <2>3. ParkOk(Tokens(s), v)
        BY <2>1, <2>2, Zenon DEF IInv, HandInv, ParkOk
    <2>4. ParkOk(Tokens(s)', v)
        BY <2>1, <2>2, <2>3, Zenon DEF Moved
    <2>5. cur_task_'[v] = s
        BY <2>1, <2>2, Zenon
    <2> QED
        BY <2>4, <2>5, Zenon DEF Tokens, Token
<1> QED
    BY <1>1, <1>2, Zenon DEF HandInv, ParkOk

(* When nothing moves, HandInv stays.                                       *)
LEMMA UnmovedKeepsHands ==
    ASSUME IInv, Unmoved, HandsKept
    PROVE  HandInv'
<1>1. ASSUME NEW v \in Workers, NEW w \in Workers, cur_task_'[v] = cur_task_'[w], cur_task_'[v] # Null
      PROVE  v = w
    <2>1. cur_task_'[v] = cur_task_[v] /\ cur_task_'[w] = cur_task_[w]
        BY <1>1, Zenon DEF HandsKept
    <2>2. cur_task_[v] = cur_task_[w] /\ cur_task_[v] # Null
        BY <1>1, <2>1, Zenon
    <2> QED
        BY <2>2, Zenon DEF IInv, HandInv
<1>2. ASSUME NEW v \in Workers, pc'[v] = "park" PROVE ParkOk(Tokens(cur_task_[v])', v)
    <2>1. pc[v] = "park" /\ cur_task_'[v] = cur_task_[v]
        BY <1>2, Zenon DEF HandsKept
    <2>2. PICK s \in Tasks : s = cur_task_[v]
        <3>1. cur_task_[v] \in Tasks \cup {Null}
            BY Zenon DEF IInv, TypeOK
        <3>2. cur_task_[v] # Null
            BY <2>1 DEF IInv, WorkerInv, WorkerOk, Running
        <3> QED
            BY <3>1, <3>2
    <2>3. ParkOk(Tokens(s)', v)
        BY <2>1, <2>2, Zenon DEF IInv, HandInv, ParkOk, Unmoved
    <2>4. cur_task_'[v] = s
        BY <2>1, <2>2, Zenon
    <2> QED
        BY <2>3, <2>4, Zenon DEF Tokens, Token
<1> QED
    BY <1>1, <1>2, Zenon DEF HandInv, ParkOk

(* A step of worker w leaves the others where they are.                     *)
OthersStay(w) ==
    \A v \in Workers : v # w =>
        /\ pc'[v] = pc[v] /\ cur_task_'[v] = cur_task_[v] /\ cur_lane_'[v] = cur_lane_[v]
        /\ prio'[v] = prio[v] /\ num'[v] = num[v] /\ done_tasks'[v] = done_tasks[v]

(* A step of w keeps WorkerInv if it leaves w in order.                     *)
LEMMA WorkersKept ==
    ASSUME IInv, NEW w \in Workers, OthersStay(w), RoutesKept, WorkerOk(w)'
    PROVE  WorkerInv'
<1>1. ASSUME NEW v \in Workers, v # w PROVE WorkerOk(v)'
    <2>1. /\ pc'[v] = pc[v] /\ cur_task_'[v] = cur_task_[v] /\ cur_lane_'[v] = cur_lane_[v]
          /\ prio'[v] = prio[v]
        BY <1>1, Zenon DEF OthersStay
    <2>2. WorkerOk(v)
        BY Zenon DEF IInv, WorkerInv
    <2>3. cur_task_[v] # Null => cur_task_[v] \in Tasks /\ cur_lane_[v] # Null
        BY <2>2 DEF IInv, TypeOK, WorkerOk
    <2>4. cur_task_[v] # Null => route_lane_'[cur_task_[v]] = cur_lane_[v]
        BY <2>2, <2>3, Zenon DEF RoutesKept, WorkerOk
    <2> QED
        BY <2>1, <2>2, <2>4, Zenon DEF WorkerOk
<1> QED
    BY <1>1, Zenon DEF WorkerInv

(* No queue that a snapshot was taken of gets shorter, but those of w.      *)
QueuesGrow(w) ==
    \A v \in Workers : v # w =>
        /\ \A k \in Prios : Len(active_lanes_'[v][k]) >= Len(active_lanes_[v][k])
        /\ Len(fail'[v]) >= Len(fail[v])

(* The lengths and snapshots of a worker are numbers.                       *)
LEMMA LengthsAre ==
    ASSUME TypeOK, NEW v \in Workers
    PROVE  /\ num[v] \in Nat /\ Len(fail[v]) \in Nat /\ prio[v] \in Prios
           /\ \A k \in Prios : active_lanes_[v][k] \in Seq(Lanes) /\ Len(active_lanes_[v][k]) \in Nat
<1>1. num \in [Workers -> Nat] /\ fail \in [Workers -> Seq(Tasks)] /\ prio \in [Workers -> Prios]
    BY Zenon DEF TypeOK, Prios
<1>2. active_lanes_ \in [Workers -> [Prios -> Seq(Lanes)]]
    BY Zenon DEF TypeOK, Prios
<1>3. num[v] \in Nat /\ fail[v] \in Seq(Tasks) /\ prio[v] \in Prios
    BY <1>1, Zenon
<1>4. \A k \in Prios : active_lanes_[v][k] \in Seq(Lanes)
    BY <1>2, Zenon
<1> QED
    BY <1>3, <1>4

(* The same after a step.                                                   *)
LEMMA LengthsAfter ==
    ASSUME TypeOK', NEW v \in Workers
    PROVE  /\ num'[v] \in Nat /\ Len(fail'[v]) \in Nat
           /\ \A k \in Prios : Len(active_lanes_'[v][k]) \in Nat
<1>1. num' \in [Workers -> Nat] /\ fail' \in [Workers -> Seq(Tasks)]
    BY Zenon DEF TypeOK
<1>2. active_lanes_' \in [Workers -> [Prios -> Seq(Lanes)]]
    BY Zenon DEF TypeOK, Prios
<1>3. num'[v] \in Nat /\ fail'[v] \in Seq(Tasks)
    BY <1>1, Zenon
<1>4. \A k \in Prios : active_lanes_'[v][k] \in Seq(Lanes)
    BY <1>2, Zenon
<1> QED
    BY <1>3, <1>4

(* A step of w keeps the snapshots of the others if their queues do not get *)
(* shorter.                                                                 *)
LEMMA SnapshotsKept ==
    ASSUME IInv, TypeOK', NEW w \in Workers, OthersStay(w), QueuesGrow(w), SnapshotOk(w)'
    PROVE  SnapshotInv'
<1>1. ASSUME NEW v \in Workers, v # w PROVE SnapshotOk(v)'
    <2>1. pc'[v] = pc[v] /\ prio'[v] = prio[v] /\ num'[v] = num[v]
        BY <1>1, Zenon DEF OthersStay
    <2>2. /\ Len(active_lanes_'[v][prio[v]]) >= Len(active_lanes_[v][prio[v]])
          /\ Len(fail'[v]) >= Len(fail[v])
        BY <1>1, LengthsAre, Zenon DEF QueuesGrow, IInv
    <2>3. /\ num[v] \in Nat /\ Len(fail[v]) \in Nat /\ Len(active_lanes_[v][prio[v]]) \in Nat
        BY LengthsAre, Zenon DEF IInv
    <2>4. Len(fail'[v]) \in Nat /\ Len(active_lanes_'[v][prio[v]]) \in Nat
        BY LengthsAre, LengthsAfter, Zenon DEF IInv
    <2>5. SnapshotOk(v)
        BY Zenon DEF IInv, SnapshotInv
    <2>6. num[v] <= Len(active_lanes_[v][prio[v]]) => num[v] <= Len(active_lanes_'[v][prio[v]])
        BY <2>2, <2>3, <2>4
    <2>7. num[v] <= Len(fail[v]) => num[v] <= Len(fail'[v])
        BY <2>2, <2>3, <2>4
    <2> QED
        BY <2>1, <2>5, <2>6, <2>7, Zenon DEF SnapshotOk
<1> QED
    BY <1>1, Zenon DEF SnapshotInv

(* A step that takes no part in counting.                                   *)
LEMMA BlocksKept ==
    ASSUME IInv, block_count_' = block_count_, waited' = waited, pending' = pending, signalled' = signalled
    PROVE  BlockCountExact'
    BY Zenon DEF IInv, BlockCountExact, Signalling

(* A step of w keeps TaskOk of the others if their tasks stay as they are.  *)
LEMMA TasksKept ==
    ASSUME IInv, NEW w \in Workers, OthersStay(w), TaskOk(w)',
           \A v \in Workers : v # w /\ cur_task_[v] # Null =>
                co'[cur_task_[v]] = co[cur_task_[v]] /\ (cur_task_[v] \in signalled' => cur_task_[v] \in signalled)
    PROVE  \A v \in Workers : TaskOk(v)'
<1>1. ASSUME NEW v \in Workers, v # w PROVE TaskOk(v)'
    <2>1. pc'[v] = pc[v] /\ cur_task_'[v] = cur_task_[v]
        BY <1>1, Zenon DEF OthersStay
    <2>2. TaskOk(v) /\ WorkerOk(v)
        BY Zenon DEF IInv, CoInv, WorkerInv
    <2>3. CASE cur_task_[v] # Null
        <3>1. PICK s : s = cur_task_[v]
            OBVIOUS
        <3>2. co'[s] = co[s] /\ (s \in signalled' => s \in signalled) /\ cur_task_'[v] = s
            BY <1>1, <2>1, <2>3, <3>1, Zenon
        <3> QED
            BY <2>1, <2>2, <3>1, <3>2, Zenon DEF TaskOk
    <2>4. CASE cur_task_[v] = Null
        <3>1. pc[v] \notin Running
            BY <2>2, <2>4, Zenon DEF WorkerOk
        <3> QED
            BY <2>1, <3>1 DEF TaskOk, Running
    <2> QED
        BY <2>3, <2>4, Zenon
<1> QED
    BY <1>1, Zenon

(* RequestInv speaks of the counts, the lanes in hand and the requests      *)
(* only.                                                                    *)
LEMMA RequestsKept ==
    ASSUME IInv, count_' = count_, cur_lane_' = cur_lane_, active_lanes_' = active_lanes_
    PROVE  RequestInv'
<1>1. \A v \in Workers, k \in Prios, m \in Lanes : HasWork(v, k, m)' <=> HasWork(v, k, m)
    BY Zenon DEF HasWork
<1> QED
    BY <1>1, Zenon DEF IInv, RequestInv

(* The tasks in hand and those that are done with.                          *)
More(l) == IF cur_lane_[WorkerOf[l]] = l
           THEN done_tasks[WorkerOf[l]] + InHand(WorkerOf[l]) ELSE 0

(* CountInv, lane by lane, before and after a step.                         *)
LEMMA CountInvIs ==
    /\ CountInv <=> \A l \in Lanes : count_[l] = Len(active_tasks_[l]) + More(l)
    /\ CountInv' <=> \A l \in Lanes : count_'[l] = Len(active_tasks_'[l]) + More(l)'
    BY Zenon DEF CountInv, More

(* CountInv speaks of the counts, the lanes and what the workers have in    *)
(* hand only.                                                               *)
LEMMA CountsStay ==
    ASSUME IInv, count_' = count_, active_tasks_' = active_tasks_, cur_lane_' = cur_lane_,
           done_tasks' = done_tasks, cur_task_' = cur_task_
    PROVE  CountInv'
    BY Zenon DEF IInv, CountInv, InHand

(* A step of w on the task in hand that keeps the sum for its lane.         *)
LEMMA CountsKept ==
    ASSUME IInv, NEW w \in Workers, NEW l \in Lanes, l = cur_lane_[w], OthersStay(w),
           count_' = count_, cur_lane_' = cur_lane_,
           \A m \in Lanes : m # l => active_tasks_'[m] = active_tasks_[m],
           Len(active_tasks_'[l]) + (done_tasks'[w] + InHand(w)')
                = Len(active_tasks_[l]) + (done_tasks[w] + InHand(w))
    PROVE  CountInv'
<1>1. WorkerOf[l] = w
    <2>1. l # Null
        BY SchedAssumption
    <2> QED
        BY <2>1, Zenon DEF IInv, WorkerInv, WorkerOk
<1>2. More(l) = done_tasks[w] + InHand(w) /\ More(l)' = done_tasks'[w] + InHand(w)'
    BY <1>1, Zenon DEF More
<1>3. ASSUME NEW m \in Lanes, m # l PROVE More(m)' = More(m)
    <2>1. WorkerOf[m] \in Workers
        BY SchedAssumption
    <2>2. CASE WorkerOf[m] = w
        BY <1>3, <2>2, Zenon DEF More
    <2>3. CASE WorkerOf[m] # w
        BY <2>1, <2>3, Zenon DEF More, OthersStay, InHand
    <2> QED
        BY <2>2, <2>3, Zenon
<1>4. \A m \in Lanes : count_[m] = Len(active_tasks_[m]) + More(m)
    BY CountInvIs, Zenon DEF IInv
<1>5. ASSUME NEW m \in Lanes PROVE count_'[m] = Len(active_tasks_'[m]) + More(m)'
    <2>1. CASE m = l
        BY <1>2, <1>4, <2>1, Zenon
    <2>2. CASE m # l
        BY <1>3, <1>4, <2>2, Zenon
    <2> QED
        BY <2>1, <2>2, Zenon
<1> QED
    BY <1>5, CountInvIs, Zenon

(* Types by what changes together.                                          *)
QueueTypes ==
    /\ ingress \in [Workers -> Seq(Tasks)] /\ fail \in [Workers -> Seq(Tasks)]
    /\ active_tasks_ \in [Lanes -> Seq(Tasks)]
PollTypes ==
    /\ pc \in [Workers -> PCs] /\ prio \in [Workers -> {"low", "high"}]
    /\ iter \in [Workers -> 0..(Inner - 1)] /\ num \in [Workers -> Nat]
    /\ cur_lane_ \in [Workers -> Lanes \cup {Null}] /\ left \in [Workers -> Nat]
    /\ done_tasks \in [Workers -> Nat] /\ cur_task_ \in [Workers -> Tasks \cup {Null}]
    /\ created \in BOOLEAN
CoTypes ==
    /\ block_count_ \in [Tasks -> Int] /\ co \in [Tasks -> {"new", "ready", "wait", "ended"}]
    /\ pending \in [Tasks -> SUBSET Tasks] /\ waited \in [Tasks -> SUBSET Tasks]
    /\ yields \in [Tasks -> 0..MaxYields]
    /\ signalled \in SUBSET Tasks /\ complete \in SUBSET Tasks

(* The parts of TypeOK.                                                     *)
LEMMA TypesAre == TypeOK <=> QueueTypes /\ LaneTypes /\ PollTypes /\ CoTypes
    BY Zenon DEF TypeOK, QueueTypes, LaneTypes, PollTypes, CoTypes

(* The parts of TypeOK after a step.                                        *)
LEMMA TypesAfter == TypeOK' <=> QueueTypes' /\ LaneTypes' /\ PollTypes' /\ CoTypes'
    BY Zenon DEF TypeOK, QueueTypes, LaneTypes, PollTypes, CoTypes

(* Frames.                                                                  *)
LEMMA QueuesStay ==
    ASSUME IInv, ingress' = ingress, fail' = fail, active_tasks_' = active_tasks_
    PROVE  QueueTypes' /\ QueuesInv'
    BY TypesAre, Zenon DEF IInv, QueueTypes, QueuesInv

(* A step that runs no coroutine keeps what is known of them.               *)
LEMMA CoroutinesStay ==
    ASSUME IInv, UNCHANGED coroutines
    PROVE  /\ CoTypes' /\ BlockCountExact'
           /\ block_count_' = block_count_ /\ co' = co /\ pending' = pending /\ waited' = waited
           /\ signalled' = signalled
           /\ (CoversInv => CoversInv') /\ (DoneInv => DoneInv')
<1>1. /\ block_count_' = block_count_ /\ co' = co /\ pending' = pending /\ waited' = waited
      /\ yields' = yields /\ signalled' = signalled /\ complete' = complete
    BY DEF coroutines
<1>2. CoTypes'
    BY <1>1, TypesAre, Zenon DEF IInv, CoTypes
<1>3. BlockCountExact'
    BY <1>1, BlocksKept, Zenon
<1>4. \A t : Spawned(t)' = Spawned(t)
    BY <1>1, Zenon DEF Spawned, Signalling
<1>5. CoversInv => CoversInv'
    BY <1>1, <1>4, Zenon DEF CoversInv
<1>6. DoneInv => DoneInv'
    BY <1>1, Zenon DEF DoneInv
<1> QED
    BY <1>1, <1>2, <1>3, <1>5, <1>6, Zenon
-----------------------------------------------------------------------------
(* Every step keeps IInv.  First the steps of Run between lanes.            *)
LEMMA PollingKeeps ==
    ASSUME NEW w \in Workers, IInv, PollTypes',
           ingress' = ingress, fail' = fail, active_tasks_' = active_tasks_,
           active_lanes_' = active_lanes_, count_' = count_, route_lane_' = route_lane_,
           cur_task_' = cur_task_, cur_lane_' = cur_lane_, done_tasks' = done_tasks,
           UNCHANGED coroutines,
           \A v \in Workers : v # w => pc'[v] = pc[v] /\ prio'[v] = prio[v] /\ num'[v] = num[v],
           pc[w] \in {"ingest", "poll", "fail"}, pc'[w] \in {"ingest", "poll", "fail"},
           SnapshotOk(w)'
    PROVE  IInv'
<1>1. OthersStay(w)
    BY Zenon DEF OthersStay
<1>2. QueueTypes' /\ QueuesInv'
    BY QueuesStay, Zenon
<1>3. LaneTypes' /\ RoutesKept
    BY TypesAre, Zenon DEF IInv, LaneTypes, RoutesKept
<1>4. /\ CoTypes' /\ BlockCountExact'
      /\ block_count_' = block_count_ /\ co' = co /\ pending' = pending /\ waited' = waited
      /\ signalled' = signalled
      /\ (CoversInv => CoversInv') /\ (DoneInv => DoneInv')
    BY CoroutinesStay, Zenon
<1>5. TypeOK'
    BY <1>2, <1>3, <1>4, TypesAfter, Zenon
<1>6. cur_task_[w] = Null /\ cur_lane_[w] = Null
    BY DEF IInv, WorkerInv, WorkerOk, Running
<1>7. WorkerInv'
    <2>1. pc'[w] \notin Running \cup {"lane"} /\ pc'[w] \notin Running
        BY DEF Running
    <2>2. WorkerOk(w)'
        BY <1>6, <2>1, Zenon DEF WorkerOk
    <2> QED
        BY <1>1, <1>3, <2>2, WorkersKept, Zenon
<1>8. SnapshotInv'
    <2>1. QueuesGrow(w)
        <3>1. ASSUME NEW v \in Workers
              PROVE  /\ Len(fail'[v]) >= Len(fail[v])
                     /\ \A k \in Prios : Len(active_lanes_'[v][k]) >= Len(active_lanes_[v][k])
            BY LengthsAre DEF IInv
        <3> QED
            BY <3>1, Zenon DEF QueuesGrow
    <2> QED
        BY <1>1, <1>5, <2>1, SnapshotsKept, Zenon
<1>9. Unmoved
    <2>1. pc[w] \notin {"park", "wake"} /\ pc'[w] \notin {"park", "wake"}
        OBVIOUS
    <2> QED
        BY <2>1, PcUnmoved, Zenon
<1>10. TokenInv' /\ (AwakeInv => AwakeInv')
    BY <1>4, <1>9, UnmovedKeepsTokens, Zenon
<1>11. RouteInv'
    BY <1>4, <1>9, UnmovedKeepsRoutes, Zenon
<1>12. HandInv'
    <2>1. pc'[w] # "park"
        OBVIOUS
    <2>2. HandsKept
        BY <2>1, Zenon DEF HandsKept
    <2> QED
        BY <1>9, <2>2, UnmovedKeepsHands, Zenon
<1>13. CountInv' /\ RequestInv'
    BY CountsStay, RequestsKept, Zenon
<1>14. CoInv'
    <2>1. TaskOk(w)'
        BY DEF TaskOk
    <2>2. \A v \in Workers : TaskOk(v)'
        BY <1>1, <1>4, <2>1, TasksKept, Zenon
    <2> QED
        BY <1>4, <2>2, Zenon DEF IInv, CoInv, Signalling
<1> QED
    BY <1>2, <1>4, <1>5, <1>7, <1>8, <1>10, <1>11, <1>12, <1>13, <1>14, Zenon DEF IInv

(* EndIngest, which starts the poll of the lanes, keeps the invariant.      *)
LEMMA EndIngestKeeps ==
    ASSUME NEW w \in Workers, IInv, EndIngest(w)
    PROVE  IInv'
<1>1. /\ ingress' = ingress /\ fail' = fail /\ active_tasks_' = active_tasks_
      /\ active_lanes_' = active_lanes_ /\ count_' = count_ /\ route_lane_' = route_lane_
      /\ cur_task_' = cur_task_ /\ cur_lane_' = cur_lane_ /\ done_tasks' = done_tasks
      /\ UNCHANGED coroutines /\ iter' = iter /\ left' = left /\ created' = created
      /\ pc[w] = "ingest" /\ pc' = [pc EXCEPT ![w] = "poll"] /\ prio' = [prio EXCEPT ![w] = "low"]
      /\ num' = [num EXCEPT ![w] = Len(active_lanes_[w]["low"])]
    BY DEF EndIngest, BeginPoll, lanes
<1>2. /\ PollTypes /\ "low" \in Prios
    BY TypesAre, Zenon DEF IInv, Prios
<1>3. Len(active_lanes_[w]["low"]) \in Nat
    BY <1>2, LengthsAre, Zenon DEF IInv
<1>4. PollTypes'
    <2>1. pc' \in [Workers -> PCs] /\ prio' \in [Workers -> {"low", "high"}] /\ num' \in [Workers -> Nat]
        BY <1>1, <1>2, <1>3 DEF PollTypes, PCs
    <2> QED
        BY <1>1, <1>2, <2>1, Zenon DEF PollTypes
<1>5. /\ pc'[w] = "poll" /\ prio'[w] = "low" /\ num'[w] = Len(active_lanes_[w]["low"])
      /\ \A v \in Workers : v # w => pc'[v] = pc[v] /\ prio'[v] = prio[v] /\ num'[v] = num[v]
    BY <1>1, <1>2 DEF PollTypes
<1>6. SnapshotOk(w)'
    BY <1>1, <1>3, <1>5 DEF SnapshotOk
<1>7. pc[w] \in {"ingest", "poll", "fail"} /\ pc'[w] \in {"ingest", "poll", "fail"}
    BY <1>1, <1>5
<1> QED
    BY <1>1, <1>4, <1>5, <1>6, <1>7, PollingKeeps, Zenon

(* EndPoll, which goes on to the next priority or iteration, or to the fail *)
(* queue, keeps the invariant.                                              *)
LEMMA EndPollKeeps ==
    ASSUME NEW w \in Workers, IInv, EndPoll(w)
    PROVE  IInv'
<1>1. /\ ingress' = ingress /\ fail' = fail /\ active_tasks_' = active_tasks_
      /\ active_lanes_' = active_lanes_ /\ count_' = count_ /\ route_lane_' = route_lane_
      /\ cur_task_' = cur_task_ /\ cur_lane_' = cur_lane_ /\ done_tasks' = done_tasks
      /\ UNCHANGED coroutines /\ iter' = iter /\ left' = left /\ created' = created /\ prio' = prio
      /\ pc[w] = "poll" /\ pc' = [pc EXCEPT ![w] = "fail"]
      /\ num' = [num EXCEPT ![w] = Len(fail[w])]
    BY DEF EndPoll, lanes
<1>2. PollTypes
    BY TypesAre, Zenon DEF IInv
<1>3. Len(fail[w]) \in Nat
    BY LengthsAre, Zenon DEF IInv
<1>4. PollTypes'
    <2>1. pc' \in [Workers -> PCs] /\ num' \in [Workers -> Nat]
        BY <1>1, <1>2, <1>3 DEF PollTypes, PCs
    <2> QED
        BY <1>1, <1>2, <2>1, Zenon DEF PollTypes
<1>5. /\ pc'[w] = "fail" /\ num'[w] = Len(fail[w])
      /\ \A v \in Workers : v # w => pc'[v] = pc[v] /\ prio'[v] = prio[v] /\ num'[v] = num[v]
    BY <1>1, <1>2 DEF PollTypes
<1>6. SnapshotOk(w)'
    BY <1>1, <1>3, <1>5 DEF SnapshotOk, Running
<1>7. pc[w] \in {"ingest", "poll", "fail"} /\ pc'[w] \in {"ingest", "poll", "fail"}
    BY <1>1, <1>5
<1> QED
    BY <1>1, <1>4, <1>5, <1>6, <1>7, PollingKeeps, Zenon

(* EndPass, which ends a pass of Worker::Run, keeps the invariant.          *)
LEMMA EndPassKeeps ==
    ASSUME NEW w \in Workers, IInv, EndPass(w)
    PROVE  IInv'
<1>1. /\ ingress' = ingress /\ fail' = fail /\ active_tasks_' = active_tasks_
      /\ active_lanes_' = active_lanes_ /\ count_' = count_ /\ route_lane_' = route_lane_
      /\ cur_task_' = cur_task_ /\ cur_lane_' = cur_lane_ /\ done_tasks' = done_tasks
      /\ UNCHANGED coroutines /\ left' = left /\ created' = created
      /\ pc[w] = "fail"
    BY DEF EndPass, lanes
<1>2. PollTypes /\ "high" \in Prios
    BY TypesAre DEF IInv, Prios
<1>3. Len(active_lanes_[w]["high"]) \in Nat
    BY <1>2, LengthsAre, Zenon DEF IInv
<1>4. ASSUME pc' = [pc EXCEPT ![w] = "ingest"], num' = num, iter' \in [Workers -> 0..(Inner - 1)],
             prio' = prio \/ prio' = [prio EXCEPT ![w] = "low"]
      PROVE  IInv'
    <2>1. pc' \in [Workers -> PCs] /\ prio' \in [Workers -> {"low", "high"}]
        BY <1>2, <1>4 DEF PollTypes, PCs
    <2>2. PollTypes'
        BY <1>1, <1>2, <1>4, <2>1, Zenon DEF PollTypes
    <2>3. /\ pc'[w] = "ingest"
          /\ \A v \in Workers : v # w => pc'[v] = pc[v] /\ prio'[v] = prio[v] /\ num'[v] = num[v]
        BY <1>2, <1>4 DEF PollTypes
    <2>4. SnapshotOk(w)'
        BY <2>3 DEF SnapshotOk, Running
    <2>5. pc[w] \in {"ingest", "poll", "fail"} /\ pc'[w] \in {"ingest", "poll", "fail"}
        BY <1>1, <2>3
    <2> QED
        BY <1>1, <2>2, <2>3, <2>4, <2>5, PollingKeeps, Zenon
<1>5. CASE prio[w] = "low" /\ MorePasses(w) /\ pc' = [pc EXCEPT ![w] = "ingest"]
           /\ iter' = [iter EXCEPT ![w] = @ + 1] /\ UNCHANGED <<prio, num>>
    <2>1. iter' \in [Workers -> 0..(Inner - 1)]
        BY <1>2, <1>5, SchedAssumption DEF PollTypes, MorePasses
    <2> QED
        BY <1>4, <1>5, <2>1
<1>6. CASE prio[w] = "high" /\ pc' = [pc EXCEPT ![w] = "ingest"] /\ prio' = [prio EXCEPT ![w] = "low"]
           /\ iter' = [iter EXCEPT ![w] = 0] /\ UNCHANGED num
    <2>1. iter' \in [Workers -> 0..(Inner - 1)]
        BY <1>2, <1>6, SchedAssumption DEF PollTypes
    <2> QED
        BY <1>4, <1>6, <2>1
<1>7. CASE prio[w] = "low" /\ ~MorePasses(w) /\ BeginPoll(w, "high") /\ UNCHANGED iter
    <2>1. /\ pc' = [pc EXCEPT ![w] = "poll"] /\ prio' = [prio EXCEPT ![w] = "high"]
          /\ num' = [num EXCEPT ![w] = Len(active_lanes_[w]["high"])] /\ iter' = iter
        BY <1>7, Zenon DEF BeginPoll
    <2>2. pc' \in [Workers -> PCs] /\ prio' \in [Workers -> {"low", "high"}] /\ num' \in [Workers -> Nat]
        BY <1>2, <1>3, <2>1 DEF PollTypes, PCs
    <2>3. PollTypes'
        BY <1>1, <1>2, <2>1, <2>2, Zenon DEF PollTypes
    <2>4. /\ pc'[w] = "poll" /\ prio'[w] = "high" /\ num'[w] = Len(active_lanes_[w]["high"])
          /\ \A v \in Workers : v # w => pc'[v] = pc[v] /\ prio'[v] = prio[v] /\ num'[v] = num[v]
        BY <1>2, <2>1 DEF PollTypes
    <2>5. SnapshotOk(w)'
        BY <1>1, <1>3, <2>4 DEF SnapshotOk
    <2>6. pc[w] \in {"ingest", "poll", "fail"} /\ pc'[w] \in {"ingest", "poll", "fail"}
        BY <1>1, <2>4
    <2> QED
        BY <1>1, <2>3, <2>4, <2>5, <2>6, PollingKeeps, Zenon
<1> QED
    BY <1>5, <1>6, <1>7, Zenon DEF EndPass

(* Then the steps that push a task.                                         *)
PushStep(w, t, x, queues) ==
    /\ Pushed(x, t, queues) /\ Moved(t, {x})
    /\ \A v \in Workers : v # w => queues[v] = fail[v]
    /\ ingress' \in [Workers -> Seq(Tasks)] /\ \A v \in Workers : Single(ingress'[v])
    /\ PollTypes' /\ CoTypes' /\ prio' = prio /\ cur_task_' = cur_task_ /\ cur_lane_' = cur_lane_
    /\ done_tasks' = done_tasks
    /\ \A v \in Workers : v # w => pc'[v] = pc[v] /\ num'[v] = num[v]
    /\ pc'[w] \in Running <=> pc[w] \in Running
    /\ pc'[w] = "lane" <=> pc[w] = "lane"
    /\ pc'[w] # "park" /\ SnapshotOk(w)'
    /\ \A s \in Tasks : s # t => co'[s] = co[s]
    /\ block_count_' = block_count_
    /\ TokensOk({x}, co'[t], block_count_[t])
    /\ \/ co'[t] = "new" \/ co[t] # "new" \/ ParentOf[t] = Null
       \/ route_lane_[ParentOf[t]] # Null
    /\ \A v \in Workers : pc[v] = "park" /\ cur_task_[v] = t => ParkOk({x}, v)

(* A step that pushes a task keeps the invariant, but for what it does to   *)
(* the coroutine.                                                           *)
LEMMA PushStepKeeps ==
    ASSUME NEW w \in Workers, NEW t \in Tasks, NEW x, NEW queues, IInv, PushStep(w, t, x, queues)
    PROVE  /\ TypeOK' /\ WorkerInv' /\ SnapshotInv' /\ RouteInv' /\ CountInv' /\ RequestInv'
           /\ QueuesInv' /\ TokenInv' /\ HandInv' /\ OthersStay(w) /\ (AwakeInv => AwakeInv')
<1> /\ Pushed(x, t, queues) /\ Moved(t, {x})
    /\ \A v \in Workers : v # w => queues[v] = fail[v]
    /\ ingress' \in [Workers -> Seq(Tasks)] /\ \A v \in Workers : Single(ingress'[v])
    /\ PollTypes' /\ CoTypes' /\ prio' = prio /\ cur_task_' = cur_task_ /\ cur_lane_' = cur_lane_
    /\ done_tasks' = done_tasks
    /\ \A v \in Workers : v # w => pc'[v] = pc[v] /\ num'[v] = num[v]
    /\ pc'[w] \in Running <=> pc[w] \in Running
    /\ pc'[w] = "lane" <=> pc[w] = "lane"
    /\ pc'[w] # "park" /\ SnapshotOk(w)'
    /\ \A s \in Tasks : s # t => co'[s] = co[s]
    /\ block_count_' = block_count_
    /\ TokensOk({x}, co'[t], block_count_[t])
    /\ \/ co'[t] = "new" \/ co[t] # "new" \/ ParentOf[t] = Null
       \/ route_lane_[ParentOf[t]] # Null
    /\ \A v \in Workers : pc[v] = "park" /\ cur_task_[v] = t => ParkOk({x}, v)
    BY Zenon DEF PushStep
<1>1. OthersStay(w)
    BY Zenon DEF OthersStay
<1>2. QueueTypes' /\ QueuesInv'
    BY Zenon DEF Pushed, Landed, QueueTypes, QueuesInv
<1>3. LaneTypes' /\ RoutesKept /\ CountInv' /\ RequestInv'
    BY Zenon DEF Pushed, RoutesKept
<1>4. TypeOK'
    BY <1>2, <1>3, TypesAfter, Zenon
<1>5. WorkerInv'
    <2>1. PICK r, n : r = cur_task_[w] /\ n = cur_lane_[w]
        BY Zenon
    <2>2. WorkerOk(w) /\ r \in Tasks \cup {Null}
        BY <2>1, TypesAre, Zenon DEF IInv, WorkerInv, PollTypes
    <2>3. r # Null => route_lane_[r] = n /\ n # Null
        BY <2>1, <2>2, Zenon DEF WorkerOk
    <2>4. r # Null => route_lane_'[r] = n
        BY <1>3, <2>2, <2>3, Zenon DEF RoutesKept
    <2>5. pc'[w] \in Running \cup {"lane"} <=> pc[w] \in Running \cup {"lane"}
        BY Zenon
    <2>6. WorkerOk(w)'
        BY <2>1, <2>2, <2>4, <2>5, Zenon DEF WorkerOk
    <2> QED
        BY <1>1, <1>3, <2>6, WorkersKept, Zenon
<1>6. SnapshotInv'
    <2>1. QueuesGrow(w)
        BY Zenon DEF QueuesGrow, Pushed, Landed
    <2> QED
        BY <1>1, <1>4, <2>1, SnapshotsKept, Zenon
<1>7. RouteInv'
    <2>1. \A s \in Tasks : s # t => route_lane_'[s] = route_lane_[s]
        BY Zenon DEF Pushed
    <2>2. ASSUME NEW l \in Lanes, <<"lane", l>> \in {x} PROVE route_lane_'[t] = l
        <3>1. x = <<"lane", l>>
            BY <2>2, Zenon
        <3>2. \E m \in Lanes : x = <<"lane", m>> /\ route_lane_'[t] = m
            BY <3>1, TagsDiffer, Zenon DEF Pushed
        <3> QED
            BY <3>1, <3>2, TagsDiffer, Zenon
    <2>3. \A c \in Tasks : \/ co'[c] = "new" \/ co[c] # "new" \/ ParentOf[c] = Null
                           \/ route_lane_[ParentOf[c]] # Null
        BY Zenon
    <2> QED
        BY <1>3, <2>1, <2>2, <2>3, MovedKeepsRoutes, Zenon
<1>8. TokenInv' /\ (AwakeInv => AwakeInv')
    <2>1. {x} # {}
        BY Zenon
    <2>2. /\ \A s \in Tasks : s # t => co'[s] = co[s] /\ block_count_'[s] = block_count_[s]
          /\ TokensOk({x}, co'[t], block_count_'[t])
        BY Zenon
    <2> QED
        BY <2>1, <2>2, MovedKeepsTokens, Zenon
<1>9. HandInv'
    <2>1. HandsKept
        BY Zenon DEF HandsKept
    <2> QED
        BY <2>1, MovedKeepsHands, Zenon
<1> QED
    BY <1>1, <1>2, <1>3, <1>4, <1>5, <1>6, <1>7, <1>8, <1>9, Zenon

(* A task with a token in a queue is under way, not blocked, and may have   *)
(* its token anywhere else.                                                 *)
LEMMA QueuedOk ==
    ASSUME IInv, NEW t \in Tasks, NEW y, y \in Tokens(t), y[1] \in Queued, NEW x
    PROVE  /\ TokensOk({x}, co[t], block_count_[t])
           /\ co[t] \in {"ready", "wait"} /\ ~(block_count_[t] > 0) /\ co[t] # "new"
<1>1. TokensOk(Tokens(t), co[t], block_count_[t])
    BY TokenInvIs, Zenon DEF IInv
<1>2. co[t] \in {"ready", "wait"} /\ ~(block_count_[t] > 0)
    BY <1>1, Zenon DEF TokensOk
<1>3. co[t] # "new"
    BY <1>2
<1> QED
    BY <1>2, <1>3, Zenon DEF TokensOk

(* IngestLane keeps the invariant.                                          *)
LEMMA IngestKeeps ==
    ASSUME NEW w \in Workers, IInv, IngestLane(w)
    PROVE  IInv'
<1>1. PICK t \in Tasks : \E x :
        /\ <<"ingress", w>> \in Tokens(t)
        /\ Pushed(x, t, fail) /\ Moved(t, {x})
        /\ ingress' \in [Workers -> Seq(Tasks)] /\ \A v \in Workers : Single(ingress'[v])
    BY IngestMoves, Zenon
<1>2. PICK x :
        /\ <<"ingress", w>> \in Tokens(t)
        /\ Pushed(x, t, fail) /\ Moved(t, {x})
        /\ ingress' \in [Workers -> Seq(Tasks)] /\ \A v \in Workers : Single(ingress'[v])
    BY <1>1, Zenon
<1>3. /\ pc[w] = "ingest" /\ pc' = pc /\ prio' = prio /\ iter' = iter /\ num' = num
      /\ cur_lane_' = cur_lane_ /\ left' = left /\ done_tasks' = done_tasks
      /\ cur_task_' = cur_task_ /\ created' = created /\ UNCHANGED coroutines
    BY DEF IngestLane, poll
<1>4. PollTypes'
    BY <1>3, TypesAre, Zenon DEF IInv, PollTypes
<1>5. /\ CoTypes' /\ BlockCountExact'
      /\ block_count_' = block_count_ /\ co' = co /\ pending' = pending /\ waited' = waited
      /\ signalled' = signalled
      /\ (CoversInv => CoversInv') /\ (DoneInv => DoneInv')
    BY <1>3, CoroutinesStay, Zenon
<1>6. pc'[w] # "park" /\ SnapshotOk(w)' /\ TaskOk(w)'
    <2>1. pc'[w] = "ingest"
        BY <1>3, Zenon
    <2> QED
        BY <2>1 DEF SnapshotOk, TaskOk, Running
<1>7. TokensOk({x}, co'[t], block_count_[t]) /\ co[t] # "new"
    <2>1. <<"ingress", w>>[1] \in Queued
        BY DEF Queued
    <2> QED
        BY <1>2, <1>5, <2>1, QueuedOk, Zenon
<1>8. \A v \in Workers : pc[v] = "park" /\ cur_task_[v] = t => ParkOk({x}, v)
    <2>1. ASSUME NEW v \in Workers, pc[v] = "park", cur_task_[v] = t PROVE FALSE
        <3>1. <<"ingress", w>> = <<"fail", v>> \/ <<"ingress", w>>[1] = "wake"
            BY <1>2, <2>1, Zenon DEF IInv, HandInv
        <3> QED
            BY <3>1
    <2> QED
        BY <2>1, Zenon
<1>9. /\ TypeOK' /\ WorkerInv' /\ SnapshotInv' /\ RouteInv' /\ CountInv' /\ RequestInv'
      /\ QueuesInv' /\ TokenInv' /\ HandInv' /\ OthersStay(w) /\ (AwakeInv => AwakeInv')
    <2>1. PushStep(w, t, x, fail)
        BY <1>2, <1>3, <1>4, <1>5, <1>6, <1>7, <1>8, Zenon DEF PushStep
    <2> QED
        BY <2>1, PushStepKeeps, Zenon
<1>10. CoInv'
    <2>1. \A v \in Workers : TaskOk(v)'
        BY <1>5, <1>6, <1>9, TasksKept, Zenon
    <2> QED
        BY <1>5, <2>1, Zenon DEF IInv, CoInv, Signalling
<1> QED
    BY <1>5, <1>9, <1>10, Zenon DEF IInv

(* PollFail keeps the invariant.                                            *)
LEMMA PollFailKeeps ==
    ASSUME NEW w \in Workers, IInv, PollFail(w)
    PROVE  IInv'
<1>1. PICK t \in Tasks : \E x, queues :
        /\ <<"fail", w>> \in Tokens(t)
        /\ queues = [fail EXCEPT ![w] = Tail(@)] /\ Len(queues[w]) = Len(fail[w]) - 1
        /\ Pushed(x, t, queues) /\ Moved(t, {x})
    BY PollFailMoves, Zenon
<1>2. PICK x, queues :
        /\ <<"fail", w>> \in Tokens(t)
        /\ queues = [fail EXCEPT ![w] = Tail(@)] /\ Len(queues[w]) = Len(fail[w]) - 1
        /\ Pushed(x, t, queues) /\ Moved(t, {x})
    BY <1>1, Zenon
<1>3. /\ pc[w] = "fail" /\ pc' = pc /\ prio' = prio /\ iter' = iter
      /\ num[w] > 0 /\ num' = [num EXCEPT ![w] = @ - 1]
      /\ cur_lane_' = cur_lane_ /\ left' = left /\ done_tasks' = done_tasks
      /\ cur_task_' = cur_task_ /\ created' = created /\ UNCHANGED coroutines
      /\ ingress' = ingress
    BY DEF PollFail
<1>4. num \in [Workers -> Nat] /\ fail \in [Workers -> Seq(Tasks)] /\ PollTypes
    BY TypesAre, Zenon DEF IInv, PollTypes, QueueTypes
<1>5. num' \in [Workers -> Nat] /\ num'[w] = num[w] - 1 /\ \A v \in Workers : v # w => num'[v] = num[v]
    BY <1>3, <1>4
<1>6. PollTypes'
    BY <1>3, <1>4, <1>5, Zenon DEF PollTypes
<1>7. /\ CoTypes' /\ BlockCountExact'
      /\ block_count_' = block_count_ /\ co' = co /\ pending' = pending /\ waited' = waited
      /\ signalled' = signalled
      /\ (CoversInv => CoversInv') /\ (DoneInv => DoneInv')
    BY <1>3, CoroutinesStay, Zenon
<1>8. \A v \in Workers : v # w => queues[v] = fail[v]
    BY <1>2, <1>4
<1>9. pc'[w] # "park" /\ SnapshotOk(w)' /\ TaskOk(w)'
    <2>1. pc'[w] = "fail"
        BY <1>3, Zenon
    <2>2. Len(fail'[w]) >= Len(queues[w]) /\ fail' \in [Workers -> Seq(Tasks)]
        BY <1>2, Zenon DEF Pushed, Landed
    <2>3. num[w] <= Len(fail[w])
        BY <1>3, Zenon DEF IInv, SnapshotInv, SnapshotOk
    <2>4. num[w] \in Nat /\ Len(fail[w]) \in Nat /\ Len(fail'[w]) \in Nat
        BY <1>4, <2>2
    <2>5. num'[w] <= Len(fail'[w])
        BY <1>2, <1>5, <2>2, <2>3, <2>4
    <2> QED
        BY <2>1, <2>5 DEF SnapshotOk, TaskOk, Running
<1>10. TokensOk({x}, co'[t], block_count_[t]) /\ co[t] # "new"
    <2>1. <<"fail", w>>[1] \in Queued
        BY DEF Queued
    <2> QED
        BY <1>2, <1>7, <2>1, QueuedOk, Zenon
<1>11. \A v \in Workers : pc[v] = "park" /\ cur_task_[v] = t => ParkOk({x}, v)
    <2>1. ASSUME NEW v \in Workers, pc[v] = "park", cur_task_[v] = t PROVE FALSE
        <3>1. <<"fail", w>> = <<"fail", v>> \/ <<"fail", w>>[1] = "wake"
            BY <1>2, <2>1, Zenon DEF IInv, HandInv
        <3>2. v = w
            BY <3>1
        <3> QED
            BY <1>3, <2>1, <3>2
    <2> QED
        BY <2>1, Zenon
<1>12. ingress' \in [Workers -> Seq(Tasks)] /\ \A v \in Workers : Single(ingress'[v])
    BY <1>3, TypesAre, Zenon DEF IInv, QueueTypes, QueuesInv
<1>13. /\ \A v \in Workers : v # w => pc'[v] = pc[v] /\ num'[v] = num[v]
       /\ pc'[w] \in Running <=> pc[w] \in Running
       /\ pc'[w] = "lane" <=> pc[w] = "lane"
       /\ prio' = prio /\ cur_task_' = cur_task_ /\ cur_lane_' = cur_lane_ /\ done_tasks' = done_tasks
       /\ Pushed(x, t, queues) /\ Moved(t, {x})
    BY <1>2, <1>3, <1>5, Zenon
<1>14. /\ TypeOK' /\ WorkerInv' /\ SnapshotInv' /\ RouteInv' /\ CountInv' /\ RequestInv'
       /\ QueuesInv' /\ TokenInv' /\ HandInv' /\ OthersStay(w) /\ (AwakeInv => AwakeInv')
    <2>1. PushStep(w, t, x, queues)
        BY <1>6, <1>7, <1>8, <1>9, <1>10, <1>11, <1>12, <1>13, Zenon DEF PushStep
    <2> QED
        BY <2>1, PushStepKeeps, Zenon
<1>15. CoInv'
    <2>1. \A v \in Workers : TaskOk(v)'
        BY <1>7, <1>9, <1>14, TasksKept, Zenon
    <2> QED
        BY <1>7, <2>1, Zenon DEF IInv, CoInv, Signalling
<1> QED
    BY <1>7, <1>14, <1>15, Zenon DEF IInv

(* Wake keeps the invariant: the parent that it pushes has one token before *)
(* and after.                                                               *)
LEMMA WakeKeeps ==
    ASSUME NEW w \in Workers, IInv, Wake(w)
    PROVE  IInv'
<1>1. PICK t \in Tasks, l \in Lanes : \E x :
        /\ <<"wake", w>> \in Tokens(t) /\ route_lane_[t] = l
        /\ x = IF WorkerOf[l] = w THEN <<"lane", l>> ELSE <<"fail", WorkerOf[l]>>
        /\ Pushed(x, t, fail) /\ Moved(t, {x})
    BY WakeMoves, Zenon
<1>2. PICK x :
        /\ <<"wake", w>> \in Tokens(t) /\ route_lane_[t] = l
        /\ x = IF WorkerOf[l] = w THEN <<"lane", l>> ELSE <<"fail", WorkerOf[l]>>
        /\ Pushed(x, t, fail) /\ Moved(t, {x})
    BY <1>1, Zenon
<1>3. /\ pc[w] = "wake" /\ pc' = [pc EXCEPT ![w] = "complete"] /\ prio' = prio /\ iter' = iter /\ num' = num
      /\ cur_lane_' = cur_lane_ /\ left' = left /\ done_tasks' = done_tasks
      /\ cur_task_' = cur_task_ /\ created' = created /\ UNCHANGED coroutines
      /\ ingress' = ingress
    BY DEF Wake, poll
<1>4. PollTypes
    BY TypesAre, Zenon DEF IInv
<1>5. pc' \in [Workers -> PCs] /\ pc'[w] = "complete" /\ \A v \in Workers : v # w => pc'[v] = pc[v]
    BY <1>3, <1>4 DEF PollTypes, PCs
<1>6. PollTypes'
    BY <1>3, <1>4, <1>5, Zenon DEF PollTypes
<1>7. /\ CoTypes' /\ BlockCountExact'
      /\ block_count_' = block_count_ /\ co' = co /\ pending' = pending /\ waited' = waited
      /\ signalled' = signalled
      /\ (CoversInv => CoversInv') /\ (DoneInv => DoneInv')
    BY <1>3, CoroutinesStay, Zenon
<1>8. /\ pc'[w] # "park" /\ (pc'[w] \in Running <=> pc[w] \in Running) /\ (pc'[w] = "lane" <=> pc[w] = "lane")
    BY <1>3, <1>5 DEF Running
<1>9. SnapshotOk(w)'
    <2>1. num[w] <= Len(active_lanes_[w][prio[w]])
        BY <1>3 DEF IInv, SnapshotInv, SnapshotOk, Running
    <2>2. /\ num[w] \in Nat /\ Len(active_lanes_[w][prio[w]]) \in Nat /\ prio[w] \in Prios
        BY LengthsAre, Zenon DEF IInv
    <2>3. Len(active_lanes_'[w][prio[w]]) >= Len(active_lanes_[w][prio[w]])
        BY <1>2, <2>2, Zenon DEF Pushed
    <2>4. active_lanes_' \in [Workers -> [Prios -> Seq(Lanes)]]
        BY <1>2, Zenon DEF Pushed, LaneTypes, Prios
    <2>5. active_lanes_'[w][prio[w]] \in Seq(Lanes)
        BY <2>2, <2>4, Zenon
    <2>6. num[w] <= Len(active_lanes_'[w][prio[w]])
        BY <2>1, <2>2, <2>3, <2>5
    <2> QED
        BY <1>3, <1>5, <2>6 DEF SnapshotOk
<1>10. TokensOk({x}, co'[t], block_count_[t]) /\ co[t] # "new"
    <2>1. <<"wake", w>>[1] \in Queued
        BY DEF Queued
    <2> QED
        BY <1>2, <1>7, <2>1, QueuedOk, Zenon
<1>11. \A v \in Workers : pc[v] = "park" /\ cur_task_[v] = t => ParkOk({x}, v)
    <2>1. ASSUME NEW v \in Workers, pc[v] = "park", cur_task_[v] = t PROVE x = <<"fail", v>>
        <3>1. WorkerOk(v)
            BY Zenon DEF IInv, WorkerInv
        <3>2. cur_lane_[v] = l /\ l # Null
            BY <1>2, <2>1, <3>1, SchedAssumption, Zenon DEF WorkerOk
        <3>3. WorkerOf[l] = v
            BY <3>1, <3>2, Zenon DEF WorkerOk
        <3>4. v # w
            BY <1>3, <2>1
        <3> QED
            BY <1>2, <3>3, <3>4, Zenon
    <2> QED
        BY <2>1, Zenon DEF ParkOk
<1>12. ingress' \in [Workers -> Seq(Tasks)] /\ \A v \in Workers : Single(ingress'[v])
    BY <1>3, TypesAre, Zenon DEF IInv, QueueTypes, QueuesInv
<1>13. /\ TypeOK' /\ WorkerInv' /\ SnapshotInv' /\ RouteInv' /\ CountInv' /\ RequestInv'
       /\ QueuesInv' /\ TokenInv' /\ HandInv' /\ OthersStay(w) /\ (AwakeInv => AwakeInv')
    <2>1. PushStep(w, t, x, fail)
        BY <1>2, <1>3, <1>5, <1>6, <1>7, <1>8, <1>9, <1>10, <1>11, <1>12, Zenon DEF PushStep
    <2> QED
        BY <2>1, PushStepKeeps, Zenon
<1>14. CoInv'
    <2>1. PICK c : c = cur_task_[w]
        OBVIOUS
    <2>2. co[c] = "ended"
        BY <1>3, <2>1 DEF IInv, CoInv, TaskOk
    <2>3. TaskOk(w)'
        BY <1>3, <1>5, <1>7, <2>1, <2>2, Zenon DEF TaskOk
    <2>4. \A v \in Workers : TaskOk(v)'
        BY <1>7, <1>13, <2>3, TasksKept, Zenon
    <2> QED
        BY <1>7, <2>4, Zenon DEF IInv, CoInv, Signalling
<1> QED
    BY <1>7, <1>13, <1>14, Zenon DEF IInv

(* A task in hand has been started.                                         *)
LEMMA HeldStarted ==
    ASSUME IInv, NEW v \in Workers, cur_task_[v] # Null
    PROVE  co[cur_task_[v]] # "new" /\ cur_task_[v] \in Tasks
<1>1. pc[v] \in Running
    BY Zenon DEF IInv, WorkerInv, WorkerOk
<1>2. TaskOk(v)
    BY Zenon DEF IInv, CoInv
<1>3. cur_task_[v] \in Tasks
    BY TypesAre, Zenon DEF IInv, PollTypes
<1> QED
    BY <1>1, <1>2, <1>3 DEF TaskOk, Running

(* A push by a worker that polls a lane shortens no snapshotted queue.      *)
LEMMA PushKeepsSnapshot ==
    ASSUME IInv, NEW w \in Workers, NEW x, NEW t, NEW queues, Pushed(x, t, queues),
           pc[w] \in Running, pc'[w] # "fail", num' = num, prio' = prio
    PROVE  SnapshotOk(w)'
<1>1. num[w] <= Len(active_lanes_[w][prio[w]])
    BY Zenon DEF IInv, SnapshotInv, SnapshotOk
<1>2. num[w] \in Nat /\ Len(active_lanes_[w][prio[w]]) \in Nat /\ prio[w] \in Prios
    BY LengthsAre, Zenon DEF IInv
<1>3. Len(active_lanes_'[w][prio[w]]) >= Len(active_lanes_[w][prio[w]])
    BY <1>2, Zenon DEF Pushed
<1>4. active_lanes_' \in [Workers -> [Prios -> Seq(Lanes)]]
    BY Zenon DEF Pushed, LaneTypes, Prios
<1>5. active_lanes_'[w][prio[w]] \in Seq(Lanes)
    BY <1>2, <1>4, Zenon
<1>6. num[w] <= Len(active_lanes_'[w][prio[w]])
    BY <1>1, <1>2, <1>3, <1>5
<1> QED
    BY <1>6 DEF SnapshotOk

(* Spawn keeps the invariant: the new task has its first token.             *)
LEMMA SpawnKeeps ==
    ASSUME NEW w \in Workers, NEW c \in Tasks, IInv, Spawn(w, c)
    PROVE  IInv'
<1>1. PICK x : Pushed(x, c, fail) /\ Moved(c, {x}) /\ Tokens(c) = {}
    BY SpawnMoves, Zenon
<1>2. /\ pc[w] = "run" /\ ParentOf[c] = cur_task_[w] /\ co[c] = "new"
      /\ co' = [co EXCEPT ![c] = "ready"] /\ ingress' = ingress /\ pc' = pc
      /\ prio' = prio /\ iter' = iter /\ num' = num
      /\ cur_lane_' = cur_lane_ /\ left' = left /\ done_tasks' = done_tasks
      /\ cur_task_' = cur_task_ /\ created' = created /\ block_count_' = block_count_
      /\ pending' = pending /\ waited' = waited /\ yields' = yields
      /\ signalled' = signalled /\ complete' = complete
    BY DEF Spawn, poll
<1>3. PollTypes /\ CoTypes
    BY TypesAre, Zenon DEF IInv
<1>4. pc[w] \in Running
    BY <1>2 DEF Running
<1>5. PICK p : p = cur_task_[w]
    OBVIOUS
<1>6. p # Null /\ route_lane_[p] = cur_lane_[w] /\ cur_lane_[w] # Null
    <2>1. WorkerOk(w)
        BY Zenon DEF IInv, WorkerInv
    <2> QED
        BY <1>4, <1>5, <2>1 DEF WorkerOk
<1>7. p \in Tasks /\ co[p] = "ready"
    <2>1. TaskOk(w)
        BY Zenon DEF IInv, CoInv
    <2>2. p \in Tasks
        BY <1>5, <1>6, HeldStarted, Zenon
    <2> QED
        BY <1>2, <1>5, <2>1, <2>2 DEF TaskOk
<1>8. /\ co' \in [Tasks -> {"new", "ready", "wait", "ended"}] /\ co'[c] = "ready"
      /\ \A s \in Tasks : s # c => co'[s] = co[s]
    BY <1>2, <1>3 DEF CoTypes
<1>9. CoTypes' /\ PollTypes'
    BY <1>2, <1>3, <1>8, Zenon DEF CoTypes, PollTypes
<1>10. \A v \in Workers : cur_task_[v] # c
    BY <1>2, HeldStarted, SchedAssumption, Zenon
<1>11. TokensOk({x}, co'[c], block_count_[c])
    <2>1. TokensOk(Tokens(c), co[c], block_count_[c])
        BY TokenInvIs, Zenon DEF IInv
    <2>2. ~(block_count_[c] > 0)
        BY <1>2, <2>1, Zenon DEF TokensOk
    <2> QED
        BY <1>8, <2>2 DEF TokensOk
<1>12. pc'[w] # "park" /\ SnapshotOk(w)'
    <2>1. pc'[w] # "park" /\ pc'[w] # "fail"
        BY <1>2, Zenon
    <2> QED
        BY <1>1, <1>2, <1>4, <2>1, PushKeepsSnapshot, Zenon
<1>13. PushStep(w, c, x, fail)
    <2>1. ingress' \in [Workers -> Seq(Tasks)] /\ \A v \in Workers : Single(ingress'[v])
        BY <1>2, TypesAre, Zenon DEF IInv, QueueTypes, QueuesInv
    <2>2. route_lane_[ParentOf[c]] # Null
        BY <1>2, <1>5, <1>6, Zenon
    <2> QED
        BY <1>1, <1>2, <1>8, <1>9, <1>10, <1>11, <1>12, <2>1, <2>2, Zenon DEF PushStep
<1>14. /\ TypeOK' /\ WorkerInv' /\ SnapshotInv' /\ RouteInv' /\ CountInv' /\ RequestInv'
       /\ QueuesInv' /\ TokenInv' /\ HandInv' /\ OthersStay(w) /\ (AwakeInv => AwakeInv')
    BY <1>13, PushStepKeeps, Zenon
<1>15. CoInv'
    <2>1. p # c
        BY <1>2, <1>7, Zenon
    <2>2. TaskOk(w)'
        BY <1>2, <1>5, <1>7, <1>8, <2>1 DEF TaskOk
    <2>3. ASSUME NEW v \in Workers, v # w, cur_task_[v] # Null
          PROVE  co'[cur_task_[v]] = co[cur_task_[v]] /\ (cur_task_[v] \in signalled' => cur_task_[v] \in signalled)
        BY <1>2, <1>8, <1>10, <2>3, HeldStarted, Zenon
    <2>4. \A v \in Workers : TaskOk(v)'
        BY <1>14, <2>2, <2>3, TasksKept, Zenon
    <2>5. \A t \in Tasks : co'[t] # "wait" => pending'[t] = {}
        BY <1>2, <1>8 DEF IInv, CoInv
    <2>6. \A t \in signalled' : co'[t] = "ended"
        BY <1>2, <1>3, <1>8 DEF IInv, CoInv, CoTypes
    <2> QED
        BY <1>2, <2>4, <2>5, <2>6, Zenon DEF IInv, CoInv, Signalling
<1>16. BlockCountExact'
    BY <1>2, BlocksKept, Zenon
<1>17. (CoversInv => CoversInv') /\ (DoneInv => DoneInv')
    <2>1. ASSUME NEW t \in Tasks, co'[t] = "wait" PROVE Spawned(t)' = Spawned(t) /\ co[t] = "wait"
        <3>1. t # c /\ t # p
            BY <1>7, <1>8, <2>1
        <3>2. ParentOf[c] # t
            BY <1>2, <1>5, <3>1
        <3> QED
            BY <1>8, <2>1, <3>1, <3>2 DEF Spawned, Signalling
    <2> QED
        BY <1>2, <2>1, Zenon DEF CoversInv, DoneInv
<1> QED
    BY <1>14, <1>15, <1>16, <1>17, Zenon DEF IInv

(* Submit keeps the invariant: the new task has its first token.            *)
LEMMA SubmitKeeps ==
    ASSUME NEW w \in Workers, NEW t \in Tasks, IInv, Submit(t, w)
    PROVE  IInv'
<1>1. /\ Moved(t, {<<"ingress", w>>})
      /\ ingress' \in [Workers -> Seq(Tasks)] /\ \A v \in Workers : Single(ingress'[v])
    BY SubmitMoves, Zenon
<1>2. /\ ParentOf[t] = Null /\ co[t] = "new" /\ co' = [co EXCEPT ![t] = "ready"]
      /\ fail' = fail /\ active_tasks_' = active_tasks_ /\ active_lanes_' = active_lanes_
      /\ count_' = count_ /\ route_lane_' = route_lane_ /\ pc' = pc
      /\ prio' = prio /\ iter' = iter /\ num' = num
      /\ cur_lane_' = cur_lane_ /\ left' = left /\ done_tasks' = done_tasks
      /\ cur_task_' = cur_task_ /\ created' = created /\ block_count_' = block_count_
      /\ pending' = pending /\ waited' = waited /\ yields' = yields
      /\ signalled' = signalled /\ complete' = complete
    BY DEF Submit, poll, lanes
<1>3. QueueTypes /\ LaneTypes /\ PollTypes /\ CoTypes
    BY TypesAre, Zenon DEF IInv
<1>4. /\ co' \in [Tasks -> {"new", "ready", "wait", "ended"}] /\ co'[t] = "ready"
      /\ \A s \in Tasks : s # t => co'[s] = co[s]
    BY <1>2, <1>3 DEF CoTypes
<1>5. TypeOK'
    <2>1. QueueTypes'
        BY <1>1, <1>2, <1>3, Zenon DEF QueueTypes
    <2>2. LaneTypes'
        BY <1>2, <1>3, Zenon DEF LaneTypes
    <2>3. CoTypes' /\ PollTypes'
        BY <1>2, <1>3, <1>4, Zenon DEF CoTypes, PollTypes
    <2> QED
        BY <2>1, <2>2, <2>3, TypesAfter, Zenon
<1>6. WorkerInv' /\ SnapshotInv'
    BY <1>2, Zenon DEF IInv, WorkerInv, WorkerOk, SnapshotInv, SnapshotOk
<1>7. CountInv' /\ RequestInv' /\ QueuesInv'
    <2>1. QueuesInv'
        BY <1>1, <1>2, Zenon DEF IInv, QueuesInv
    <2> QED
        BY <1>2, <2>1, CountsStay, RequestsKept, Zenon
<1>8. RouteInv'
    <2>1. RoutesKept
        BY <1>2, Zenon DEF RoutesKept
    <2>2. \A l \in Lanes : <<"lane", l>> \notin {<<"ingress", w>>}
        BY TagsDiffer, Zenon
    <2>3. \A c \in Tasks : co'[c] = "new" \/ co[c] # "new" \/ ParentOf[c] = Null
        BY <1>2, <1>4, Zenon
    <2> QED
        BY <1>1, <1>2, <2>1, <2>2, <2>3, MovedKeepsRoutes, Zenon
<1>9. TokenInv' /\ (AwakeInv => AwakeInv')
    <2>1. TokensOk(Tokens(t), co[t], block_count_[t])
        BY TokenInvIs, Zenon DEF IInv
    <2>2. ~(block_count_[t] > 0)
        BY <1>2, <2>1 DEF TokensOk
    <2>3. TokensOk({<<"ingress", w>>}, co'[t], block_count_'[t])
        BY <1>2, <1>4, <2>2 DEF TokensOk
    <2>4. {<<"ingress", w>>} # {}
        BY Zenon
    <2>5. \A s \in Tasks : s # t => co'[s] = co[s] /\ block_count_'[s] = block_count_[s]
        BY <1>2, <1>4, Zenon
    <2> QED
        BY <1>1, <2>3, <2>4, <2>5, MovedKeepsTokens, Zenon
<1>10. \A v \in Workers : cur_task_[v] # t
    BY <1>2, HeldStarted, SchedAssumption
<1>11. HandInv'
    <2>1. HandsKept
        BY <1>2, Zenon DEF HandsKept
    <2> QED
        BY <1>1, <1>10, <2>1, MovedKeepsHands, Zenon
<1>12. CoInv'
    <2>1. ASSUME NEW v \in Workers PROVE TaskOk(v)'
        <3>1. TaskOk(v) /\ WorkerOk(v)
            BY Zenon DEF IInv, CoInv, WorkerInv
        <3>2. CASE cur_task_[v] = Null
            <4>1. pc[v] \notin Running
                BY <3>1, <3>2, Zenon DEF WorkerOk
            <4> QED
                BY <1>2, <4>1 DEF TaskOk, Running
        <3>3. CASE cur_task_[v] # Null
            <4>1. co'[cur_task_[v]] = co[cur_task_[v]]
                BY <1>4, <1>10, <3>3, HeldStarted, Zenon
            <4> QED
                BY <1>2, <3>1, <4>1, Zenon DEF TaskOk
        <3> QED
            BY <3>2, <3>3, Zenon
    <2>2. \A s \in Tasks : co'[s] # "wait" => pending'[s] = {}
        BY <1>2, <1>4 DEF IInv, CoInv
    <2>3. \A s \in signalled' : co'[s] = "ended"
        BY <1>2, <1>3, <1>4 DEF IInv, CoInv, CoTypes
    <2> QED
        BY <1>2, <2>1, <2>2, <2>3, Zenon DEF IInv, CoInv, Signalling
<1>13. BlockCountExact'
    BY <1>2, BlocksKept, Zenon
<1>14. (CoversInv => CoversInv') /\ (DoneInv => DoneInv')
    <2>1. ASSUME NEW s \in Tasks, co'[s] = "wait" PROVE Spawned(s)' = Spawned(s) /\ co[s] = "wait"
        <3>1. s # t
            BY <1>4, <2>1
        <3>2. ParentOf[t] # s
            BY <1>2, SchedAssumption
        <3> QED
            BY <1>4, <2>1, <3>1, <3>2 DEF Spawned, Signalling
    <2> QED
        BY <1>2, <2>1, Zenon DEF CoversInv, DoneInv
<1> QED
    BY <1>5, <1>6, <1>7, <1>8, <1>9, <1>11, <1>12, <1>13, <1>14, Zenon DEF IInv
=============================================================================
