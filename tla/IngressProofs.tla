---------------------------- MODULE IngressProofs ----------------------------
(***************************************************************************)
(* The order of a client's tasks on their way into the runtime, for any     *)
(* lists of cores, clients, hashes and depth of the lanes.  The argument:   *)
(* a task stays in the lane its hash names until the worker of that lane    *)
(* takes it; a lane has its tasks in the order of sending, and AssignQueue- *)
(* Map gives no lane to two workers.                                        *)
(***************************************************************************)
EXTENDS Ingress, TLAPS

LaneSet == Range(AllLanes(cpus))

Sent == Clients \X (Nat \ {0})

(* The lane of a client's i-th task.                                        *)
LaneOf(c, i) == EmplaceLane(c, sent[c][i])

TypeInv ==
    /\ cpus \in CpuLists
    /\ unassigned \in Seq(LaneSet)
    /\ work_proc_queue_ \in [Workers -> Seq(LaneSet)]
    /\ lanes \in [LaneSet -> Seq(Sent)]
    /\ sent \in [Clients -> Seq(Hashes)]
    /\ active \in [Workers -> Seq(Sent)]

Dealt(w) == {work_proc_queue_[w][i] : i \in 1..Len(work_proc_queue_[w])}

(* No lane is dealt twice, or dealt and still to be dealt.                  *)
DealInv ==
    /\ \A i, j \in 1..Len(unassigned) : unassigned[i] = unassigned[j] => i = j
    /\ \A w \in Workers : \A i \in 1..Len(unassigned) : unassigned[i] \notin Dealt(w)
    /\ \A v, w \in Workers : Dealt(v) \cap Dealt(w) # {} => v = w

(* A lane holds tasks that were sent into it, in the order of sending.      *)
LaneInv ==
    \A l \in LaneSet : \A k \in 1..Len(lanes[l]) : \A c \in Clients, i \in Nat :
        lanes[l][k] = <<c, i>> =>
            /\ i \in 1..Len(sent[c])
            /\ LaneOf(c, i) = l
            /\ \A h \in 1..(k - 1), j \in Nat : lanes[l][h] = <<c, j>> => j < i

(* A worker has taken tasks from lanes it was dealt only.                   *)
TakenInv ==
    \A w \in Workers : \A k \in 1..Len(active[w]) : \A c \in Clients, i \in Nat :
        active[w][k] = <<c, i>> => i \in 1..Len(sent[c]) /\ LaneOf(c, i) \in Dealt(w)

InLane(c, i) == \E k \in 1..Len(lanes[LaneOf(c, i)]) : lanes[LaneOf(c, i)][k] = <<c, i>>

Taken(w, n, c, i) == \E h \in 1..n : active[w][h] = <<c, i>>

(* No task that was sent is missing.                                        *)
PresentInv ==
    \A c \in Clients : \A i \in 1..Len(sent[c]) :
        InLane(c, i) \/ \E w \in Workers : Taken(w, Len(active[w]), c, i)

(* When a worker takes a task, it has taken the client's earlier tasks of   *)
(* the same lane.                                                           *)
OrderInv ==
    \A c \in Clients : \A i, j \in 1..Len(sent[c]) :
        i < j /\ LaneOf(c, i) = LaneOf(c, j) =>
            \A w \in Workers : \A k \in 1..Len(active[w]) :
                active[w][k] = <<c, j>> => Taken(w, k - 1, c, i)

FlowInv == TypeInv /\ DealInv /\ LaneInv /\ TakenInv /\ PresentInv /\ OrderInv

(* A worker that was dealt lanes is at one of them.                         *)
PosInv ==
    /\ pos \in [Workers -> Nat \ {0}]
    /\ \A w \in Workers : pos[w] = 1 \/ pos[w] <= Len(work_proc_queue_[w])

IInv == FlowInv /\ PosInv
-----------------------------------------------------------------------------
(* There is at least one worker and one lane of each kind.                  *)
LEMMA Shape ==
    ASSUME TypeInv
    PROVE  /\ cpus \in Seq(Nat) /\ Len(cpus) \in Nat /\ Len(cpus) >= 1
           /\ \A c \in Clients, h \in Hashes : EmplaceLane(c, h) \in LaneSet
<1>1. cpus \in Seq(Nat) /\ Len(cpus) \in Nat /\ Len(cpus) >= 1
    BY IngressAssumption DEF TypeInv
<1>2. \A h \in Hashes : h % Len(cpus) \in 0..(Len(cpus) - 1)
    BY <1>1, IngressAssumption
<1> DEFINE n == Len(cpus)
           All == AllLanes(cpus)
<1>3. /\ Len(All) = 4 * n
      /\ DOMAIN All = 1..(4 * n)
      /\ \A i \in 1..n : All[2 * n + i] = Lane("process", "low", i - 1)
    BY <1>1 DEF AllLanes, QueueLanes, GroupLanes, NumLanes
<1>4. \A j \in 0..(n - 1) : Lane("process", "low", j) \in LaneSet
    <2> SUFFICES ASSUME NEW j \in 0..(n - 1) PROVE Lane("process", "low", j) \in LaneSet
        BY Zenon
    <2>1. j + 1 \in 1..n /\ 2 * n + (j + 1) \in 1..(4 * n) /\ (j + 1) - 1 = j
        BY <1>1
    <2>2. All[2 * n + (j + 1)] = Lane("process", "low", j)
        BY <1>3, <2>1, Zenon
    <2> QED
        BY <1>3, <2>1, <2>2, Zenon DEF LaneSet, Range
<1> QED
    BY <1>1, <1>2, <1>4, Zenon DEF EmplaceLane, NumLanes

(* The lanes as AssignQueueMap comes to them are all different.             *)
LEMMA AllLanesDistinct ==
    ASSUME NEW list \in Seq(Nat)
    PROVE  /\ AllLanes(list) \in Seq(Range(AllLanes(list)))
           /\ \A i, j \in 1..Len(AllLanes(list)) : AllLanes(list)[i] = AllLanes(list)[j] => i = j
<1> DEFINE n == Len(list)
           All == AllLanes(list)
<1>0. n \in Nat
    OBVIOUS
<1>1. All = [i \in 1..(4 * n) |->
                IF i <= n THEN Lane("admin", "low", i - 1)
                ELSE IF i <= 2 * n THEN Lane("admin", "high", i - n - 1)
                ELSE IF i <= 3 * n THEN Lane("process", "low", i - 2 * n - 1)
                ELSE Lane("process", "high", i - 3 * n - 1)]
    BY <1>0, SMTT(20) DEF AllLanes, QueueLanes, GroupLanes, NumLanes
<1> HIDE DEF All
<1>2. DOMAIN All = 1..(4 * n) /\ 4 * n \in Nat
    BY <1>0, <1>1
<1>3. All \in [1..(4 * n) -> Range(All)]
    <2>1. All = [i \in 1..(4 * n) |-> All[i]]
        BY <1>1, Zenon
    <2>2. \A i \in 1..(4 * n) : All[i] \in Range(All)
        BY <1>2, Zenon DEF Range
    <2> QED
        BY <2>1, <2>2, Zenon
<1>4. All \in Seq(Range(All)) /\ Len(All) = 4 * n
    BY <1>2, <1>3
<1>5. \A i \in 1..(4 * n) :
        /\ i <= n => All[i] = Lane("admin", "low", i - 1)
        /\ i > n /\ i <= 2 * n => All[i] = Lane("admin", "high", i - n - 1)
        /\ i > 2 * n /\ i <= 3 * n => All[i] = Lane("process", "low", i - 2 * n - 1)
        /\ i > 3 * n => All[i] = Lane("process", "high", i - 3 * n - 1)
    BY <1>0, <1>1
<1>6. \A i \in 1..(4 * n) :
        /\ i <= n => All[i].queue = "admin" /\ All[i].prio = "low" /\ All[i].id = i - 1
        /\ i > n /\ i <= 2 * n =>
                All[i].queue = "admin" /\ All[i].prio = "high" /\ All[i].id = i - n - 1
        /\ i > 2 * n /\ i <= 3 * n =>
                All[i].queue = "process" /\ All[i].prio = "low" /\ All[i].id = i - 2 * n - 1
        /\ i > 3 * n =>
                All[i].queue = "process" /\ All[i].prio = "high" /\ All[i].id = i - 3 * n - 1
    <2>1. \A q, p, i : Lane(q, p, i).queue = q /\ Lane(q, p, i).prio = p /\ Lane(q, p, i).id = i
        BY Zenon DEF Lane
    <2> TAKE i \in 1..(4 * n)
    <2>2. i <= n => All[i].queue = "admin" /\ All[i].prio = "low" /\ All[i].id = i - 1
        BY <1>5, <2>1
    <2>3. i > n /\ i <= 2 * n =>
                All[i].queue = "admin" /\ All[i].prio = "high" /\ All[i].id = i - n - 1
        BY <1>5, <2>1
    <2>4. i > 2 * n /\ i <= 3 * n =>
                All[i].queue = "process" /\ All[i].prio = "low" /\ All[i].id = i - 2 * n - 1
        BY <1>5, <2>1
    <2>5. i > 3 * n =>
                All[i].queue = "process" /\ All[i].prio = "high" /\ All[i].id = i - 3 * n - 1
        BY <1>5, <2>1
    <2> QED
        BY <2>2, <2>3, <2>4, <2>5, Zenon
<1>7. \A i, j \in 1..(4 * n) : All[i] = All[j] => i = j
    <2> SUFFICES ASSUME NEW i \in 1..(4 * n), NEW j \in 1..(4 * n), All[i] = All[j]
                 PROVE  i = j
        BY Zenon
    <2>1. All[i].queue = All[j].queue /\ All[i].prio = All[j].prio /\ All[i].id = All[j].id
        BY Zenon
    <2> HIDE DEF n
    <2>2. CASE i <= n
        <3>1. j <= n
            BY <1>0, <1>6, <2>1, <2>2
        <3> QED
            BY <1>0, <1>6, <2>1, <2>2, <3>1
    <2>3. CASE i > n /\ i <= 2 * n
        <3>1. j > n /\ j <= 2 * n
            BY <1>0, <1>6, <2>1, <2>3
        <3> QED
            BY <1>0, <1>6, <2>1, <2>3, <3>1
    <2>4. CASE i > 2 * n /\ i <= 3 * n
        <3>1. j > 2 * n /\ j <= 3 * n
            BY <1>0, <1>6, <2>1, <2>4
        <3> QED
            BY <1>0, <1>6, <2>1, <2>4, <3>1
    <2>5. CASE i > 3 * n
        <3>1. j > 3 * n
            BY <1>0, <1>6, <2>1, <2>5, SMTT(20)
        <3> QED
            BY <1>0, <1>6, <2>1, <2>5, <3>1
    <2> QED
        BY <1>0, <2>2, <2>3, <2>4, <2>5
<1> QED
    BY <1>4, <1>7, Zenon DEF All

(* The state that the invariant is about.                                   *)
flow == <<cpus, unassigned, work_proc_queue_, lanes, sent, active>>

(* A fresh start satisfies the invariant.                                   *)
LEMMA InitFlowInv == Init => FlowInv
<1> SUFFICES ASSUME Init PROVE FlowInv
    BY Zenon
<1>1. cpus \in CpuLists /\ cpus \in Seq(Nat)
    BY IngressAssumption, Zenon DEF Init
<1>2. unassigned = AllLanes(cpus) /\ unassigned \in Seq(LaneSet)
    BY <1>1, AllLanesDistinct, Zenon DEF Init, LaneSet
<1>3. /\ work_proc_queue_ = [w \in Workers |-> <<>>]
      /\ active = [w \in Workers |-> <<>>]
      /\ lanes = [l \in LaneSet |-> <<>>]
      /\ sent = [c \in Clients |-> <<>>]
    BY Zenon DEF Init, LaneSet
<1>4. TypeInv
    BY <1>1, <1>2, <1>3 DEF TypeInv
<1>5. DealInv
    <2>1. \A w \in Workers : Dealt(w) = {}
        BY <1>3 DEF Dealt
    <2> QED
        BY <1>1, <1>2, <2>1, AllLanesDistinct, Zenon DEF DealInv
<1>6. LaneInv /\ TakenInv /\ PresentInv /\ OrderInv
    BY <1>3 DEF LaneInv, TakenInv, PresentInv, OrderInv
<1> QED
    BY <1>4, <1>5, <1>6, Zenon DEF FlowInv

(* Steps that neither deal lanes nor move tasks.                            *)
LEMMA SameFlowKeepsFlowInv ==
    ASSUME FlowInv, UNCHANGED flow
    PROVE  FlowInv'
<1>1. Workers' = Workers /\ LaneSet' = LaneSet
    BY Zenon DEF flow, Workers, LaneSet
<1>2. \A w : Dealt(w)' = Dealt(w)
    BY Zenon DEF flow, Dealt
<1>3. \A c, i : LaneOf(c, i)' = LaneOf(c, i)
    BY Zenon DEF flow, LaneOf, EmplaceLane
<1>4. TypeInv' /\ DealInv'
    BY <1>1, <1>2, Zenon DEF flow, FlowInv, TypeInv, DealInv
<1>5. LaneInv' /\ TakenInv'
    BY <1>1, <1>2, <1>3 DEF flow, FlowInv, LaneInv, TakenInv
<1>6. \A c, i : InLane(c, i)' <=> InLane(c, i)
    BY <1>3, Zenon DEF flow, InLane
<1>7. \A w, n, c, i : Taken(w, n, c, i)' <=> Taken(w, n, c, i)
    BY Zenon DEF flow, Taken
<1>8. PresentInv' /\ OrderInv'
    BY <1>1, <1>3, <1>6, <1>7, Zenon DEF flow, FlowInv, PresentInv, OrderInv
<1> QED
    BY <1>4, <1>5, <1>8, Zenon DEF FlowInv

(* AssignQueueMap gives a worker the next lane, which no worker has.        *)
LEMMA AssignKeepsFlowInv ==
    ASSUME FlowInv, AssignQueueMap
    PROVE  FlowInv'
<1>1. CASE UNCHANGED <<unassigned, work_proc_queue_>>
    BY <1>1, SameFlowKeepsFlowInv, Zenon DEF AssignQueueMap, flow
<1> DEFINE l == Head(unassigned)
<1>2. ASSUME NEW u, unassigned # <<>>, unassigned' = Tail(unassigned),
             work_proc_queue_' = [work_proc_queue_ EXCEPT ![u] = Append(@, l)]
      PROVE  FlowInv'
    <2>1. work_proc_queue_' = [work_proc_queue_ EXCEPT ![u] = Append(@, l)]
        BY <1>2, Zenon
    <2>2. UNCHANGED <<cpus, lanes, sent, active>>
        BY Zenon DEF AssignQueueMap
    <2>3. Workers' = Workers /\ LaneSet' = LaneSet
        BY <2>2, Zenon DEF Workers, LaneSet
    <2>4. /\ unassigned \in Seq(LaneSet) /\ l \in LaneSet /\ l = unassigned[1]
          /\ Len(unassigned) \in Nat /\ Len(unassigned) >= 1
          /\ unassigned' \in Seq(LaneSet) /\ Len(unassigned') = Len(unassigned) - 1
          /\ \A i \in 1..Len(unassigned') :
                unassigned'[i] = unassigned[i + 1] /\ i + 1 \in 2..Len(unassigned)
        BY <1>2 DEF FlowInv, TypeInv
    <2>5. work_proc_queue_' \in [Workers -> Seq(LaneSet)]
        <3>1. \A w \in Workers : work_proc_queue_[w] \in Seq(LaneSet)
            BY Zenon DEF FlowInv, TypeInv
        <3>2. \A w \in Workers : Append(work_proc_queue_[w], l) \in Seq(LaneSet)
            BY <2>4, <3>1
        <3> QED
            BY <2>1, <3>1, <3>2, Zenon DEF FlowInv, TypeInv
    <2>6. \A w \in Workers : Dealt(w)' = IF w = u THEN Dealt(w) \cup {l} ELSE Dealt(w)
        <3> TAKE w \in Workers
        <3>1. CASE w # u
            BY <2>1, <3>1, Zenon DEF Dealt, FlowInv, TypeInv
        <3>2. CASE w = u
            <4> DEFINE q == work_proc_queue_[w]
            <4>1. q \in Seq(LaneSet) /\ work_proc_queue_'[w] = Append(q, l)
                BY <2>1, <3>2, Zenon DEF FlowInv, TypeInv
            <4>2. /\ Len(Append(q, l)) = Len(q) + 1 /\ Len(q) \in Nat
                  /\ Append(q, l)[Len(q) + 1] = l
                  /\ \A i \in 1..Len(q) : Append(q, l)[i] = q[i]
                BY <2>4, <4>1
            <4>3. \A i \in 1..(Len(q) + 1) : i \in 1..Len(q) \/ i = Len(q) + 1
                BY <4>2
            <4> HIDE DEF q
            <4>4. Len(q) + 1 \in 1..(Len(q) + 1) /\ \A i \in 1..Len(q) : i \in 1..(Len(q) + 1)
                BY <4>2
            <4>5. Dealt(w)' = {Append(q, l)[i] : i \in 1..(Len(q) + 1)}
                BY <4>1, <4>2, Zenon DEF Dealt
            <4>6. Dealt(w) = {q[i] : i \in 1..Len(q)}
                BY Zenon DEF Dealt, q
            <4>7. Dealt(w)' = Dealt(w) \cup {l}
                BY <4>2, <4>3, <4>4, <4>5, <4>6, Zenon
            <4> QED
                BY <3>2, <4>7, Zenon
        <3> QED
            BY <3>1, <3>2, Zenon
    <2>7. DealInv'
        <3>1. \A i, j \in 1..Len(unassigned') : unassigned'[i] = unassigned'[j] => i = j
            BY <2>4 DEF FlowInv, DealInv
        <3>2. \A i \in 1..Len(unassigned') : unassigned'[i] # l
            BY <2>4 DEF FlowInv, DealInv
        <3>3. \A w \in Workers : \A i \in 1..Len(unassigned') : unassigned'[i] \notin Dealt(w)'
            BY <2>4, <2>6, <3>2 DEF FlowInv, DealInv
        <3>4. \A w \in Workers : l \notin Dealt(w)
            BY <2>4 DEF FlowInv, DealInv
        <3>5. \A v, w \in Workers : Dealt(v)' \cap Dealt(w)' # {} => v = w
            BY <2>6, <3>4 DEF FlowInv, DealInv
        <3> QED
            BY <2>3, <3>1, <3>3, <3>5, Zenon DEF DealInv
    <2>8. \A c, i : LaneOf(c, i)' = LaneOf(c, i)
        BY <2>2, Zenon DEF LaneOf, EmplaceLane
    <2>9. LaneInv' /\ TakenInv'
        <3>1. LaneInv'
            BY <2>2, <2>3, <2>8 DEF FlowInv, LaneInv
        <3>2. \A w \in Workers : Dealt(w) \subseteq Dealt(w)'
            BY <2>6, Zenon
        <3>3. TakenInv'
            BY <2>2, <2>3, <2>8, <3>2, Zenon DEF FlowInv, TakenInv
        <3> QED
            BY <3>1, <3>3, Zenon
    <2>10. (\A c, i : InLane(c, i)' <=> InLane(c, i))
            /\ \A w, n, c, i : Taken(w, n, c, i)' <=> Taken(w, n, c, i)
        BY <2>2, <2>8, Zenon DEF InLane, Taken
    <2>11. PresentInv' /\ OrderInv'
        BY <2>2, <2>3, <2>8, <2>10, Zenon DEF FlowInv, PresentInv, OrderInv
    <2>12. TypeInv'
        BY <2>2, <2>3, <2>4, <2>5, Zenon DEF FlowInv, TypeInv
    <2> QED
        BY <2>7, <2>9, <2>11, <2>12, Zenon DEF FlowInv
<1>3. \/ UNCHANGED <<unassigned, work_proc_queue_>>
      \/ /\ unassigned # <<>> /\ unassigned' = Tail(unassigned)
         /\ \E u : work_proc_queue_' = [work_proc_queue_ EXCEPT ![u] = Append(@, l)]
    BY Zenon DEF AssignQueueMap
<1> QED
    BY <1>1, <1>2, <1>3, Zenon

(* A client appends its next task to the lane of its hash.                  *)
LEMMA ScheduleKeepsFlowInv ==
    ASSUME FlowInv, NEW c \in Clients, ScheduleTask(c)
    PROVE  FlowInv'
<1>0. PICK n : n = Len(sent[c]) + 1
    BY Zenon
<1> DEFINE e == <<c, n>>
<1>1. PICK hash \in Hashes :
        /\ lanes' = [lanes EXCEPT ![EmplaceLane(c, hash)] = Append(@, e)]
        /\ sent' = [sent EXCEPT ![c] = Append(@, hash)]
    BY <1>0, Zenon DEF ScheduleTask
<1> DEFINE l == EmplaceLane(c, hash)
<1>2. UNCHANGED <<cpus, unassigned, work_proc_queue_, active>>
    BY Zenon DEF ScheduleTask, startup
<1>3. l \in LaneSet
    BY Shape, Zenon DEF FlowInv
<1>4. Workers' = Workers /\ LaneSet' = LaneSet /\ \A w : Dealt(w)' = Dealt(w)
    BY <1>2, Zenon DEF Workers, LaneSet, Dealt
<1>5. /\ sent[c] \in Seq(Hashes) /\ Len(sent[c]) \in Nat /\ n \in Nat \ {0} /\ e \in Sent
      /\ lanes[l] \in Seq(Sent) /\ Len(lanes[l]) \in Nat
    BY <1>0, <1>3 DEF FlowInv, TypeInv, Sent
<1>6. TypeInv'
    <2>1. lanes' \in [LaneSet -> Seq(Sent)]
        <3>1. Append(lanes[l], e) \in Seq(Sent)
            BY <1>5
        <3> QED
            BY <1>1, <3>1, Zenon DEF FlowInv, TypeInv
    <2>2. sent' \in [Clients -> Seq(Hashes)]
        <3>1. Append(sent[c], hash) \in Seq(Hashes)
            BY <1>5
        <3> QED
            BY <1>1, <3>1, Zenon DEF FlowInv, TypeInv
    <2> QED
        BY <1>2, <1>4, <2>1, <2>2, Zenon DEF FlowInv, TypeInv, Sent
<1>7. \A d \in Clients : /\ Len(sent[d]) \in Nat
                         /\ Len(sent'[d]) = IF d = c THEN n ELSE Len(sent[d])
                         /\ \A i \in 1..Len(sent[d]) : sent'[d][i] = sent[d][i]
    BY <1>0, <1>1, <1>5 DEF FlowInv, TypeInv
<1>8. sent'[c][n] = hash
    BY <1>0, <1>1, <1>5 DEF FlowInv, TypeInv
<1>9. \A d \in Clients : \A i \in 1..Len(sent[d]) : LaneOf(d, i)' = LaneOf(d, i)
    BY <1>2, <1>7, Zenon DEF LaneOf, EmplaceLane
<1>10. LaneOf(c, n)' = l
    BY <1>2, <1>8, Zenon DEF LaneOf, EmplaceLane
<1>11. /\ \A m \in LaneSet : m # l => lanes'[m] = lanes[m]
       /\ Len(lanes'[l]) = Len(lanes[l]) + 1
       /\ lanes'[l][Len(lanes[l]) + 1] = e
       /\ \A k \in 1..Len(lanes[l]) : lanes'[l][k] = lanes[l][k]
    BY <1>1, <1>3, <1>5 DEF FlowInv, TypeInv
<1> HIDE DEF e, l
<1>12. LaneInv'
    <2> SUFFICES ASSUME NEW m \in LaneSet, NEW k \in 1..Len(lanes'[m]),
                        NEW d \in Clients, NEW i \in Nat, lanes'[m][k] = <<d, i>>
                 PROVE  /\ i \in 1..Len(sent'[d])
                        /\ LaneOf(d, i)' = m
                        /\ \A h \in 1..(k - 1), j \in Nat : lanes'[m][h] = <<d, j>> => j < i
        BY <1>4, Zenon DEF LaneInv
    <2>1. CASE k \in 1..Len(lanes[m])
        <3>1. \A h \in 1..k : lanes'[m][h] = lanes[m][h]
            <4>1. Len(lanes[m]) \in Nat
                BY DEF FlowInv, TypeInv
            <4>2. \A h \in 1..k : h \in 1..Len(lanes[m])
                BY <2>1, <4>1
            <4>3. m = l \/ m # l
                BY Zenon
            <4> QED
                BY <1>11, <4>2, <4>3, Zenon
        <3>2. lanes[m][k] = <<d, i>>
            BY <2>1, <3>1
        <3>3. /\ i \in 1..Len(sent[d]) /\ LaneOf(d, i) = m
              /\ \A h \in 1..(k - 1), j \in Nat : lanes[m][h] = <<d, j>> => j < i
            BY <2>1, <3>2 DEF FlowInv, LaneInv
        <3>4. i \in 1..Len(sent'[d])
            BY <1>0, <1>5, <1>7, <3>3, SMTT(20)
        <3> QED
            BY <1>9, <3>1, <3>3, <3>4, SMTT(20)
    <2>2. CASE ~(k \in 1..Len(lanes[m]))
        <3>1. m = l /\ k = Len(lanes[l]) + 1
            BY <1>5, <1>11, <2>2
        <3>2. d = c /\ i = n
            BY <1>11, <3>1 DEF e
        <3>3. \A h \in 1..(k - 1) : lanes'[m][h] = lanes[m][h] /\ h \in 1..Len(lanes[m])
            BY <1>5, <1>11, <3>1
        <3>4. \A h \in 1..(k - 1), j \in Nat : lanes'[m][h] = <<c, j>> => j \in 1..Len(sent[c])
            BY <3>3, SMTT(20) DEF FlowInv, LaneInv
        <3>5. \A h \in 1..(k - 1), j \in Nat : lanes'[m][h] = <<c, j>> => j < n
            BY <1>0, <1>5, <3>4, SMTT(20)
        <3>6. n \in 1..Len(sent'[c])
            BY <1>5, <1>7
        <3> QED
            BY <1>10, <3>1, <3>2, <3>5, <3>6, Zenon
    <2> QED
        BY <2>1, <2>2, Zenon
<1>13. \A d \in Clients : \A i \in 1..Len(sent[d]) : i \in 1..Len(sent'[d])
    BY <1>0, <1>5, <1>7
<1>14. TakenInv'
    <2> SUFFICES ASSUME NEW w \in Workers, NEW k \in 1..Len(active[w]),
                        NEW d \in Clients, NEW i \in Nat, active[w][k] = <<d, i>>
                 PROVE  i \in 1..Len(sent'[d]) /\ LaneOf(d, i)' \in Dealt(w)
        BY <1>2, <1>4, Zenon DEF TakenInv
    <2>1. i \in 1..Len(sent[d]) /\ LaneOf(d, i) \in Dealt(w)
        BY Zenon DEF FlowInv, TakenInv
    <2> QED
        BY <1>9, <1>13, <2>1, Zenon
<1>15. \A w, k, d, i : Taken(w, k, d, i)' <=> Taken(w, k, d, i)
    BY <1>2, Zenon DEF Taken
<1>16. PresentInv'
    <2> SUFFICES ASSUME NEW d \in Clients, NEW i \in 1..Len(sent'[d])
                 PROVE  InLane(d, i)' \/ \E w \in Workers : Taken(w, Len(active[w]), d, i)
        BY <1>2, <1>4, <1>15, Zenon DEF PresentInv
    <2>1. CASE i \in 1..Len(sent[d])
        <3>1. CASE \E w \in Workers : Taken(w, Len(active[w]), d, i)
            BY <3>1, Zenon
        <3>2. CASE InLane(d, i)
            <4>1. LaneOf(d, i) \in LaneSet
                <5>1. sent[d][i] \in Hashes
                    BY <2>1 DEF FlowInv, TypeInv
                <5> QED
                    BY <5>1, Shape, Zenon DEF FlowInv, LaneOf
            <4>2. PICK k \in 1..Len(lanes[LaneOf(d, i)]) : lanes[LaneOf(d, i)][k] = <<d, i>>
                BY <3>2, Zenon DEF InLane
            <4>3. k \in 1..Len(lanes'[LaneOf(d, i)]) /\ lanes'[LaneOf(d, i)][k] = <<d, i>>
                BY <1>5, <1>11, <4>1, <4>2, SMTT(20)
            <4> QED
                BY <1>9, <2>1, <4>3, SMTT(20) DEF InLane
        <3> QED
            BY <2>1, <3>1, <3>2, Zenon DEF FlowInv, PresentInv
    <2>2. CASE ~(i \in 1..Len(sent[d]))
        <3>1. d = c /\ i = n
            BY <1>0, <1>5, <1>7, <2>2
        <3>2. Len(lanes[l]) + 1 \in 1..Len(lanes'[l])
            BY <1>5, <1>11
        <3>3. lanes'[l][Len(lanes[l]) + 1] = <<d, i>> /\ LaneOf(d, i)' = l
            BY <1>10, <1>11, <3>1, Zenon DEF e
        <3> QED
            BY <3>2, <3>3, SMTT(20) DEF InLane
    <2> QED
        BY <2>1, <2>2, Zenon
<1>17. OrderInv'
    <2> SUFFICES ASSUME NEW d \in Clients, NEW i \in 1..Len(sent'[d]), NEW j \in 1..Len(sent'[d]),
                        i < j, LaneOf(d, i)' = LaneOf(d, j)',
                        NEW w \in Workers, NEW k \in 1..Len(active[w]), active[w][k] = <<d, j>>
                 PROVE  Taken(w, k - 1, d, i)
        BY <1>2, <1>4, <1>15, Zenon DEF OrderInv
    <2>1. j \in 1..Len(sent[d])
        BY <1>7 DEF FlowInv, TakenInv
    <2>2. i \in 1..Len(sent[d])
        BY <1>7, <2>1
    <2> QED
        BY <1>9, <2>1, <2>2, SMTT(20) DEF FlowInv, OrderInv
<1>18. DealInv'
    BY <1>2, <1>4, Zenon DEF FlowInv, DealInv
<1> QED
    BY <1>6, <1>12, <1>14, <1>16, <1>17, <1>18, Zenon DEF FlowInv

(* A worker takes the first task of a lane it was dealt.  The client's      *)
(* earlier tasks of that lane are not behind the first one, so some worker  *)
(* took them, and only this one could.                                      *)
LEMMA IngestKeepsFlowInv ==
    ASSUME IInv, NEW w \in Workers, IngestTask(w)
    PROVE  FlowInv'
<1> USE DEF IInv
<1>1. UNCHANGED <<cpus, unassigned, work_proc_queue_, sent>>
    BY Zenon DEF IngestTask, startup
<1>2. /\ Workers' = Workers /\ LaneSet' = LaneSet
      /\ \A v : Dealt(v)' = Dealt(v)
      /\ \A d, i : LaneOf(d, i)' = LaneOf(d, i)
    BY <1>1, Zenon DEF Workers, LaneSet, Dealt, LaneOf, EmplaceLane
<1>3. PICK l : /\ l = work_proc_queue_[w][pos[w]]
               /\ lanes[l] # <<>>
               /\ active' = [active EXCEPT ![w] = Append(@, Head(lanes[l]))]
               /\ lanes' = [lanes EXCEPT ![l] = Tail(@)]
    BY Zenon DEF IngestTask
<1>4. l \in Dealt(w) /\ l \in LaneSet
    <2>1. work_proc_queue_[w] \in Seq(LaneSet) /\ work_proc_queue_[w] # <<>>
        BY Zenon DEF IngestTask, FlowInv, TypeInv
    <2>2. pos[w] \in 1..Len(work_proc_queue_[w])
        BY <2>1 DEF PosInv
    <2> QED
        BY <1>3, <2>1, <2>2 DEF Dealt
<1>5. PICK c \in Clients, n \in Nat : Head(lanes[l]) = <<c, n>> /\ n # 0
    <2>1. Head(lanes[l]) \in Sent
        <3>1. lanes[l] \in Seq(Sent) /\ lanes[l] # <<>>
            BY <1>3, <1>4, Zenon DEF FlowInv, TypeInv
        <3> QED
            BY <3>1
    <2> QED
        BY <2>1 DEF Sent
<1>6. /\ lanes[l] \in Seq(Sent) /\ Len(lanes[l]) \in Nat /\ Len(lanes[l]) >= 1
      /\ lanes[l][1] = <<c, n>>
    <2>1. lanes[l] \in Seq(Sent) /\ lanes[l] # <<>>
        BY <1>3, <1>4, Zenon DEF FlowInv, TypeInv
    <2> QED
        BY <1>5, <2>1
<1>7. /\ lanes'[l] = Tail(lanes[l]) /\ Len(lanes'[l]) = Len(lanes[l]) - 1
      /\ \A k \in 1..Len(lanes'[l]) : k + 1 \in 2..Len(lanes[l]) /\ lanes'[l][k] = lanes[l][k + 1]
      /\ \A m \in LaneSet : m # l => lanes'[m] = lanes[m]
    <2>1. DOMAIN lanes = LaneSet
        BY Zenon DEF FlowInv, TypeInv
    <2>2. /\ lanes'[l] = Tail(lanes[l])
          /\ \A m \in LaneSet : m # l => lanes'[m] = lanes[m]
        BY <1>3, <1>4, <2>1, Zenon
    <2>3. /\ Len(Tail(lanes[l])) = Len(lanes[l]) - 1
          /\ \A k \in 1..(Len(lanes[l]) - 1) : Tail(lanes[l])[k] = lanes[l][k + 1]
        BY <1>6
    <2>4. Len(lanes'[l]) = Len(lanes[l]) - 1
        BY <2>2, <2>3, Zenon
    <2>5. \A k \in 1..(Len(lanes[l]) - 1) : k + 1 \in 2..Len(lanes[l])
        BY <1>6
    <2> QED
        BY <2>2, <2>3, <2>4, <2>5, Zenon
<1>8. /\ \A v \in Workers : active[v] \in Seq(Sent) /\ Len(active[v]) \in Nat
      /\ active'[w] = Append(active[w], <<c, n>>)
      /\ Len(active'[w]) = Len(active[w]) + 1
      /\ active'[w][Len(active[w]) + 1] = <<c, n>>
      /\ \A k \in 1..Len(active[w]) : active'[w][k] = active[w][k]
      /\ \A v \in Workers : v # w => active'[v] = active[v]
    <2>1. /\ active \in [Workers -> Seq(Sent)]
          /\ \A v \in Workers : active[v] \in Seq(Sent) /\ Len(active[v]) \in Nat
        BY SMTT(20) DEF FlowInv, TypeInv
    <2>2. /\ active'[w] = Append(active[w], <<c, n>>)
          /\ \A v \in Workers : v # w => active'[v] = active[v]
        BY <1>3, <1>5, <2>1, Zenon
    <2> QED
        BY <2>1, <2>2
<1>9. \A v \in Workers : \A k \in 1..Len(active[v]) :
            k \in 1..Len(active'[v]) /\ active'[v][k] = active[v][k]
    <2> TAKE v \in Workers
    <2>1. CASE v = w
        <3> SUFFICES ASSUME NEW k \in 1..Len(active[w])
                     PROVE  k \in 1..Len(active'[w]) /\ active'[w][k] = active[w][k]
            BY <2>1, Zenon
        <3> QED
            BY <1>8, SMTT(20)
    <2>2. CASE v # w
        BY <1>8, <2>2, SMTT(20)
    <2> QED
        BY <2>1, <2>2, Zenon
<1>10. \A v \in Workers : \A k \in 1..Len(active'[v]) :
            (v = w /\ k = Len(active[w]) + 1) \/ k \in 1..Len(active[v])
    <2> TAKE v \in Workers
    <2>1. CASE v = w
        BY <1>8, <2>1
    <2>2. CASE v # w
        BY <1>8, <2>2, Zenon
    <2> QED
        BY <2>1, <2>2, Zenon
<1>11. TypeInv'
    <2>1. <<c, n>> \in Sent
        BY <1>5, Zenon DEF Sent
    <2>2. Append(active[w], <<c, n>>) \in Seq(Sent) /\ Tail(lanes[l]) \in Seq(Sent)
        BY <1>6, <1>8, <2>1
    <2>3. lanes' \in [LaneSet -> Seq(Sent)] /\ active' \in [Workers -> Seq(Sent)]
        BY <1>3, <1>5, <2>2, Zenon DEF FlowInv, TypeInv
    <2> QED
        BY <1>1, <1>2, <2>3, Zenon DEF FlowInv, TypeInv, Sent
<1>12. n \in 1..Len(sent[c]) /\ LaneOf(c, n) = l
    BY <1>4, <1>6 DEF FlowInv, LaneInv
<1>13. \A v \in Workers, k \in Nat : \A d, i :
            k <= Len(active[v]) /\ Taken(v, k, d, i) => Taken(v, k, d, i)'
    <2> SUFFICES ASSUME NEW v \in Workers, NEW k \in Nat, NEW d, NEW i, k <= Len(active[v]),
                        Taken(v, k, d, i)
                 PROVE  Taken(v, k, d, i)'
        BY Zenon
    <2>1. PICK h \in 1..k : active[v][h] = <<d, i>>
        BY Zenon DEF Taken
    <2>2. h \in 1..Len(active[v])
        BY <1>8
    <2>3. active'[v][h] = <<d, i>>
        BY <1>9, <2>1, <2>2, Zenon
    <2> QED
        BY <2>3, Zenon DEF Taken
<1>14. LaneInv'
    <2> SUFFICES ASSUME NEW m \in LaneSet, NEW k \in 1..Len(lanes'[m]),
                        NEW d \in Clients, NEW i \in Nat, lanes'[m][k] = <<d, i>>
                 PROVE  /\ i \in 1..Len(sent[d])
                        /\ LaneOf(d, i) = m
                        /\ \A h \in 1..(k - 1), j \in Nat : lanes'[m][h] = <<d, j>> => j < i
        BY <1>1, <1>2 DEF LaneInv
    <2>1. CASE m # l
        <3>1. lanes'[m] = lanes[m]
            BY <1>7, <2>1, Zenon
        <3>2. k \in 1..Len(lanes[m]) /\ lanes[m][k] = <<d, i>>
            BY <3>1, Zenon
        <3> QED
            BY <3>1, <3>2, SMTT(20) DEF FlowInv, LaneInv
    <2>2. CASE m = l
        <3>0. k \in 1..Len(lanes'[l]) /\ lanes'[l][k] = <<d, i>>
            BY <2>2, Zenon
        <3>1. k + 1 \in 1..Len(lanes[l]) /\ lanes[l][k + 1] = <<d, i>>
            BY <1>6, <1>7, <3>0
        <3>2. /\ i \in 1..Len(sent[d]) /\ LaneOf(d, i) = l
              /\ \A h \in 1..((k + 1) - 1), j \in Nat : lanes[l][h] = <<d, j>> => j < i
            BY <1>4, <3>1 DEF FlowInv, LaneInv
        <3>3. \A h \in 1..(k - 1) : h + 1 \in 1..((k + 1) - 1) /\ lanes'[l][h] = lanes[l][h + 1]
            BY <1>6, <1>7, <3>0, SMTT(20)
        <3> QED
            BY <2>2, <3>2, <3>3, SMTT(20)
    <2> QED
        BY <2>1, <2>2, Zenon
<1>15. TakenInv'
    <2> SUFFICES ASSUME NEW v \in Workers, NEW k \in 1..Len(active'[v]),
                        NEW d \in Clients, NEW i \in Nat, active'[v][k] = <<d, i>>
                 PROVE  i \in 1..Len(sent[d]) /\ LaneOf(d, i) \in Dealt(v)
        BY <1>1, <1>2, Zenon DEF TakenInv
    <2>1. CASE v = w /\ k = Len(active[w]) + 1
        BY <1>4, <1>8, <1>12, <2>1
    <2>2. CASE ~(v = w /\ k = Len(active[w]) + 1)
        <3>1. k \in 1..Len(active[v]) /\ active[v][k] = <<d, i>>
            BY <1>9, <1>10, <2>2, Zenon
        <3> QED
            BY <3>1, Zenon DEF FlowInv, TakenInv
    <2> QED
        BY <2>1, <2>2, Zenon
<1>16. DealInv'
    BY <1>1, <1>2, Zenon DEF FlowInv, DealInv
<1>17. PresentInv'
    <2> SUFFICES ASSUME NEW d \in Clients, NEW i \in 1..Len(sent[d])
                 PROVE  InLane(d, i)' \/ \E v \in Workers : Taken(v, Len(active[v]), d, i)'
        BY <1>1, <1>2, Zenon DEF PresentInv
    <2>1. CASE \E v \in Workers : Taken(v, Len(active[v]), d, i)
        <3>1. PICK v \in Workers : Taken(v, Len(active[v]), d, i)
            BY <2>1, Zenon
        <3>2. PICK h \in 1..Len(active[v]) : active[v][h] = <<d, i>>
            BY <3>1, Zenon DEF Taken
        <3>3. h \in 1..Len(active'[v]) /\ active'[v][h] = <<d, i>>
            BY <1>9, <3>2, Zenon
        <3> QED
            BY <3>3, Zenon DEF Taken
    <2>2. CASE InLane(d, i)
        <3>1. PICK k \in 1..Len(lanes[LaneOf(d, i)]) : lanes[LaneOf(d, i)][k] = <<d, i>>
            BY <2>2, Zenon DEF InLane
        <3>2. LaneOf(d, i) \in LaneSet
            <4>1. sent[d][i] \in Hashes
                BY DEF FlowInv, TypeInv
            <4> QED
                BY <4>1, Shape, Zenon DEF FlowInv, LaneOf
        <3>3. CASE LaneOf(d, i) # l
            BY <1>2, <1>7, <3>1, <3>2, <3>3, SMTT(20) DEF InLane
        <3>4. CASE LaneOf(d, i) = l /\ k = 1
            <4>1. <<d, i>> = <<c, n>>
                BY <1>6, <3>1, <3>4, Zenon
            <4>2. Len(active[w]) + 1 \in 1..Len(active'[w])
                BY <1>8
            <4>3. Taken(w, Len(active[w]), d, i)'
                <5>1. active'[w][Len(active[w]) + 1] = <<d, i>>
                    BY <1>8, <4>1, Zenon
                <5> QED
                    BY <4>2, <5>1, Zenon DEF Taken
            <4> QED
                BY <4>3, Zenon
        <3>5. CASE LaneOf(d, i) = l /\ k # 1
            <4>1. k - 1 \in 1..Len(lanes'[l]) /\ (k - 1) + 1 = k
                BY <1>6, <1>7, <3>1, <3>5
            <4>2. lanes'[l][k - 1] = <<d, i>>
                BY <1>7, <3>1, <3>5, <4>1, Zenon
            <4> QED
                BY <1>2, <3>5, <4>1, <4>2, SMTT(20) DEF InLane
        <3> QED
            BY <3>3, <3>4, <3>5, Zenon
    <2> QED
        BY <2>1, <2>2, Zenon DEF FlowInv, PresentInv
<1>18. OrderInv'
    <2> SUFFICES ASSUME NEW d \in Clients, NEW i \in 1..Len(sent[d]), NEW j \in 1..Len(sent[d]),
                        i < j, LaneOf(d, i) = LaneOf(d, j),
                        NEW v \in Workers, NEW k \in 1..Len(active'[v]), active'[v][k] = <<d, j>>
                 PROVE  Taken(v, k - 1, d, i)'
        BY <1>1, <1>2, SMTT(20) DEF OrderInv
    <2>1. CASE v = w /\ k = Len(active[w]) + 1
        <3>1. d = c /\ j = n /\ LaneOf(d, i) = l
            BY <1>8, <1>12, <2>1
        <3>2. ~InLane(d, i)
            <4> SUFFICES ASSUME NEW h \in 1..Len(lanes[l]), lanes[l][h] = <<d, i>> PROVE FALSE
                BY <3>1, Zenon DEF InLane
            <4>1. CASE h = 1
                BY <1>6, <3>1, <4>1
            <4>2. CASE h # 1
                <5>1. 1 \in 1..(h - 1)
                    BY <1>6, <4>2
                <5>2. n < i
                    BY <1>4, <1>6, <3>1, <5>1, SMTT(20) DEF FlowInv, LaneInv
                <5> QED
                    BY <3>1, <5>2
            <4> QED
                BY <4>1, <4>2, SMTT(20)
        <3>3. PICK x \in Workers : Taken(x, Len(active[x]), d, i)
            BY <3>2, Zenon DEF FlowInv, PresentInv
        <3>4. l \in Dealt(x)
            BY <3>1, <3>3, SMTT(20) DEF Taken, FlowInv, TakenInv
        <3>5. x = w
            BY <1>4, <3>4, Zenon DEF FlowInv, DealInv
        <3>6. k - 1 = Len(active[w])
            BY <1>8, <2>1
        <3> QED
            BY <1>8, <1>13, <2>1, <3>3, <3>5, <3>6, SMTT(20)
    <2>2. CASE ~(v = w /\ k = Len(active[w]) + 1)
        <3>1. k \in 1..Len(active[v]) /\ active[v][k] = <<d, j>>
            BY <1>9, <1>10, <2>2, Zenon
        <3>2. Taken(v, k - 1, d, i)
            BY <3>1, Zenon DEF FlowInv, OrderInv
        <3>3. k - 1 \in Nat /\ k - 1 <= Len(active[v])
            BY <1>8, <3>1
        <3> QED
            BY <1>13, <3>2, <3>3, Zenon
    <2> QED
        BY <2>1, <2>2, Zenon
<1> QED
    BY <1>11, <1>14, <1>15, <1>16, <1>17, <1>18, Zenon DEF FlowInv

(* A worker's list of lanes only grows, so its position stays inside.       *)
LEMMA AssignKeepsPosInv ==
    ASSUME FlowInv, PosInv, AssignQueueMap
    PROVE  PosInv'
<1>1. UNCHANGED <<cpus, pos>> /\ Workers' = Workers
    BY ZenonT(20) DEF AssignQueueMap, Workers
<1>2. \/ UNCHANGED work_proc_queue_
      \/ \E u, l : /\ l \in LaneSet
                   /\ work_proc_queue_' = [work_proc_queue_ EXCEPT ![u] = Append(@, l)]
    <2>1. Head(unassigned) \in LaneSet
        <3>1. unassigned \in Seq(LaneSet)
            BY Zenon DEF FlowInv, TypeInv
        <3>2. unassigned # <<>>
            BY Zenon DEF AssignQueueMap
        <3> QED
            BY <3>1, <3>2
    <2> QED
        BY <2>1, Zenon DEF AssignQueueMap
<1>3. \A w \in Workers : work_proc_queue_[w] \in Seq(LaneSet)
    BY Zenon DEF FlowInv, TypeInv
<1>4. \A w \in Workers : /\ Len(work_proc_queue_[w]) \in Nat /\ Len(work_proc_queue_'[w]) \in Nat
                         /\ Len(work_proc_queue_[w]) <= Len(work_proc_queue_'[w])
    <2> TAKE w \in Workers
    <2>1. CASE UNCHANGED work_proc_queue_
        BY <1>3, <2>1
    <2>2. ASSUME NEW u, NEW l, l \in LaneSet,
                 work_proc_queue_' = [work_proc_queue_ EXCEPT ![u] = Append(@, l)]
          PROVE  /\ Len(work_proc_queue_[w]) \in Nat /\ Len(work_proc_queue_'[w]) \in Nat
                 /\ Len(work_proc_queue_[w]) <= Len(work_proc_queue_'[w])
        <3>1. w \in DOMAIN work_proc_queue_
            BY Zenon DEF FlowInv, TypeInv
        <3>2. CASE u = w
            <4>1. work_proc_queue_'[w] = Append(work_proc_queue_[w], l)
                BY <2>2, <3>1, <3>2, Zenon
            <4> QED
                BY <1>3, <2>2, <4>1
        <3>3. CASE u # w
            BY <1>3, <2>2, <3>1, <3>3
        <3> QED
            BY <3>2, <3>3, Zenon
    <2> QED
        BY <1>2, <2>1, <2>2, Zenon
<1> QED
    BY <1>1, <1>4 DEF PosInv

(* IngestProcLanes goes on to the next lane of the list, or to the first.   *)
LEMMA NextLaneKeepsPosInv ==
    ASSUME FlowInv, PosInv, NEW w \in Workers, IngestProcLanes(w)
    PROVE  PosInv'
<1>1. UNCHANGED <<cpus, work_proc_queue_>> /\ Workers' = Workers
    BY Zenon DEF IngestProcLanes, startup, Workers
<1>2. PICK n \in Nat \ {0} : n = Len(work_proc_queue_[w])
    BY DEF IngestProcLanes, FlowInv, TypeInv
<1>3. PICK q \in 1..n : q = NextPos(w)
    <2>1. pos[w] \in Nat
        BY Zenon DEF PosInv
    <2>2. pos[w] % n \in 0..(n - 1)
        BY <1>2, <2>1
    <2> QED
        BY <1>2, <2>2 DEF NextPos
<1>4. pos' = [pos EXCEPT ![w] = q]
    BY <1>3, Zenon DEF IngestProcLanes
<1>5. pos' \in [Workers -> Nat \ {0}]
    BY <1>3, <1>4 DEF PosInv
<1>6. \A v \in Workers : pos'[v] = 1 \/ pos'[v] <= Len(work_proc_queue_[v])
    BY <1>2, <1>3, <1>4 DEF PosInv
<1> QED
    BY <1>1, <1>5, <1>6, Zenon DEF PosInv

(* Steps that leave the lists of lanes and the positions alone.             *)
LEMMA SamePosKeepsPosInv ==
    ASSUME PosInv, UNCHANGED <<cpus, work_proc_queue_, pos>>
    PROVE  PosInv'
BY Zenon DEF PosInv, Workers

(* Every initial state satisfies the whole invariant.                       *)
LEMMA InitIInv == Init => IInv
<1>1. Init => PosInv
    BY DEF Init, PosInv
<1> QED
    BY <1>1, InitFlowInv, Zenon DEF IInv

(* Every step keeps it.                                                     *)
LEMMA StepKeepsIInv == IInv /\ [Next]_vars => IInv'
<1> SUFFICES ASSUME IInv, [Next]_vars PROVE IInv'
    BY Zenon
<1> USE DEF IInv
<1>1. ASSUME NEW core, MarkWorkers(core) PROVE IInv'
    BY <1>1, SameFlowKeepsFlowInv, SamePosKeepsPosInv, Zenon DEF MarkWorkers, flow
<1>2. CASE AssignQueueMap
    BY <1>2, AssignKeepsFlowInv, AssignKeepsPosInv, Zenon
<1>3. CASE SpawnWorkers
    BY <1>3, SameFlowKeepsFlowInv, SamePosKeepsPosInv, Zenon DEF SpawnWorkers, flow
<1>4. ASSUME NEW c \in Clients, ScheduleTask(c) PROVE IInv'
    BY <1>4, ScheduleKeepsFlowInv, SamePosKeepsPosInv, Zenon DEF ScheduleTask, startup
<1>5. ASSUME NEW w \in Workers, IngestTask(w) PROVE IInv'
    BY <1>5, IngestKeepsFlowInv, SamePosKeepsPosInv, Zenon DEF IngestTask, startup
<1>6. ASSUME NEW w \in Workers, IngestProcLanes(w) PROVE IInv'
    <2>1. UNCHANGED flow
        BY <1>6, Zenon DEF IngestProcLanes, startup, flow
    <2> QED
        BY <1>6, <2>1, SameFlowKeepsFlowInv, NextLaneKeepsPosInv, Zenon
<1>7. CASE UNCHANGED vars
    BY <1>7, SameFlowKeepsFlowInv, SamePosKeepsPosInv, Zenon DEF vars, startup, flow
<1> QED
    BY <1>1, <1>2, <1>3, <1>4, <1>5, <1>6, <1>7, Zenon DEF Next, StartUp, Work

(* The invariant holds in every state of every behaviour.                   *)
THEOREM AlwaysIInv == Spec => []IInv
BY InitIInv, StepKeepsIInv, PTL DEF Spec

(* Two tasks of one client with the same hash are taken by the same worker, *)
(* in the order in which the client sent them (MultiQueue::Emplace,         *)
(* AssignQueueMap, IngestLane): for any cores, clients, hashes and depth.   *)
THEOREM InOrder == Spec => []SentInOrder
<1>1. IInv => SentInOrder
    <2> SUFFICES ASSUME IInv, NEW c \in Clients, NEW i \in DOMAIN sent[c], NEW j \in DOMAIN sent[c],
                        i < j, sent[c][i] = sent[c][j],
                        NEW w \in Workers, NEW k \in DOMAIN active[w], active[w][k] = <<c, j>>
                 PROVE  \E h \in 1..(k - 1) : active[w][h] = <<c, i>>
        BY Zenon DEF SentInOrder
    <2>1. /\ i \in 1..Len(sent[c]) /\ j \in 1..Len(sent[c]) /\ k \in 1..Len(active[w])
        BY DEF IInv, FlowInv, TypeInv
    <2>2. LaneOf(c, i) = LaneOf(c, j)
        BY Zenon DEF LaneOf
    <2>3. Taken(w, k - 1, c, i)
        BY <2>1, <2>2, Zenon DEF IInv, FlowInv, OrderInv
    <2> QED
        BY <2>3, Zenon DEF Taken
<1> QED
    BY <1>1, AlwaysIInv, PTL
=============================================================================
