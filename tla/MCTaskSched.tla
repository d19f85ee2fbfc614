---------------------------- MODULE MCTaskSched ----------------------------
(* TaskSched with two workers, a low latency lane on each and a high        *)
(* latency lane on the first.                                               *)
EXTENDS TaskSched

CONSTANTS w0, w1, l0, l1, h0, p, q, r, s

MCWorkers == {w0, w1}
TwoLanes == {l0, l1}
ThreeLanes == {l0, l1, h0}
MCWorkerOf == [l \in Lanes |-> IF l = l1 THEN w1 ELSE w0]
MCPrioOf == [l \in Lanes |-> IF l = h0 THEN "high" ELSE "low"]

(* p has the subtasks q and r, and q the subtask s.                         *)
ThreeTasks == {p, q, r}
FourTasks == {p, q, r, s}
MCParentOf == [t \in Tasks |-> CASE t = p -> Null
                                 [] t \in {q, r} -> p
                                 [] OTHER -> q]

(* p has the subtask q; r and s are clients' tasks.                         *)
FlatParentOf == [t \in Tasks |-> IF t = q THEN p ELSE Null]

JustR == {r}
JustS == {s}
=============================================================================
