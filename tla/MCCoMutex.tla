----------------------------- MODULE MCCoMutex -----------------------------
(* CoMutex with three trees, two of which have two tasks, so that re-entry, *)
(* a hand-over to several tasks and a queue of two trees all occur.         *)
EXTENDS CoMutex

CONSTANTS a1, a2, b1, b2, c, A, B, C

MCTasks == {a1, a2, b1, b2, c}
MCRoots == {A, B, C}
MCRootOf == [t \in MCTasks |-> IF t \in {a1, a2} THEN A
                               ELSE IF t \in {b1, b2} THEN B ELSE C]
=============================================================================
