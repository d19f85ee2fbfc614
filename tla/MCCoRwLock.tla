---------------------------- MODULE MCCoRwLock ----------------------------
(* CoRwLock with two trees of two tasks and a tree of one task, so that a   *)
(* hand-over to several writers and to several readers, re-entry and a      *)
(* queue of two trees of writers all occur.                                 *)
EXTENDS CoRwLock

CONSTANTS a1, a2, b1, b2, c, A, B, C

MCTasks == {a1, a2, b1, b2, c}
MCRoots == {A, B, C}
MCRootOf == [t \in MCTasks |-> IF t \in {a1, a2} THEN A
                               ELSE IF t \in {b1, b2} THEN B ELSE C]

(* a1 and b2 only write, c only reads; a2 and b1 do both, nested as they    *)
(* like.                                                                    *)
MCModes == [t \in MCTasks |-> IF t \in {a1, b2} THEN {"w"}
                              ELSE IF t = c THEN {"r"} ELSE {"r", "w"}]
=============================================================================
