------------------------------ MODULE MCFlush ------------------------------
(* Flush with up to two ordinary tasks, of which x may spawn y.             *)
EXTENDS Flush

CONSTANTS x, y, f1, f2, s1, s2

TwoTasks == {x, y}
XSpawnsY == [t \in Tasks |-> IF t = x THEN y ELSE Null]

(* The properties need one flush and one StopRuntime at a time: with         *)
(* TwoFlushes or TwoStops they fail.                                        *)
OneFlush == {f1}
TwoFlushes == {f1, f2}
OneStop == {s1}
TwoStops == {s1, s2}
=============================================================================
