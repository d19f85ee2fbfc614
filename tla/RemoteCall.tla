----------------------------- MODULE RemoteCall -----------------------------
(***************************************************************************)
(* What the remote queue promises a task whose domain is not one local      *)
(* container: the task runs once at each of its targets, and it returns at  *)
(* most once and only after all of them have run it.                        *)
(***************************************************************************)
CONSTANTS Tasks, Targets

VARIABLES called, ran, returned

vars == <<called, ran, returned>>

Init == called = {} /\ ran = {} /\ returned = {}

Call(t) ==
    /\ t \notin called
    /\ called' = called \cup {t}
    /\ UNCHANGED <<ran, returned>>

Run(t, n) ==
    /\ t \in called
    /\ <<t, n>> \notin ran
    /\ ran' = ran \cup {<<t, n>>}
    /\ UNCHANGED <<called, returned>>

Return(t) ==
    /\ t \in called \ returned
    /\ \A n \in Targets[t] : <<t, n>> \in ran
    /\ returned' = returned \cup {t}
    /\ UNCHANGED <<called, ran>>

Next == \E t \in Tasks : Call(t) \/ Return(t) \/ \E n \in Targets[t] : Run(t, n)

Spec == Init /\ [][Next]_vars
=============================================================================
