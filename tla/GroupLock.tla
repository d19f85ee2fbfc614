----------------------------- MODULE GroupLock -----------------------------
(***************************************************************************)
(* What the coroutine locks promise their users.  A handle is one scope of *)
(* one task, and every handle belongs to a group: the handles held at one  *)
(* time are all of one group.  For CoMutex the group is the task tree; for *)
(* CoRwLock it is the task tree of a writer, or the group of all readers.  *)
(* Giving back the last handle may pass the lock to several handles of     *)
(* another group at once.                                                   *)
(***************************************************************************)
CONSTANTS Handles, Group

VARIABLE held

Init == held = {}

(* A group that owns the lock, or finds it free, takes one more handle.     *)
Acquire(h) ==
    /\ h \notin held
    /\ \A g \in held : Group[g] = Group[h]
    /\ held' = held \cup {h}

(* A handle is given back.                                                  *)
Release(h) ==
    /\ h \in held
    /\ held' = held \ {h}

(* The last handle is given back and a waiting group takes the lock.        *)
Pass(h) ==
    /\ held = {h}
    /\ held' # {}
    /\ held' \subseteq Handles \ {h}
    /\ \A g, k \in held' : Group[g] = Group[k]

Next == \E h \in Handles : Acquire(h) \/ Release(h) \/ Pass(h)

Spec == Init /\ [][Next]_held
=============================================================================
