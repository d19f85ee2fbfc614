------------------------------ MODULE CoMutex ------------------------------
(***************************************************************************)
(* The coroutine mutex of comutex.h / comutex.cc.  Ownership belongs to a  *)
(* task tree: every task whose task_node_.root_ equals root_ may enter, and *)
(* rep_ counts the entries.  A task of another tree adds one to its own     *)
(* block_count_, leaves itself in blocked_map_ and yields; the Unlock that  *)
(* brings rep_ to zero hands the mutex to the tree at the head of order_    *)
(* and signals all its blocked tasks.                                       *)
(*                                                                          *)
(* Every method runs under the spin mutex mux_, so it is one step, except   *)
(* that Lock releases mux_ before it yields: an Unlock on another worker    *)
(* may signal the task while it is still running.                           *)
(***************************************************************************)
EXTENDS Integers, Sequences, FiniteSets

CONSTANTS
    Tasks,      \* tasks that use the mutex
    Roots,      \* the task trees
    RootOf,     \* task_node_.root_ of each task
    NoRoot,     \* TaskId::GetNull()
    MaxLocks    \* bound: entries of one task at a time

ASSUME MutexAssumption ==
    /\ IsFiniteSet(Tasks)
    /\ RootOf \in [Tasks -> Roots]
    /\ NoRoot \notin Roots
    /\ MaxLocks \in Nat

VARIABLES
    root_,        \* the tree that owns the mutex
    rep_,         \* number of entries of that tree
    order_,       \* trees that wait, first come first
    blocked_map_, \* per tree the tasks that wait; {} when the key is absent
    block_count_, \* rctx_.block_count_ of each task
    co,           \* each task's coroutine: "run", "yielding" or "parked"
    ready,        \* tasks that SignalUnblock has pushed back to their lane
    calls,        \* per task: entries it has or waits for
    scopes        \* entries a task has returned from Lock with and still holds

mutex == <<root_, rep_, order_, blocked_map_>>
tasks == <<block_count_, co, ready, calls, scopes>>
vars == <<mutex, tasks>>

Init ==
    /\ root_ = NoRoot
    /\ rep_ = 0
    /\ order_ = <<>>
    /\ blocked_map_ = [r \in Roots |-> {}]
    /\ block_count_ = [t \in Tasks |-> 0]
    /\ co = [t \in Tasks |-> "run"]
    /\ ready = {}
    /\ calls = [t \in Tasks |-> 0]
    /\ scopes = {}
-----------------------------------------------------------------------------
(* The entry that a task's pending or most recent call stands for.          *)
Entry(t) == <<t, calls[t]>>

(* Lock and TryLock when the mutex is free or already belongs to the tree.  *)
Enter(t) ==
    /\ root_' = RootOf[t]
    /\ rep_' = rep_ + 1
    /\ scopes' = scopes \cup {<<t, calls[t] + 1>>}
    /\ UNCHANGED <<order_, blocked_map_, block_count_, co, ready>>

(* Faulty variant of Block: the tree is lined up once per task.             *)
BlockLinesUpAgain(t) ==
    /\ block_count_' = [block_count_ EXCEPT ![t] = @ + 1]
    /\ order_' = Append(order_, RootOf[t])
    /\ blocked_map_' = [blocked_map_ EXCEPT ![RootOf[t]] = @ \cup {t}]
    /\ co' = [co EXCEPT ![t] = "yielding"]
    /\ UNCHANGED <<root_, rep_, ready, scopes>>

(* Lock when another tree owns the mutex: SetBlocked(1), join the queue of  *)
(* the tree, and line the tree up if it was not waiting yet.  The count is  *)
(* the one the task's subtasks signal; CreatePool, the only caller of Lock, *)
(* takes the mutex before it spawns any, so only Unlock lowers it here.     *)
Block(t) ==
    /\ block_count_' = [block_count_ EXCEPT ![t] = @ + 1]
    /\ order_' = IF blocked_map_[RootOf[t]] = {} THEN Append(order_, RootOf[t])
                 ELSE order_
    /\ blocked_map_' = [blocked_map_ EXCEPT ![RootOf[t]] = @ \cup {t}]
    /\ co' = [co EXCEPT ![t] = "yielding"]
    /\ UNCHANGED <<root_, rep_, ready, scopes>>

BeginCall(t) ==
    /\ co[t] = "run"
    /\ calls[t] < MaxLocks
    /\ calls' = [calls EXCEPT ![t] = @ + 1]

CanEnter(t) == rep_ = 0 \/ root_ = RootOf[t]

Lock(t) ==
    /\ BeginCall(t)
    /\ \/ CanEnter(t) /\ Enter(t)
       \/ ~CanEnter(t) /\ Block(t)

(* Faulty variant of TryLock: it does not test the owner.                   *)
TryLockUnchecked(t) == BeginCall(t) /\ Enter(t)

(* TryLock tests root_ where Lock tests rep_.  A refusal changes nothing,   *)
(* so only the successful call is a step.                                   *)
TryLock(t) ==
    /\ BeginCall(t)
    /\ root_ = NoRoot \/ root_ = RootOf[t]
    /\ Enter(t)

(* The coroutine reaches Yield; RunTask sees IsBlocked, clears the flags    *)
(* and drops the task from its lane.                                        *)
Yield(t) ==
    /\ co[t] = "yielding"
    /\ co' = [co EXCEPT ![t] = "parked"]
    /\ UNCHANGED <<mutex, block_count_, ready, calls, scopes>>

(* SignalUnblock on each task of W: the count drops, and a task whose count *)
(* reaches zero is pushed to its lane (or its owner's fail queue).          *)
SignalUnblock(W) ==
    /\ block_count_' = [t \in Tasks |-> IF t \in W THEN block_count_[t] - 1
                                        ELSE block_count_[t]]
    /\ ready' = ready \cup {t \in W : block_count_[t] = 1}

(* --rep_ is not zero: the tree has other entries.                          *)
Leave ==
    /\ rep_ # 1
    /\ rep_' = rep_ - 1
    /\ UNCHANGED <<root_, order_, blocked_map_, block_count_, ready>>

(* The last entry, nobody waits.                                            *)
Release ==
    /\ rep_ = 1
    /\ order_ = <<>>
    /\ rep_' = 0
    /\ root_' = NoRoot
    /\ UNCHANGED <<order_, blocked_map_, block_count_, ready>>

(* Variants of HandOver with the guard, the new count and the tasks that    *)
(* are signalled as parameters.                                             *)
HandOverWith(guard, count, W) ==
    /\ guard
    /\ order_ # <<>>
    /\ root_' = Head(order_)
    /\ rep_' = count
    /\ SignalUnblock(W)
    /\ blocked_map_' = [blocked_map_ EXCEPT ![Head(order_)] = {}]
    /\ order_' = Tail(order_)

(* Faulty: the mutex passes on although the tree has other entries.         *)
HandOverEarly ==
    LET W == blocked_map_[Head(order_)] IN HandOverWith(rep_ >= 1, Cardinality(W), W)

(* Faulty: only one entry is counted for all the tasks of the tree.         *)
HandOverCountsOne ==
    LET W == blocked_map_[Head(order_)] IN HandOverWith(rep_ = 1, 1, W)

(* Faulty: only one task of the tree is signalled.                          *)
HandOverSignalsOne ==
    LET W == blocked_map_[Head(order_)]
    IN HandOverWith(rep_ = 1, 1, {CHOOSE t \in W : TRUE})

(* The last entry, and the tree at the head of order_ gets the mutex with   *)
(* one entry for each of its blocked tasks.                                 *)
HandOver ==
    /\ rep_ = 1
    /\ order_ # <<>>
    /\ LET next == Head(order_) IN
        /\ root_' = next
        /\ rep_' = Cardinality(blocked_map_[next])
        /\ SignalUnblock(blocked_map_[next])
        /\ blocked_map_' = [blocked_map_ EXCEPT ![next] = {}]
    /\ order_' = Tail(order_)

(* The task leaves the entry it made last.  Unlock does not say which, so    *)
(* any other of its entries would do as well.                               *)
Unlock(t) ==
    /\ co[t] = "run"
    /\ Entry(t) \in scopes
    /\ scopes' = scopes \ {Entry(t)}
    /\ calls' = [calls EXCEPT ![t] = @ - 1]
    /\ Leave \/ Release \/ HandOver
    /\ UNCHANGED co

(* The worker pops the task again; RunTask resumes it unless IsBlocked, and *)
(* Lock returns.                                                            *)
Resume(t) ==
    /\ co[t] = "parked"
    /\ t \in ready
    /\ block_count_[t] <= 0
    /\ co' = [co EXCEPT ![t] = "run"]
    /\ ready' = ready \ {t}
    /\ scopes' = scopes \cup {Entry(t)}
    /\ UNCHANGED <<mutex, block_count_, calls>>

TaskStep(t) ==
    \/ Lock(t)
    \/ TryLock(t)
    \/ Yield(t)
    \/ Resume(t)
    \/ Unlock(t)

Next == \E t \in Tasks : TaskStep(t)

Spec == Init /\ [][Next]_vars

(* A worker keeps polling its lanes, and a ScopedCoMutex is left when the   *)
(* method returns: a yield, a resume and an unlock are not postponed for    *)
(* ever.  Asking for the mutex is never forced.                             *)
Fairness ==
    \A t \in Tasks :
        /\ WF_vars(Yield(t))
        /\ WF_vars(Resume(t))
        /\ WF_vars(Unlock(t))

FairSpec == Spec /\ Fairness
-----------------------------------------------------------------------------
(* Tasks that have been handed the mutex and have not returned from Lock.   *)
Granted == {t \in Tasks : co[t] # "run" /\ block_count_[t] = 0}

(* Tasks that called Lock and still wait for a hand-over.                   *)
Waiting == {t \in Tasks : co[t] # "run" /\ block_count_[t] > 0}

(* Every entry that rep_ counts.                                            *)
Entries == scopes \cup {Entry(t) : t \in Granted}

TypeOK ==
    /\ root_ \in Roots \cup {NoRoot}
    /\ rep_ \in Nat
    /\ order_ \in Seq(Roots)
    /\ blocked_map_ \in [Roots -> SUBSET Tasks]
    /\ block_count_ \in [Tasks -> Int]
    /\ co \in [Tasks -> {"run", "yielding", "parked"}]
    /\ ready \in SUBSET Tasks
    /\ calls \in [Tasks -> 0..MaxLocks]
    /\ scopes \in SUBSET (Tasks \X (1..MaxLocks))

(* Two tasks inside the mutex belong to the same tree, whatever workers     *)
(* they run on and however Lock, TryLock and the hand-over interleave.      *)
MutualExclusion == \A e, f \in scopes : RootOf[e[1]] = RootOf[f[1]]

(* rep_ is the number of entries that will each call Unlock once: those     *)
(* inside and those handed over but not resumed yet.  A miscount leaves the *)
(* mutex locked for ever or frees it under its owner.                       *)
RepCountsEntries == rep_ = Cardinality(Entries)

(* The mutex is never free while a task waits: the Unlock that frees it     *)
(* hands it over in the same critical section of mux_.                      *)
NeverIdleWithWaiters == Waiting # {} => rep_ > 0 /\ root_ # NoRoot

(* A task that waits is filed exactly once, under its own tree, and that    *)
(* tree stands exactly once in order_: no hand-over can miss it.            *)
WaitersAreFiled ==
    /\ \A r \in Roots : blocked_map_[r] = {t \in Waiting : RootOf[t] = r}
    /\ \A r \in Roots : blocked_map_[r] # {}
                            <=> \E i \in 1..Len(order_) : order_[i] = r
    /\ \A i, j \in 1..Len(order_) : order_[i] = order_[j] => i = j

(* A task that blocked in Lock comes back with the mutex, however often the *)
(* tasks come again, unless the tasks of one other tree are inside without  *)
(* a break from some point on: order_ serves the trees in turn, but re-entry *)
(* goes before it (Lock, Unlock).                                           *)
LockReturns ==
    \A t \in Tasks :
        co[t] = "yielding" ~> \/ co[t] = "run"
                             \/ \E r \in Roots \ {RootOf[t]} : [](root_ = r)
-----------------------------------------------------------------------------
(* What the mutex promises: module GroupLock with the task tree as group.   *)
(* An entry handed over but not resumed yet counts as held.                 *)
Abstract == INSTANCE GroupLock WITH held <- Entries,
                Handles <- Tasks \X (1..MaxLocks),
                Group <- [h \in Tasks \X (1..MaxLocks) |-> RootOf[h[1]]]

(* Lock, TryLock, Unlock and the hand-over implement the abstract lock.     *)
ImplementsGroupLock == Abstract!Spec
=============================================================================
