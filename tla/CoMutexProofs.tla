--------------------------- MODULE CoMutexProofs ---------------------------
(***************************************************************************)
(* The safety of CoMutex for any finite set of tasks, any task trees and   *)
(* any number of calls, and the proof that it implements GroupLock.        *)
(***************************************************************************)
EXTENDS CoMutex, FiniteSetTheorems, TLAPS

(* Where a task stands: it runs with no pending wait, or one Lock call      *)
(* blocks it, or it has been signalled; the entry its call stands for is    *)
(* not inside yet.                                                          *)
TasksInv ==
    \A t \in Tasks :
        /\ block_count_[t] \in {0, 1}
        /\ co[t] = "run" => block_count_[t] = 0
        /\ co[t] # "run" => calls[t] >= 1 /\ Entry(t) \notin scopes
        /\ \A n \in 1..MaxLocks : <<t, n>> \in scopes => n <= calls[t]

(* Every entry belongs to the tree that owns the mutex, and a mutex without *)
(* entries has no owner and nobody in its queue.                            *)
OwnerInv ==
    /\ \A e \in Entries : RootOf[e[1]] = root_
    /\ Entries = {} <=> root_ = NoRoot
    /\ root_ = NoRoot => order_ = <<>>

IInv ==
    /\ TypeOK
    /\ TasksInv
    /\ OwnerInv
    /\ RepCountsEntries
    /\ WaitersAreFiled
-----------------------------------------------------------------------------
(* Entries are pairs of a task and a call number; there are finitely many.  *)
LEMMA EntriesFinite ==
    ASSUME TypeOK, TasksInv
    PROVE  Entries \subseteq Tasks \X (1..MaxLocks) /\ IsFiniteSet(Entries)
<1>1. \A t \in Granted : Entry(t) \in Tasks \X (1..MaxLocks)
    BY MutexAssumption DEF TypeOK, TasksInv, Granted, Entry
<1>2. Entries \subseteq Tasks \X (1..MaxLocks)
    BY <1>1, Zenon DEF Entries, TypeOK
<1>3. IsFiniteSet(1..MaxLocks)
    BY FS_Interval, MutexAssumption
<1>4. IsFiniteSet(Tasks \X (1..MaxLocks))
    BY <1>3, FS_Product, MutexAssumption, Zenon
<1> QED
    BY <1>2, <1>4, FS_Subset, Zenon

(* The pending entries of a set of tasks are as many as the tasks.          *)
LEMMA PendingCount ==
    ASSUME NEW W \in SUBSET Tasks
    PROVE  Cardinality({Entry(t) : t \in W}) = Cardinality(W)
<1> DEFINE S == {Entry(t) : t \in W}
           f == [t \in W |-> Entry(t)]
<1>1. f \in Bijection(W, S)
    <2>1. f \in [W -> S]
        BY Zenon
    <2>2. \A t, u \in W : f[t] = f[u] => t = u
        BY Zenon DEF Entry
    <2>3. \A e \in S : \E t \in W : f[t] = e
        BY Zenon
    <2> QED
        BY <2>1, <2>2, <2>3, Zenon DEF Bijection, Injection, Surjection, IsInjective
<1>2. ExistsBijection(W, S)
    BY <1>1, Zenon DEF ExistsBijection
<1>3. IsFiniteSet(W)
    BY FS_Subset, MutexAssumption, Zenon
<1> QED
    BY <1>2, <1>3, FS_Bijection, Zenon
-----------------------------------------------------------------------------
(* Lock or TryLock lets the task in.                                        *)
LEMMA EnterKeepsIInv ==
    ASSUME IInv, NEW t \in Tasks, BeginCall(t), Enter(t),
           root_ = NoRoot \/ root_ = RootOf[t]
    PROVE  /\ IInv'
           /\ <<t, calls[t] + 1>> \in (Tasks \X (1..MaxLocks)) \ Entries
           /\ Entries' = Entries \cup {<<t, calls[t] + 1>>}
<1> DEFINE e == <<t, calls[t] + 1>>
<1> USE DEF IInv
<1>1. e \in Tasks \X (1..MaxLocks)
    BY MutexAssumption DEF TypeOK, BeginCall
<1>2. TypeOK'
    <2>1. root_' \in Roots /\ rep_' \in Nat
        BY MutexAssumption DEF TypeOK, Enter
    <2>2. calls' \in [Tasks -> 0..MaxLocks]
        BY MutexAssumption DEF TypeOK, BeginCall
    <2>3. scopes' \in SUBSET (Tasks \X (1..MaxLocks))
        BY <1>1, Zenon DEF TypeOK, Enter
    <2> QED
        BY <2>1, <2>2, <2>3, Zenon DEF TypeOK, Enter
<1>3. e \notin Entries
    <2>1. e \notin scopes
        BY <1>1 DEF TasksInv, TypeOK
    <2>2. \A u \in Granted : Entry(u) # e
        BY Zenon DEF Granted, Entry, BeginCall
    <2> QED
        BY <2>1, <2>2, Zenon DEF Entries
<1>4. Entries' = Entries \cup {e}
    <2>1. Granted' = Granted /\ t \notin Granted
        BY Zenon DEF Granted, Enter, BeginCall
    <2>2. \A u \in Granted : Entry(u)' = Entry(u)
        BY <2>1, Zenon DEF Entry, BeginCall, TypeOK, Granted
    <2> QED
        BY <2>1, <2>2, Zenon DEF Entries, Enter
<1>5. TasksInv'
    <2> SUFFICES ASSUME NEW u \in Tasks
                 PROVE  /\ block_count_'[u] \in {0, 1}
                        /\ co'[u] = "run" => block_count_'[u] = 0
                        /\ co'[u] # "run" => calls'[u] >= 1 /\ <<u, calls'[u]>> \notin scopes'
                        /\ \A n \in 1..MaxLocks : <<u, n>> \in scopes' => n <= calls'[u]
        BY Zenon DEF TasksInv, Entry
    <2>1. CASE u = t
        <3>1. calls[t] \in Nat /\ calls'[t] = calls[t] + 1 /\ co'[t] = "run"
            BY DEF TypeOK, Enter, BeginCall
        <3>2. block_count_'[t] = 0
            BY Zenon DEF TasksInv, Enter, BeginCall
        <3>3. \A n \in 1..MaxLocks : <<t, n>> \in scopes => n <= calls[t]
            BY Zenon DEF TasksInv
        <3>4. \A n \in 1..MaxLocks : <<t, n>> \in scopes' => n <= calls[t] + 1
            BY <3>1, <3>3, MutexAssumption DEF Enter
        <3> QED
            BY <2>1, <3>1, <3>2, <3>4, Zenon
    <2>2. CASE u # t
        <3>1. calls'[u] = calls[u]
            BY <2>2, Zenon DEF TypeOK, BeginCall
        <3>2. \A n : <<u, n>> \in scopes' <=> <<u, n>> \in scopes
            BY <2>2, Zenon DEF Enter
        <3> QED
            BY <3>1, <3>2, Zenon DEF TasksInv, Enter, Entry
    <2> QED
        BY <2>1, <2>2, Zenon
<1>6. OwnerInv'
    BY <1>1, <1>4, MutexAssumption DEF OwnerInv, Enter, TypeOK
<1>7. RepCountsEntries'
    BY <1>3, <1>4, EntriesFinite, FS_AddElement, Zenon DEF RepCountsEntries, Enter
<1>8. WaitersAreFiled'
    BY Zenon DEF WaitersAreFiled, Waiting, Enter
<1> QED
    BY <1>1, <1>2, <1>3, <1>4, <1>5, <1>6, <1>7, <1>8, Zenon

(* Lock files the task as waiting.                                          *)
LEMMA BlockKeepsIInv ==
    ASSUME IInv, NEW t \in Tasks, BeginCall(t), Block(t), ~CanEnter(t)
    PROVE  IInv' /\ Entries' = Entries
<1> USE DEF IInv
<1> DEFINE r == RootOf[t]
<1>0. r \in Roots /\ root_ # NoRoot
    <2>1. Entries # {}
        BY FS_EmptySet, Zenon DEF CanEnter, RepCountsEntries
    <2> QED
        BY <2>1, MutexAssumption, Zenon DEF OwnerInv
<1>1. TypeOK'
    <2>1. order_' \in Seq(Roots)
        BY <1>0 DEF TypeOK, Block
    <2>2. calls' \in [Tasks -> 0..MaxLocks] /\ block_count_' \in [Tasks -> Int]
        BY MutexAssumption DEF TypeOK, Block, BeginCall
    <2>3. blocked_map_' \in [Roots -> SUBSET Tasks]
        BY <1>0, Zenon DEF TypeOK, Block
    <2> QED
        BY <2>1, <2>2, <2>3, Zenon DEF TypeOK, Block
<1>2. Entries' = Entries
    <2>1. Granted' = Granted /\ t \notin Granted
        BY DEF Granted, Block, BeginCall, TypeOK, TasksInv
    <2>2. \A u \in Granted : Entry(u)' = Entry(u)
        BY <2>1, Zenon DEF Entry, BeginCall, TypeOK, Granted
    <2> QED
        BY <2>1, <2>2, Zenon DEF Entries, Block
<1>3. TasksInv'
    BY MutexAssumption DEF TasksInv, TypeOK, Block, BeginCall, Entry
<1>4. OwnerInv'
    BY <1>0, <1>2, Zenon DEF OwnerInv, Block
<1>5. RepCountsEntries'
    BY <1>2, Zenon DEF RepCountsEntries, Block
<1>6. WaitersAreFiled'
    <2>1. Waiting' = Waiting \cup {t}
        BY DEF Waiting, Block, BeginCall, TypeOK, TasksInv
    <2>2. \A q \in Roots : blocked_map_'[q] = {u \in Waiting' : RootOf[u] = q}
        BY <2>1, <1>0 DEF WaitersAreFiled, Block, TypeOK
    <2>3. CASE blocked_map_[r] = {}
        <3>1. /\ Len(order_') = Len(order_) + 1
              /\ order_'[Len(order_) + 1] = r
              /\ \A i \in 1..Len(order_) : order_'[i] = order_[i]
            BY <2>3, <1>0 DEF Block, TypeOK
        <3>2. Len(order_) \in Nat
            BY DEF TypeOK
        <3>3. \A i \in 1..Len(order_) : order_[i] # r
            BY <2>3, <1>0, Zenon DEF WaitersAreFiled
        <3>4. \A q \in Roots : blocked_map_'[q] # {}
                                  <=> \E i \in 1..Len(order_') : order_'[i] = q
            <4> SUFFICES ASSUME NEW q \in Roots
                         PROVE  blocked_map_'[q] # {}
                                  <=> \E i \in 1..Len(order_') : order_'[i] = q
                BY Zenon
            <4>1. CASE q = r
                <5>1. t \in blocked_map_'[q]
                    BY <4>1, <1>0, Zenon DEF Block, TypeOK
                <5> QED
                    BY <5>1, <4>1, <3>1, <3>2
            <4>2. CASE q # r
                <5>1. blocked_map_'[q] = blocked_map_[q]
                    BY <4>2, <1>0, Zenon DEF Block, TypeOK
                <5>2. blocked_map_[q] # {} <=> \E i \in 1..Len(order_) : order_[i] = q
                    BY Zenon DEF WaitersAreFiled
                <5> QED
                    BY <5>1, <5>2, <4>2, <3>1, <3>2
            <4> QED
                BY <4>1, <4>2, Zenon
        <3>5. \A i, j \in 1..Len(order_') : order_'[i] = order_'[j] => i = j
            BY <3>1, <3>2, <3>3 DEF WaitersAreFiled
        <3> QED
            BY <2>2, <3>4, <3>5, Zenon DEF WaitersAreFiled
    <2>4. CASE blocked_map_[r] # {}
        BY <2>2, <2>4, <1>0, Zenon DEF WaitersAreFiled, Block, TypeOK
    <2> QED
        BY <2>3, <2>4, Zenon
<1> QED
    BY <1>1, <1>2, <1>3, <1>4, <1>5, <1>6, Zenon

(* A yield only moves the coroutine.                                        *)
LEMMA YieldKeepsIInv ==
    ASSUME IInv, NEW t \in Tasks, Yield(t)
    PROVE  IInv' /\ Entries' = Entries
<1> USE DEF IInv
<1>1. TypeOK'
    BY Zenon DEF TypeOK, Yield, mutex
<1>2. \A u \in Tasks : co'[u] = "run" <=> co[u] = "run"
    BY Zenon DEF Yield, TypeOK
<1>3. Granted' = Granted /\ Waiting' = Waiting
    BY <1>2, Zenon DEF Granted, Waiting, Yield
<1>4. Entries' = Entries
    BY <1>3, Zenon DEF Entries, Entry, Yield
<1>5. TasksInv'
    BY <1>2, Zenon DEF TasksInv, Entry, Yield
<1>6. OwnerInv' /\ RepCountsEntries' /\ WaitersAreFiled'
    BY <1>3, <1>4 DEF OwnerInv, RepCountsEntries, WaitersAreFiled, Yield, mutex
<1> QED
    BY <1>1, <1>4, <1>5, <1>6, Zenon

(* A signalled task returns from Lock: its granted entry becomes a scope.   *)
LEMMA ResumeKeepsIInv ==
    ASSUME IInv, NEW t \in Tasks, Resume(t)
    PROVE  IInv' /\ Entries' = Entries
<1> USE DEF IInv
<1>1. block_count_[t] = 0 /\ t \in Granted
    BY DEF Resume, TasksInv, Granted
<1>2. Entry(t) \in Tasks \X (1..MaxLocks)
    BY <1>1, EntriesFinite, Zenon DEF Entries
<1>3. TypeOK'
    BY <1>2, Zenon DEF TypeOK, Resume, mutex
<1>4. \A u \in Tasks : co'[u] = IF u = t THEN "run" ELSE co[u]
    BY Zenon DEF Resume, TypeOK
<1>5. Granted' = Granted \ {t} /\ Waiting' = Waiting
    BY <1>1, <1>4 DEF Granted, Waiting, Resume, TypeOK
<1>6. Entries' = Entries
    BY <1>1, <1>5, Zenon DEF Entries, Entry, Resume
<1>7. TasksInv'
    <2> SUFFICES ASSUME NEW u \in Tasks
                 PROVE  /\ block_count_'[u] \in {0, 1}
                        /\ co'[u] = "run" => block_count_'[u] = 0
                        /\ co'[u] # "run" => calls'[u] >= 1 /\ <<u, calls'[u]>> \notin scopes'
                        /\ \A n \in 1..MaxLocks : <<u, n>> \in scopes' => n <= calls'[u]
        BY Zenon DEF TasksInv, Entry
    <2>1. CASE u = t
        <3>1. \A n \in 1..MaxLocks : <<t, n>> \in scopes => n <= calls[t]
            BY Zenon DEF TasksInv
        <3>2. \A n \in 1..MaxLocks : <<t, n>> \in scopes' => n <= calls[t]
            BY <3>1, MutexAssumption DEF Resume, Entry, TypeOK
        <3> QED
            BY <2>1, <1>1, <1>4, <3>2, Zenon DEF Resume
    <2>2. CASE u # t
        <3>1. \A n : <<u, n>> \in scopes' <=> <<u, n>> \in scopes
            BY <2>2, Zenon DEF Resume, Entry
        <3> QED
            BY <2>2, <1>4, <3>1, Zenon DEF TasksInv, Resume, Entry
    <2> QED
        BY <2>1, <2>2, Zenon
<1>8. OwnerInv' /\ RepCountsEntries' /\ WaitersAreFiled'
    BY <1>5, <1>6 DEF OwnerInv, RepCountsEntries, WaitersAreFiled, Resume, mutex
<1> QED
    BY <1>3, <1>6, <1>7, <1>8

(* What every Unlock does to the scopes, before the mutex itself changes.   *)
LEMMA UnlockedEntry ==
    ASSUME IInv, NEW t \in Tasks, Unlock(t)
    PROVE  /\ Entry(t) \in Entries /\ Entry(t) \in Tasks \X (1..MaxLocks)
           /\ Entries \ {Entry(t)} = scopes' \cup {Entry(u) : u \in Granted}
           /\ rep_ = 1 => Entries = {Entry(t)}
<1>1. t \notin Granted /\ Entry(t) \in scopes /\ scopes' = scopes \ {Entry(t)}
    BY Zenon DEF Granted, Unlock
<1>2. \A u \in Granted : Entry(u) # Entry(t)
    BY <1>1, Zenon DEF Entry
<1>3. Entry(t) \in Entries /\ Entry(t) \in Tasks \X (1..MaxLocks)
    BY <1>1, Zenon DEF Entries, IInv, TypeOK
<1>4. Entries \ {Entry(t)} = scopes' \cup {Entry(u) : u \in Granted}
    BY <1>1, <1>2, Zenon DEF Entries
<1>5. ASSUME rep_ = 1 PROVE Entries = {Entry(t)}
    <2>1. IsFiniteSet(Entries) /\ Cardinality(Entries) = 1
        BY <1>5, EntriesFinite, Zenon DEF IInv, RepCountsEntries
    <2>2. PICK x : Entries = {x}
        BY <2>1, FS_Singleton, Zenon
    <2> QED
        BY <2>2, <1>3, Zenon
<1> QED
    BY <1>3, <1>4, <1>5, Zenon

(* What every Unlock does to the tasks: its own has one entry less, and the *)
(* entries of the others keep their numbers.                                *)
LEMMA UnlockedTask ==
    ASSUME IInv, NEW t \in Tasks, Unlock(t),
           \A u \in Tasks : /\ block_count_'[u] \in {0, 1}
                            /\ co[u] = "run" => block_count_'[u] = 0
    PROVE  /\ calls' \in [Tasks -> 0..MaxLocks]
           /\ \A u \in Tasks \ {t} : calls'[u] = calls[u]
           /\ TasksInv'
<1> USE DEF IInv
<1>1. /\ scopes' = scopes \ {<<t, calls[t]>>} /\ co' = co
      /\ calls' = [calls EXCEPT ![t] = @ - 1] /\ co[t] = "run"
    BY Zenon DEF Unlock, Entry
<1>2. calls[t] \in 1..MaxLocks /\ MaxLocks \in Nat
    BY UnlockedEntry, MutexAssumption, Zenon DEF Entry
<1>3. calls' \in [Tasks -> 0..MaxLocks] /\ calls'[t] = calls[t] - 1
    BY <1>1, <1>2 DEF TypeOK
<1>4. \A u \in Tasks \ {t} : calls'[u] = calls[u]
    BY <1>1, Zenon DEF TypeOK
<1>5. ASSUME NEW n \in 1..MaxLocks, <<t, n>> \in scopes'
      PROVE  n <= calls'[t]
    <2>1. n <= calls[t]
        BY <1>1, <1>5, Zenon DEF TasksInv
    <2>2. n # calls[t]
        BY <1>1, <1>5, Zenon
    <2> QED
        BY <1>2, <1>3, <2>1, <2>2
<1>6. \A u \in Tasks \ {t} : \A n : <<u, n>> \in scopes' <=> <<u, n>> \in scopes
    BY <1>1, Zenon
<1>7. TasksInv'
    <2> SUFFICES ASSUME NEW u \in Tasks
                 PROVE  /\ block_count_'[u] \in {0, 1}
                        /\ co'[u] = "run" => block_count_'[u] = 0
                        /\ co'[u] # "run" => calls'[u] >= 1 /\ <<u, calls'[u]>> \notin scopes'
                        /\ \A n \in 1..MaxLocks : <<u, n>> \in scopes' => n <= calls'[u]
        BY Zenon DEF TasksInv, Entry
    <2>1. CASE u = t
        BY <1>1, <1>5, <2>1, Zenon
    <2>2. CASE u # t
        BY <1>1, <1>4, <1>6, <2>2, Zenon DEF TasksInv, Entry
    <2> QED
        BY <2>1, <2>2, Zenon
<1> QED
    BY <1>3, <1>4, <1>7, Zenon

(* An Unlock that leaves the mutex with its tree, or frees it.              *)
LEMMA LeaveOrReleaseKeepsIInv ==
    ASSUME IInv, NEW t \in Tasks, Unlock(t), Leave \/ Release
    PROVE  IInv' /\ Entries' = Entries \ {Entry(t)}
<1> USE DEF IInv
<1> DEFINE e == Entry(t)
<1>1. /\ co[t] = "run" /\ e \in scopes /\ scopes' = scopes \ {e}
      /\ UNCHANGED <<co, order_, blocked_map_, block_count_, ready>>
    BY Zenon DEF Unlock, Leave, Release
<1>2. Granted' = Granted /\ Waiting' = Waiting
    BY <1>1, Zenon DEF Granted, Waiting
<1>0. calls' \in [Tasks -> 0..MaxLocks] /\ TasksInv' /\ \A u \in Tasks \ {t} : calls'[u] = calls[u]
    BY <1>1, UnlockedTask, Zenon DEF TasksInv
<1>3. Entries' = Entries \ {e}
    <2>1. \A u \in Granted : <<u, calls'[u]>> = Entry(u)
        BY <1>0, <1>1, Zenon DEF Granted, Entry
    <2>2. Entries' = scopes' \cup {Entry(u) : u \in Granted}
        BY <1>2, <2>1, Zenon DEF Entries, Entry
    <2> QED
        BY <2>2, UnlockedEntry, Zenon
<1>4. IsFiniteSet(Entries) /\ Cardinality(Entries) = rep_ /\ e \in Entries
    BY <1>1, EntriesFinite, UnlockedEntry, Zenon DEF RepCountsEntries
<1>5. Cardinality(Entries') = rep_ - 1
    BY <1>3, <1>4, FS_RemoveElement, Zenon
<1>6. IsFiniteSet(Entries') /\ Cardinality(Entries') \in Nat
    BY <1>3, <1>4, FS_RemoveElement, FS_CardinalityType, Zenon
<1>7. rep_' = rep_ - 1 /\ RepCountsEntries'
    BY <1>5 DEF RepCountsEntries, Leave, Release
<1>8. root_' \in Roots \cup {NoRoot}
    BY Zenon DEF Leave, Release, TypeOK
<1>9. TypeOK'
    BY <1>0, <1>1, <1>5, <1>6, <1>7, <1>8, Zenon DEF TypeOK
<1>11. WaitersAreFiled'
    BY <1>1, <1>2, Zenon DEF WaitersAreFiled
<1>12. OwnerInv'
    <2>1. CASE Leave
        <3>1. rep_ # 1 /\ root_' = root_
            BY <2>1, Zenon DEF Leave
        <3>2. Entries' # {}
            <4>1. rep_ - 1 # 0
                BY <3>1 DEF TypeOK
            <4> QED
                BY <4>1, <1>5, FS_EmptySet, Zenon
        <3> QED
            BY <3>1, <3>2, <1>1, <1>3, <1>4, Zenon DEF OwnerInv
    <2>2. CASE Release
        <3>1. Entries' = {} /\ root_' = NoRoot /\ order_' = <<>>
            BY <2>2, <1>1, <1>3, UnlockedEntry, Zenon DEF Release
        <3> QED
            BY <3>1, Zenon DEF OwnerInv
    <2> QED
        BY <2>1, <2>2, Zenon
<1> QED
    BY <1>0, <1>3, <1>7, <1>9, <1>11, <1>12, Zenon

(* An Unlock that hands the mutex to the tree at the head of the queue.     *)
LEMMA HandOverKeepsIInv ==
    ASSUME IInv, NEW t \in Tasks, Unlock(t), HandOver
    PROVE  /\ IInv'
           /\ Entries = {Entry(t)}
           /\ Entries' # {} /\ Entry(t) \notin Entries'
<1> USE DEF IInv
<1> DEFINE e == Entry(t)
           next == Head(order_)
           W == blocked_map_[next]
<1>1. /\ co[t] = "run" /\ e \in scopes /\ scopes' = scopes \ {e}
      /\ co' = co /\ rep_ = 1 /\ order_ # <<>>
      /\ order_' = Tail(order_) /\ root_' = next /\ rep_' = Cardinality(W)
      /\ blocked_map_' = [blocked_map_ EXCEPT ![next] = {}]
      /\ SignalUnblock(W)
    BY Zenon DEF Unlock, HandOver
<1>2. Entries = {e} /\ scopes' = {} /\ Granted = {}
    <2>1. Entries = {e} /\ scopes' \cup {Entry(u) : u \in Granted} = {}
        BY <1>1, UnlockedEntry, Zenon
    <2> QED
        BY <2>1, Zenon
<1>3. next \in Roots /\ Len(order_) \in Nat /\ Len(order_) >= 1 /\ next = order_[1]
    BY <1>1 DEF TypeOK
<1>4. W = {u \in Waiting : RootOf[u] = next} /\ W # {} /\ W \in SUBSET Tasks
    BY <1>3 DEF WaitersAreFiled, Waiting
<1>5. block_count_' = [u \in Tasks |-> IF u \in W THEN 0 ELSE block_count_[u]]
    <2>1. \A u \in W : block_count_[u] = 1
        BY <1>4 DEF Waiting, TasksInv
    <2> QED
        BY <1>1, <1>4, <2>1 DEF SignalUnblock
<1>6. Granted' = W
    BY <1>1, <1>2, <1>4, <1>5, Zenon DEF Granted, Waiting, TypeOK
<1>7. Waiting' = Waiting \ W
    BY <1>1, <1>4, <1>5 DEF Waiting, TypeOK
<1>15. calls' \in [Tasks -> 0..MaxLocks] /\ TasksInv' /\ \A u \in Tasks \ {t} : calls'[u] = calls[u]
    <2>1. \A u \in Tasks : block_count_'[u] \in {0, 1} /\ (co[u] = "run" => block_count_'[u] = 0)
        BY <1>5, Zenon DEF TasksInv
    <2> QED
        BY <2>1, UnlockedTask, Zenon
<1>16. t \notin W
    BY <1>1, <1>4, Zenon DEF Waiting
<1>8. Entries' = {Entry(u) : u \in W}
    <2>1. \A u \in W : <<u, calls'[u]>> = Entry(u)
        BY <1>4, <1>15, <1>16, Zenon DEF Entry
    <2> QED
        BY <1>2, <1>6, <2>1, Zenon DEF Entries, Entry
<1>9. RepCountsEntries'
    BY <1>1, <1>4, <1>8, PendingCount, Zenon DEF RepCountsEntries
<1>10. TypeOK'
    <2>1. rep_' \in Nat
        BY <1>1, <1>4, FS_Subset, FS_CardinalityType, MutexAssumption, Zenon
    <2>2. order_' \in Seq(Roots)
        BY <1>1 DEF TypeOK
    <2>3. blocked_map_' \in [Roots -> SUBSET Tasks]
        BY <1>1, Zenon DEF TypeOK
    <2>4. block_count_' \in [Tasks -> Int] /\ ready' \in SUBSET Tasks
        BY <1>1, <1>4, <1>5 DEF TypeOK, SignalUnblock
    <2> QED
        BY <1>1, <1>2, <1>3, <1>15, <2>1, <2>2, <2>3, <2>4, Zenon DEF TypeOK
<1>12. OwnerInv'
    <2>1. \A x \in Entries' : RootOf[x[1]] = next
        BY <1>4, <1>8 DEF Entry
    <2>2. Entries' # {} /\ next # NoRoot
        BY <1>3, <1>4, <1>8, MutexAssumption
    <2> QED
        BY <1>1, <2>1, <2>2, Zenon DEF OwnerInv
<1>13. WaitersAreFiled'
    <2>1. /\ Len(order_') = Len(order_) - 1
          /\ \A i \in 1..Len(order_') : order_'[i] = order_[i + 1]
        BY <1>1, <1>3 DEF TypeOK
    <2>2. \A r \in Roots : blocked_map_'[r] = {u \in Waiting' : RootOf[u] = r}
        BY <1>1, <1>3, <1>4, <1>7 DEF WaitersAreFiled, TypeOK
    <2>3. \A i, j \in 1..Len(order_) : order_[i] = order_[j] => i = j
        BY Zenon DEF WaitersAreFiled
    <2>4. \A i, j \in 1..Len(order_') : order_'[i] = order_'[j] => i = j
        BY <1>3, <2>1, <2>3
    <2>5. ASSUME NEW r \in Roots
          PROVE  blocked_map_'[r] # {} <=> \E i \in 1..Len(order_') : order_'[i] = r
        <3>1. CASE r = next
            <4>1. blocked_map_'[r] = {}
                BY <3>1, <1>1, <1>3, Zenon DEF TypeOK
            <4>2. \A i \in 1..Len(order_') : order_'[i] # r
                BY <3>1, <1>3, <2>1, <2>3
            <4> QED
                BY <4>1, <4>2, Zenon
        <3>2. CASE r # next
            <4>1. blocked_map_'[r] = blocked_map_[r]
                BY <3>2, <1>1, <1>3, Zenon DEF TypeOK
            <4>2. blocked_map_[r] # {} <=> \E i \in 1..Len(order_) : order_[i] = r
                BY Zenon DEF WaitersAreFiled
            <4>3. \A i \in 1..Len(order_) : order_[i] = r => i - 1 \in 1..Len(order_')
                                                /\ order_'[i - 1] = order_[i]
                BY <3>2, <1>3, <2>1
            <4>4. \A i \in 1..Len(order_') : i + 1 \in 1..Len(order_)
                BY <1>3, <2>1
            <4> QED
                BY <4>1, <4>2, <4>3, <4>4, <2>1
        <3> QED
            BY <3>1, <3>2, Zenon
    <2> QED
        BY <2>2, <2>4, <2>5, Zenon DEF WaitersAreFiled
<1>14. Entries' # {} /\ e \notin Entries'
    <2>1. \A u \in W : Entry(u) # e
        BY <1>16, Zenon DEF Entry
    <2> HIDE DEF e, W
    <2> QED
        BY <1>4, <1>8, <2>1
<1> QED
    BY <1>2, <1>9, <1>10, <1>12, <1>13, <1>14, <1>15, Zenon
-----------------------------------------------------------------------------
(* A mutex as its constructor leaves it satisfies the invariant.            *)
LEMMA InitIInv == Init => IInv
<1> SUFFICES ASSUME Init PROVE IInv
    BY Zenon
<1>1. TypeOK
    BY MutexAssumption DEF Init, TypeOK
<1>2. TasksInv
    BY Zenon DEF Init, TasksInv
<1>3. Granted = {} /\ Waiting = {}
    BY Zenon DEF Init, Granted, Waiting
<1>4. Entries = {}
    BY <1>3, Zenon DEF Init, Entries
<1>5. OwnerInv /\ RepCountsEntries
    BY <1>4, FS_EmptySet, Zenon DEF Init, OwnerInv, RepCountsEntries
<1>6. WaitersAreFiled
    BY <1>3 DEF Init, WaitersAreFiled
<1> QED
    BY <1>1, <1>2, <1>5, <1>6, Zenon DEF IInv

(* A free mutex has no owner, so Lock and TryLock let the same tasks in.    *)
LEMMA CanEnterOwner ==
    ASSUME IInv, NEW t \in Tasks, CanEnter(t)
    PROVE  root_ = NoRoot \/ root_ = RootOf[t]
BY EntriesFinite, FS_EmptySet, Zenon DEF IInv, OwnerInv, RepCountsEntries, CanEnter

(* Every step keeps the invariant and is a step of the abstract lock.       *)
LEMMA StepKeepsIInv ==
    ASSUME IInv, [Next]_vars
    PROVE  IInv' /\ [Abstract!Next]_Entries
<1> DEFINE Handles == Tasks \X (1..MaxLocks)
           Group == [h \in Handles |-> RootOf[h[1]]]
<1>0. \A g \in Entries : g \in Handles /\ Group[g] = root_
    BY EntriesFinite, Zenon DEF IInv, OwnerInv
<1>1. ASSUME NEW t \in Tasks, BeginCall(t), Enter(t), root_ = NoRoot \/ root_ = RootOf[t]
      PROVE  IInv' /\ [Abstract!Next]_Entries
    <2> DEFINE e == <<t, calls[t] + 1>>
    <2>1. IInv' /\ e \in Handles \ Entries /\ Entries' = Entries \cup {e}
        BY <1>1, EnterKeepsIInv, Zenon
    <2>2. \A g \in Entries : Group[g] = Group[e]
        BY <1>0, <1>1, <2>1, Zenon DEF IInv, OwnerInv
    <2>3. Abstract!Acquire(e)
        BY <2>1, <2>2, Zenon DEF Abstract!Acquire
    <2> QED
        BY <2>1, <2>3, Zenon DEF Abstract!Next
<1>2. ASSUME NEW t \in Tasks, Lock(t)
      PROVE  IInv' /\ [Abstract!Next]_Entries
    <2>1. CASE CanEnter(t) /\ Enter(t)
        BY <1>1, <1>2, <2>1, CanEnterOwner, Zenon DEF Lock
    <2>2. CASE ~CanEnter(t) /\ Block(t)
        BY <1>2, <2>2, BlockKeepsIInv, Zenon DEF Lock
    <2> QED
        BY <1>2, <2>1, <2>2, Zenon DEF Lock
<1>3. ASSUME NEW t \in Tasks, TryLock(t)
      PROVE  IInv' /\ [Abstract!Next]_Entries
    BY <1>1, <1>3, Zenon DEF TryLock
<1>4. ASSUME NEW t \in Tasks, Yield(t) \/ Resume(t)
      PROVE  IInv' /\ [Abstract!Next]_Entries
    BY <1>4, YieldKeepsIInv, ResumeKeepsIInv, Zenon
<1>5. ASSUME NEW t \in Tasks, Unlock(t)
      PROVE  IInv' /\ [Abstract!Next]_Entries
    <2> DEFINE e == Entry(t)
    <2>1. e \in Handles /\ e \in Entries
        BY <1>5, UnlockedEntry, Zenon
    <2>2. CASE Leave \/ Release
        <3>1. IInv' /\ Entries' = Entries \ {e}
            BY <1>5, <2>2, LeaveOrReleaseKeepsIInv, Zenon
        <3>2. Abstract!Release(e)
            BY <2>1, <3>1, Zenon DEF Abstract!Release
        <3> QED
            BY <2>1, <3>1, <3>2, Zenon DEF Abstract!Next
    <2>3. CASE HandOver
        <3>1. IInv' /\ Entries = {e} /\ Entries' # {} /\ e \notin Entries'
            BY <1>5, <2>3, HandOverKeepsIInv, Zenon
        <3>2. (Entries \subseteq Handles)'
            BY <3>1, EntriesFinite, PTL DEF IInv
        <3>3. \A g \in Entries' : Group[g] = root_'
            BY <3>1, <3>2, Zenon DEF IInv, OwnerInv
        <3>4. Abstract!Pass(e)
            BY <3>1, <3>2, <3>3, Zenon DEF Abstract!Pass
        <3> QED
            BY <2>1, <3>1, <3>4, Zenon DEF Abstract!Next
    <2> QED
        BY <1>5, <2>2, <2>3, Zenon DEF Unlock
<1>6. ASSUME UNCHANGED vars
      PROVE  IInv' /\ [Abstract!Next]_Entries
    <2>1. Granted' = Granted /\ Waiting' = Waiting
        BY <1>6, Zenon DEF vars, tasks, Granted, Waiting
    <2>2. Entries' = Entries
        BY <1>6, <2>1, Zenon DEF vars, tasks, Entries, Entry
    <2>3. TypeOK'
        BY <1>6, Zenon DEF vars, mutex, tasks, IInv, TypeOK
    <2>4. TasksInv'
        BY <1>6, Zenon DEF vars, tasks, IInv, TasksInv, Entry
    <2>5. OwnerInv' /\ RepCountsEntries'
        BY <1>6, <2>2, Zenon DEF vars, mutex, IInv, OwnerInv, RepCountsEntries
    <2>6. WaitersAreFiled'
        BY <1>6, <2>1, Zenon DEF vars, mutex, IInv, WaitersAreFiled
    <2> QED
        BY <2>2, <2>3, <2>4, <2>5, <2>6, Zenon DEF IInv
<1> QED
    BY <1>2, <1>3, <1>4, <1>5, <1>6, Zenon DEF Next, TaskStep

(* The inductive invariant holds in every reachable state.                  *)
THEOREM AlwaysIInv == Spec => []IInv
<1>1. IInv /\ [Next]_vars => IInv'
    BY StepKeepsIInv, Zenon
<1> QED
    BY <1>1, InitIInv, PTL DEF Spec

(* The state of the mutex and of its users is well typed; in particular     *)
(* rep_ never goes below zero.                                              *)
THEOREM TypeCorrect == Spec => []TypeOK
<1>1. IInv => TypeOK
    BY Zenon DEF IInv
<1> QED
    BY <1>1, AlwaysIInv, PTL

(* Tasks inside the mutex always belong to one tree.                        *)
THEOREM Exclusion == Spec => []MutualExclusion
<1>1. IInv => MutualExclusion
    BY Zenon DEF IInv, OwnerInv, MutualExclusion, Entries
<1> QED
    BY <1>1, AlwaysIInv, PTL

(* rep_ always counts the entries that will each call Unlock once.          *)
THEOREM CountIsExact == Spec => []RepCountsEntries
<1>1. IInv => RepCountsEntries
    BY Zenon DEF IInv
<1> QED
    BY <1>1, AlwaysIInv, PTL

(* Every waiting task is filed once, under its own tree, in a queue without *)
(* duplicates.                                                              *)
THEOREM WaitersFiled == Spec => []WaitersAreFiled
<1>1. IInv => WaitersAreFiled
    BY Zenon DEF IInv
<1> QED
    BY <1>1, AlwaysIInv, PTL

(* The mutex is never free while a task waits for it.                       *)
THEOREM NeverIdle == Spec => []NeverIdleWithWaiters
<1>1. ASSUME IInv, NEW t \in Waiting
      PROVE  rep_ > 0 /\ root_ # NoRoot
    <2>1. RootOf[t] \in Roots /\ t \in blocked_map_[RootOf[t]]
        BY <1>1, MutexAssumption DEF IInv, WaitersAreFiled, Waiting
    <2>2. order_ # <<>>
        BY <1>1, <2>1 DEF IInv, WaitersAreFiled
    <2>3. root_ # NoRoot /\ Entries # {}
        BY <1>1, <2>2, Zenon DEF IInv, OwnerInv
    <2>4. rep_ # 0
        BY <1>1, <2>3, EntriesFinite, FS_EmptySet, Zenon DEF IInv, RepCountsEntries
    <2> QED
        BY <1>1, <2>3, <2>4 DEF IInv, TypeOK
<1>2. IInv => NeverIdleWithWaiters
    BY <1>1, Zenon DEF NeverIdleWithWaiters
<1> QED
    BY <1>2, AlwaysIInv, PTL

(* CoMutex implements the abstract lock of module GroupLock.                *)
THEOREM Refinement == Spec => ImplementsGroupLock
<1>1. Init => Abstract!Init
    <2> SUFFICES ASSUME Init PROVE Entries = {}
        BY Zenon DEF Abstract!Init
    <2>1. Granted = {} /\ scopes = {}
        BY Zenon DEF Init, Granted
    <2> QED
        BY <2>1, Zenon DEF Entries
<1>2. IInv /\ [Next]_vars => [Abstract!Next]_Entries
    BY StepKeepsIInv, Zenon
<1> QED
    BY <1>1, <1>2, AlwaysIInv, PTL DEF Spec, ImplementsGroupLock, Abstract!Spec
=============================================================================
