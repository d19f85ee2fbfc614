--------------------------- MODULE CoRwLockProofs ---------------------------
(***************************************************************************)
(* The safety of CoRwLock for any finite set of tasks, any task trees and   *)
(* modes and any number of calls, and the proof that it implements          *)
(* GroupLock.                                                               *)
(***************************************************************************)
EXTENDS CoRwLock, FiniteSetTheorems, TLAPS

Entry(t) == <<t, calls[t], want[t]>>

(* Where a task stands: it runs with no pending wait, or one call blocks    *)
(* it, or it has been signalled; the entry its call stands for is not       *)
(* inside yet.                                                              *)
TasksInv ==
    \A t \in Tasks :
        /\ block_count_[t] \in {0, 1}
        /\ co[t] = "run" => block_count_[t] = 0
        /\ co[t] # "run" => calls[t] >= 1
        /\ \A n \in 1..MaxLocks : \A m \in {"r", "w"} :
              <<t, n, m>> \in scopes => n <= calls[t] /\ (co[t] # "run" => n # calls[t])

(* Readers inside leave root_ null and no reader waiting; a free lock has   *)
(* neither an owner nor anybody waiting.                                    *)
KindInv ==
    /\ is_read_ => rep_ # 0 /\ root_ = NoRoot /\ reader_set_ = {}
    /\ rep_ = 0 => root_ = NoRoot /\ order_ = <<>> /\ reader_set_ = {}

IInv ==
    /\ TypeOK
    /\ TasksInv
    /\ KindInv
    /\ RepCountsEntries
    /\ WaitersAreFiled
-----------------------------------------------------------------------------
(* Entries are triples of a task, a call number and a mode; there are       *)
(* finitely many.                                                           *)
LEMMA EntriesFinite ==
    ASSUME TypeOK, TasksInv
    PROVE  Entries \subseteq Handles /\ IsFiniteSet(Entries)
<1>1. \A t \in Granted : Entry(t) \in Handles
    BY RwAssumption DEF TypeOK, TasksInv, Granted, Entry, Handles
<1>2. Entries \subseteq Handles
    BY <1>1, Zenon DEF Entries, Entry, TypeOK
<1>3. IsFiniteSet(1..MaxLocks)
    BY FS_Interval, RwAssumption
<1>4. IsFiniteSet({"r", "w"})
    <2>1. IsFiniteSet({"r"} \cup {"w"})
        BY FS_Singleton, FS_Union, Zenon
    <2>2. {"r"} \cup {"w"} = {"r", "w"}
        BY Zenon
    <2> QED
        BY <2>1, <2>2, Zenon
<1> DEFINE P == (Tasks \X (1..MaxLocks)) \X {"r", "w"}
           f == [p \in P |-> <<p[1][1], p[1][2], p[2]>>]
<1>5. IsFiniteSet(P)
    BY <1>3, <1>4, FS_Product, RwAssumption, Zenon
<1>6. f \in Surjection(P, Handles)
    <2>1. f \in [P -> Handles]
        BY Zenon DEF Handles
    <2>2. ASSUME NEW h \in Handles PROVE \E p \in P : f[p] = h
        <3>1. <<<<h[1], h[2]>>, h[3]>> \in P
            BY Zenon DEF Handles
        <3>2. f[<<<<h[1], h[2]>>, h[3]>>] = h
            BY <3>1 DEF Handles
        <3> QED
            BY <3>1, <3>2, Zenon
    <2> QED
        BY <2>1, <2>2, Zenon DEF Surjection
<1>7. IsFiniteSet(Handles)
    BY <1>5, <1>6, FS_Surjection, Zenon
<1> QED
    BY <1>2, <1>7, FS_Subset, Zenon

(* The pending entries of a set of tasks are as many as the tasks.          *)
LEMMA PendingCount ==
    ASSUME NEW W \in SUBSET Tasks
    PROVE  Cardinality({Entry(t) : t \in W}) = Cardinality(W)
<1> DEFINE S == {Entry(t) : t \in W}
           f == [t \in W |-> Entry(t)]
<1>1. f \in Bijection(W, S)
    <2>1. f \in [W -> S]
        BY Zenon
    <2>2. \A t, u \in W : f[t] = f[u] => t = u
        BY Zenon DEF Entry
    <2>3. \A e \in S : \E t \in W : f[t] = e
        BY Zenon
    <2> QED
        BY <2>1, <2>2, <2>3, Zenon DEF Bijection, Injection, Surjection, IsInjective
<1>2. ExistsBijection(W, S)
    BY <1>1, Zenon DEF ExistsBijection
<1>3. IsFiniteSet(W)
    BY FS_Subset, RwAssumption, Zenon
<1> QED
    BY <1>2, <1>3, FS_Bijection, Zenon
-----------------------------------------------------------------------------
(* The wait lists are right as long as they and the waiting tasks stay.     *)
LEMMA StillFiled ==
    ASSUME WaitersAreFiled, UNCHANGED <<order_, writer_map_, reader_set_>>,
           Waiting' = Waiting, \A u \in Waiting : want'[u] = want[u]
    PROVE  WaitersAreFiled'
<1>1. {u \in Waiting' : want'[u] = "r"} = {u \in Waiting : want[u] = "r"}
    BY Zenon
<1>2. \A q : {u \in Waiting' : want'[u] = "w" /\ RootOf[u] = q}
                = {u \in Waiting : want[u] = "w" /\ RootOf[u] = q}
    BY Zenon
<1> QED
    BY <1>1, <1>2 DEF WaitersAreFiled

(* A call that lets a task in adds one entry, of a kind that agrees with    *)
(* those inside.                                                            *)
LEMMA EnterKeepsIInv ==
    ASSUME IInv, NEW t \in Tasks, NEW m \in {"r", "w"}, BeginCall(t, m), Enter(t, m),
           \/ m = "r" /\ CanRead /\ is_read_' = TRUE /\ root_' = root_
           \/ m = "w" /\ CanWrite(t) /\ is_read_' = is_read_ /\ root_' = RootOf[t]
    PROVE  /\ IInv'
           /\ <<t, calls[t] + 1, m>> \in Handles \ Entries
           /\ Entries' = Entries \cup {<<t, calls[t] + 1, m>>}
<1> DEFINE e == <<t, calls[t] + 1, m>>
<1> USE DEF IInv
<1>1. e \in Handles
    BY RwAssumption DEF TypeOK, BeginCall, Handles
<1>2. TypeOK'
    <2>0. is_read_' \in BOOLEAN
        BY Zenon DEF TypeOK
    <2>1. root_' \in Roots \cup {NoRoot} /\ rep_' \in Nat
        BY RwAssumption DEF TypeOK, Enter
    <2>2. calls' \in [Tasks -> 0..MaxLocks] /\ want' \in [Tasks -> {"r", "w"}]
        BY RwAssumption DEF TypeOK, BeginCall
    <2>3. scopes' \in SUBSET Handles
        BY <1>1, Zenon DEF TypeOK, Enter
    <2> QED
        BY <2>0, <2>1, <2>2, <2>3, Zenon DEF TypeOK, Enter
<1>3. e \notin Entries
    <2>1. e \notin scopes
        <3>1. calls[t] \in Nat /\ calls[t] + 1 \in 1..MaxLocks
            BY <1>1 DEF TypeOK, Handles
        <3>2. e \in scopes => calls[t] + 1 <= calls[t]
            BY <3>1, Zenon DEF TasksInv
        <3> QED
            BY <3>1, <3>2
    <2>2. \A u \in Granted : Entry(u) # e
        BY Zenon DEF Granted, Entry, BeginCall
    <2> QED
        BY <2>1, <2>2, Zenon DEF Entries, Entry
<1>4. Granted' = Granted /\ Waiting' = Waiting /\ t \notin Granted \cup Waiting
    BY Zenon DEF Granted, Waiting, Enter, BeginCall
<1>5. \A u \in Granted \cup Waiting : calls'[u] = calls[u] /\ want'[u] = want[u]
    BY <1>4, Zenon DEF BeginCall, TypeOK, Granted, Waiting
<1>6. Entries' = Entries \cup {e}
    BY <1>4, <1>5, Zenon DEF Entries, Enter
<1>7. TasksInv'
    <2> SUFFICES ASSUME NEW u \in Tasks
                 PROVE  /\ block_count_'[u] \in {0, 1}
                        /\ co'[u] = "run" => block_count_'[u] = 0
                        /\ co'[u] # "run" => calls'[u] >= 1
                        /\ \A n \in 1..MaxLocks : \A k \in {"r", "w"} :
                              <<u, n, k>> \in scopes' =>
                                  n <= calls'[u] /\ (co'[u] # "run" => n # calls'[u])
        BY Zenon DEF TasksInv
    <2>1. CASE u = t
        <3>1. calls[t] \in Nat /\ calls'[t] = calls[t] + 1 /\ co'[t] = "run"
            BY DEF TypeOK, Enter, BeginCall
        <3>2. block_count_'[t] = 0
            BY Zenon DEF TasksInv, Enter, BeginCall
        <3>3. \A n \in 1..MaxLocks : \A k \in {"r", "w"} : <<t, n, k>> \in scopes => n <= calls[t]
            BY Zenon DEF TasksInv
        <3>4. \A n \in 1..MaxLocks : \A k \in {"r", "w"} : <<t, n, k>> \in scopes' => n <= calls[t] + 1
            <4>1. \A n, k : <<t, n, k>> \in scopes' => <<t, n, k>> \in scopes \/ n = calls[t] + 1
                BY Zenon DEF Enter
            <4>2. \A n \in 1..MaxLocks : n <= calls[t] \/ n = calls[t] + 1 => n <= calls[t] + 1
                BY <3>1, RwAssumption
            <4> QED
                BY <3>3, <4>1, <4>2, Zenon
        <3> QED
            BY <2>1, <3>1, <3>2, <3>4, Zenon
    <2>2. CASE u # t
        <3>1. calls'[u] = calls[u]
            BY <2>2, Zenon DEF TypeOK, BeginCall
        <3>2. \A n, k : <<u, n, k>> \in scopes' <=> <<u, n, k>> \in scopes
            BY <2>2, Zenon DEF Enter
        <3> QED
            BY <3>1, <3>2, Zenon DEF TasksInv, Enter
    <2> QED
        BY <2>1, <2>2, Zenon
<1>8. rep_' # 0
    BY DEF TypeOK, Enter
<1>9. KindInv'
    BY <1>8 DEF KindInv, Enter, CanRead, CanWrite, TypeOK
<1>10. RepCountsEntries'
    <2>1. rep_' = Cardinality(Entries')
        BY <1>3, <1>6, EntriesFinite, FS_AddElement, Zenon DEF RepCountsEntries, Enter
    <2>2. rep_ = 0 => Entries = {}
        BY EntriesFinite, FS_EmptySet, Zenon DEF RepCountsEntries
    <2>3. \A x \in Entries' : IF is_read_' THEN x[3] = "r" ELSE x[3] = "w" /\ root_' = RootOf[x[1]]
        BY <1>6, <2>2 DEF RepCountsEntries, CanRead, CanWrite, TypeOK
    <2> QED
        BY <2>1, <2>3, Zenon DEF RepCountsEntries
<1>11. WaitersAreFiled'
    BY <1>4, <1>5, StillFiled, Zenon DEF Enter
<1> QED
    BY <1>1, <1>2, <1>3, <1>6, <1>7, <1>9, <1>10, <1>11, Zenon

(* A call that ends in HELOG(kFatal) leaves the lock as it is.              *)
LEMMA FatalKeepsIInv ==
    ASSUME IInv, NEW t \in Tasks, NEW m \in {"r", "w"}, BeginCall(t, m), Fatal
    PROVE  IInv' /\ Entries' = Entries
<1> USE DEF IInv
<1>1. TypeOK'
    BY RwAssumption DEF TypeOK, BeginCall, Fatal, lock
<1>2. Granted' = Granted /\ Waiting' = Waiting /\ t \notin Granted \cup Waiting
    BY Zenon DEF Granted, Waiting, Fatal, BeginCall
<1>3. \A u \in Granted \cup Waiting : calls'[u] = calls[u] /\ want'[u] = want[u]
    BY <1>2, Zenon DEF BeginCall, TypeOK, Granted, Waiting
<1>4. Entries' = Entries
    BY <1>2, <1>3, Zenon DEF Entries, Fatal
<1>5. TasksInv'
    BY RwAssumption DEF TasksInv, TypeOK, Fatal, BeginCall
<1>6. KindInv' /\ RepCountsEntries'
    BY <1>4, Zenon DEF KindInv, RepCountsEntries, Fatal, lock
<1>7. WaitersAreFiled'
    BY <1>2, <1>3, StillFiled, Zenon DEF Fatal, lock
<1> QED
    BY <1>1, <1>4, <1>5, <1>6, <1>7, Zenon
-----------------------------------------------------------------------------
(* What SetBlocked does, whatever list the task is filed in.                *)
LEMMA BlockedTask ==
    ASSUME IInv, NEW t \in Tasks, NEW m \in {"r", "w"}, BeginCall(t, m), SetBlocked(t)
    PROVE  /\ block_count_' \in [Tasks -> Int] /\ co' \in [Tasks -> {"run", "yielding", "parked"}]
           /\ calls' \in [Tasks -> 0..MaxLocks] /\ want' \in [Tasks -> {"r", "w"}]
           /\ TasksInv'
           /\ Entries' = Entries
           /\ Waiting' = Waiting \cup {t} /\ t \notin Waiting
           /\ want'[t] = m /\ \A u \in Waiting : want'[u] = want[u]
<1> USE DEF IInv
<1>1. /\ block_count_' \in [Tasks -> Int] /\ co' \in [Tasks -> {"run", "yielding", "parked"}]
      /\ calls' \in [Tasks -> 0..MaxLocks] /\ want' \in [Tasks -> {"r", "w"}]
    BY RwAssumption DEF TypeOK, BeginCall, SetBlocked
<1>2. block_count_[t] = 0 /\ block_count_'[t] = 1 /\ co[t] = "run" /\ co'[t] = "yielding"
    BY DEF TasksInv, TypeOK, BeginCall, SetBlocked
<1>3. \A u \in Tasks \ {t} : /\ block_count_'[u] = block_count_[u] /\ co'[u] = co[u]
                             /\ calls'[u] = calls[u] /\ want'[u] = want[u]
    BY Zenon DEF TypeOK, BeginCall, SetBlocked
<1>4. Granted' = Granted /\ t \notin Granted
    BY <1>2, <1>3 DEF Granted
<1>5. Waiting' = Waiting \cup {t} /\ t \notin Waiting
    BY <1>2, <1>3 DEF Waiting
<1>6. Entries' = Entries
    BY <1>3, <1>4 DEF Entries, SetBlocked, Granted
<1>7. TasksInv'
    <2> SUFFICES ASSUME NEW u \in Tasks
                 PROVE  /\ block_count_'[u] \in {0, 1}
                        /\ co'[u] = "run" => block_count_'[u] = 0
                        /\ co'[u] # "run" => calls'[u] >= 1
                        /\ \A n \in 1..MaxLocks : \A k \in {"r", "w"} :
                              <<u, n, k>> \in scopes' =>
                                  n <= calls'[u] /\ (co'[u] # "run" => n # calls'[u])
        BY Zenon DEF TasksInv
    <2>1. CASE u = t
        <3>1. calls[t] \in Nat /\ calls'[t] = calls[t] + 1
            BY DEF TypeOK, BeginCall
        <3>2. \A n \in 1..MaxLocks : \A k \in {"r", "w"} : <<t, n, k>> \in scopes => n <= calls[t]
            BY Zenon DEF TasksInv
        <3>3. \A n \in 1..MaxLocks : n <= calls[t] => n <= calls[t] + 1 /\ n # calls[t] + 1
            BY <3>1, RwAssumption
        <3>4. \A n \in 1..MaxLocks : \A k \in {"r", "w"} :
                 <<t, n, k>> \in scopes' => n <= calls'[t] /\ n # calls'[t]
            BY <3>1, <3>2, <3>3, Zenon DEF SetBlocked
        <3> QED
            BY <1>2, <2>1, <3>1, <3>4
    <2>2. CASE u # t
        BY <1>3, <2>2 DEF TasksInv, SetBlocked
    <2> QED
        BY <2>1, <2>2, Zenon
<1>8. want'[t] = m /\ \A u \in Waiting : want'[u] = want[u]
    BY <1>3, <1>5, Zenon DEF TypeOK, BeginCall, Waiting
<1> QED
    BY <1>1, <1>5, <1>6, <1>7, <1>8, Zenon

(* ReadLock files the task as a waiting reader.                             *)
LEMMA BlockReaderKeepsIInv ==
    ASSUME IInv, NEW t \in Tasks, BeginCall(t, "r"), ~CanRead, SetBlocked(t),
           reader_set_' = reader_set_ \cup {t}, UNCHANGED <<order_, writer_map_, fatal>>
    PROVE  IInv' /\ Entries' = Entries
<1> USE DEF IInv
<1>1. /\ TasksInv' /\ Entries' = Entries /\ Waiting' = Waiting \cup {t} /\ t \notin Waiting
      /\ want'[t] = "r" /\ \A u \in Waiting : want'[u] = want[u]
    BY BlockedTask, Zenon
<1>2. /\ block_count_' \in [Tasks -> Int] /\ co' \in [Tasks -> {"run", "yielding", "parked"}]
      /\ calls' \in [Tasks -> 0..MaxLocks] /\ want' \in [Tasks -> {"r", "w"}]
    BY BlockedTask, Zenon
<1>3. TypeOK'
    BY <1>2, Zenon DEF TypeOK, SetBlocked
<1>4. KindInv'
    BY Zenon DEF KindInv, CanRead, SetBlocked, TypeOK
<1>5. RepCountsEntries'
    BY <1>1, Zenon DEF RepCountsEntries, SetBlocked
<1>6. WaitersAreFiled'
    <2>1. reader_set_' = {u \in Waiting' : want'[u] = "r"}
        BY <1>1 DEF WaitersAreFiled
    <2>2. \A q : {u \in Waiting' : want'[u] = "w" /\ RootOf[u] = q}
                    = {u \in Waiting : want[u] = "w" /\ RootOf[u] = q}
        BY <1>1, Zenon
    <2> QED
        BY <2>1, <2>2 DEF WaitersAreFiled
<1> QED
    BY <1>1, <1>3, <1>4, <1>5, <1>6, Zenon

(* WriteLock files the task under its tree.                                 *)
LEMMA BlockWriterKeepsIInv ==
    ASSUME IInv, NEW t \in Tasks, BeginCall(t, "w"), ~CanWrite(t), SetBlocked(t),
           order_' = IF writer_map_[RootOf[t]] = {} THEN Append(order_, RootOf[t]) ELSE order_,
           writer_map_' = [writer_map_ EXCEPT ![RootOf[t]] = @ \cup {t}],
           UNCHANGED <<reader_set_, fatal>>
    PROVE  IInv' /\ Entries' = Entries
<1> USE DEF IInv
<1> DEFINE r == RootOf[t]
<1>0. r \in Roots
    BY RwAssumption, Zenon
<1>1. /\ TasksInv' /\ Entries' = Entries /\ Waiting' = Waiting \cup {t} /\ t \notin Waiting
      /\ want'[t] = "w" /\ \A u \in Waiting : want'[u] = want[u]
    BY BlockedTask, Zenon
<1>2. /\ block_count_' \in [Tasks -> Int] /\ co' \in [Tasks -> {"run", "yielding", "parked"}]
      /\ calls' \in [Tasks -> 0..MaxLocks] /\ want' \in [Tasks -> {"r", "w"}]
    BY BlockedTask, Zenon
<1>3. TypeOK'
    <2>1. order_' \in Seq(Roots)
        BY <1>0 DEF TypeOK
    <2>2. writer_map_' \in [Roots -> SUBSET Tasks]
        BY <1>0, Zenon DEF TypeOK
    <2> QED
        BY <1>2, <2>1, <2>2, Zenon DEF TypeOK, SetBlocked
<1>4. KindInv'
    BY Zenon DEF KindInv, CanWrite, SetBlocked, TypeOK
<1>5. RepCountsEntries'
    BY <1>1, Zenon DEF RepCountsEntries, SetBlocked
<1>6. WaitersAreFiled'
    <2>1. reader_set_' = {u \in Waiting' : want'[u] = "r"}
        BY <1>1 DEF WaitersAreFiled
    <2>2. writer_map_'[r] = writer_map_[r] \cup {t}
          /\ \A q \in Roots \ {r} : writer_map_'[q] = writer_map_[q]
        BY <1>0, Zenon DEF TypeOK
    <2>3. \A q \in Roots : writer_map_'[q] = {u \in Waiting' : want'[u] = "w" /\ RootOf[u] = q}
        <3>1. writer_map_[r] = {u \in Waiting : want[u] = "w" /\ RootOf[u] = r}
            BY <1>0, Zenon DEF WaitersAreFiled
        <3>2. writer_map_'[r] = {u \in Waiting' : want'[u] = "w" /\ RootOf[u] = r}
            BY <1>1, <2>2, <3>1, Zenon
        <3>3. ASSUME NEW q \in Roots \ {r}
              PROVE  writer_map_'[q] = {u \in Waiting' : want'[u] = "w" /\ RootOf[u] = q}
            <4>1. writer_map_[q] = {u \in Waiting : want[u] = "w" /\ RootOf[u] = q}
                BY Zenon DEF WaitersAreFiled
            <4> QED
                BY <1>1, <2>2, <4>1
        <3> QED
            BY <3>2, <3>3, Zenon
    <2>4. CASE writer_map_[r] = {}
        <3>1. /\ Len(order_') = Len(order_) + 1
              /\ order_'[Len(order_) + 1] = r
              /\ \A i \in 1..Len(order_) : order_'[i] = order_[i]
            BY <2>4, <1>0 DEF TypeOK
        <3>2. Len(order_) \in Nat
            BY DEF TypeOK
        <3>3. \A i \in 1..Len(order_) : order_[i] # r
            BY <2>4, <1>0, Zenon DEF WaitersAreFiled
        <3>4. ASSUME NEW q \in Roots
              PROVE  writer_map_'[q] # {} <=> \E i \in 1..Len(order_') : order_'[i] = q
            <4>1. CASE q = r
                <5>1. t \in writer_map_'[q]
                    BY <4>1, <2>2, Zenon
                <5>2. Len(order_) + 1 \in 1..Len(order_')
                    BY <3>1, <3>2
                <5> QED
                    BY <4>1, <5>1, <5>2, <3>1, Zenon
            <4>2. CASE q # r
                <5>1. writer_map_[q] # {} <=> \E i \in 1..Len(order_) : order_[i] = q
                    BY Zenon DEF WaitersAreFiled
                <5> QED
                    BY <5>1, <4>2, <2>2, <3>1, <3>2
            <4> QED
                BY <4>1, <4>2, Zenon
        <3>5. \A i, j \in 1..Len(order_') : order_'[i] = order_'[j] => i = j
            BY <3>1, <3>2, <3>3 DEF WaitersAreFiled
        <3> QED
            BY <2>1, <2>3, <3>4, <3>5, Zenon DEF WaitersAreFiled
    <2>5. CASE writer_map_[r] # {}
        <3>1. \A q \in Roots : writer_map_'[q] # {} <=> writer_map_[q] # {}
            BY <2>2, <2>5, Zenon
        <3>2. order_' = order_
            BY <2>5, Zenon
        <3> QED
            BY <2>1, <2>3, <3>1, <3>2 DEF WaitersAreFiled
    <2> QED
        BY <2>4, <2>5, Zenon
<1> QED
    BY <1>1, <1>3, <1>4, <1>5, <1>6, Zenon
-----------------------------------------------------------------------------
(* A yield only moves the coroutine.                                        *)
LEMMA YieldKeepsIInv ==
    ASSUME IInv, NEW t \in Tasks, Yield(t)
    PROVE  IInv' /\ Entries' = Entries
<1> USE DEF IInv
<1>1. TypeOK'
    BY Zenon DEF TypeOK, Yield, lock
<1>2. \A u \in Tasks : co'[u] = "run" <=> co[u] = "run"
    BY Zenon DEF Yield, TypeOK
<1>3. Granted' = Granted /\ Waiting' = Waiting
    BY <1>2, Zenon DEF Granted, Waiting, Yield
<1>4. Entries' = Entries
    BY <1>3, Zenon DEF Entries, Yield
<1>5. TasksInv'
    BY <1>2, Zenon DEF TasksInv, Yield
<1>6. KindInv' /\ RepCountsEntries'
    BY <1>4, Zenon DEF KindInv, RepCountsEntries, Yield, lock
<1>7. WaitersAreFiled'
    BY <1>3, StillFiled, Zenon DEF Yield, lock
<1> QED
    BY <1>1, <1>4, <1>5, <1>6, <1>7, Zenon

(* A signalled task returns: its granted entry becomes a scope.             *)
LEMMA ResumeKeepsIInv ==
    ASSUME IInv, NEW t \in Tasks, Resume(t)
    PROVE  IInv' /\ Entries' = Entries
<1> USE DEF IInv
<1>1. block_count_[t] = 0 /\ t \in Granted /\ co[t] # "run"
    BY DEF Resume, TasksInv, Granted
<1>2. Entry(t) \in Handles
    BY <1>1, EntriesFinite, Zenon DEF Entries, Entry
<1>3. TypeOK'
    BY <1>2, Zenon DEF TypeOK, Resume, lock, Entry
<1>4. \A u \in Tasks : co'[u] = IF u = t THEN "run" ELSE co[u]
    BY Zenon DEF Resume, TypeOK
<1>5. Granted' = Granted \ {t} /\ Waiting' = Waiting
    BY <1>1, <1>4 DEF Granted, Waiting, Resume, TypeOK
<1>6. Entries' = Entries
    BY <1>1, <1>5, Zenon DEF Entries, Resume
<1>7. TasksInv'
    <2> SUFFICES ASSUME NEW u \in Tasks
                 PROVE  /\ block_count_'[u] \in {0, 1}
                        /\ co'[u] = "run" => block_count_'[u] = 0
                        /\ co'[u] # "run" => calls'[u] >= 1
                        /\ \A n \in 1..MaxLocks : \A k \in {"r", "w"} :
                              <<u, n, k>> \in scopes' =>
                                  n <= calls'[u] /\ (co'[u] # "run" => n # calls'[u])
        BY Zenon DEF TasksInv
    <2>1. CASE u = t
        <3>1. \A n \in 1..MaxLocks : \A k \in {"r", "w"} : <<t, n, k>> \in scopes => n <= calls[t]
            BY Zenon DEF TasksInv
        <3>2. \A n, k : <<t, n, k>> \in scopes' => <<t, n, k>> \in scopes \/ n = calls[t]
            BY Zenon DEF Resume
        <3>3. calls[t] <= calls[t]
            BY DEF TypeOK
        <3>4. \A n \in 1..MaxLocks : \A k \in {"r", "w"} : <<t, n, k>> \in scopes' => n <= calls[t]
            BY <3>1, <3>2, <3>3, Zenon
        <3> QED
            BY <2>1, <1>1, <1>4, <3>4, Zenon DEF Resume
    <2>2. CASE u # t
        <3>1. \A n, k : <<u, n, k>> \in scopes' <=> <<u, n, k>> \in scopes
            BY <2>2, Zenon DEF Resume
        <3> QED
            BY <2>2, <1>4, <3>1, Zenon DEF TasksInv, Resume
    <2> QED
        BY <2>1, <2>2, Zenon
<1>8. KindInv' /\ RepCountsEntries'
    BY <1>6, Zenon DEF KindInv, RepCountsEntries, Resume, lock
<1>9. WaitersAreFiled'
    BY <1>5, StillFiled, Zenon DEF Resume, lock
<1> QED
    BY <1>3, <1>6, <1>7, <1>8, <1>9

(* What every unlock does to the scopes, before the lock itself changes.    *)
LEMMA UnlockedEntry ==
    ASSUME IInv, NEW t \in Tasks, NEW m \in {"r", "w"}, EndScope(t, m)
    PROVE  /\ <<t, calls[t], m>> \in Entries
           /\ Entries \ {<<t, calls[t], m>>} = scopes' \cup {Entry(u) : u \in Granted}
           /\ rep_ = 1 => Entries = {<<t, calls[t], m>>}
           /\ rep_ # 0
           /\ is_read_ <=> m = "r"
<1> DEFINE e == <<t, calls[t], m>>
<1>1. t \notin Granted /\ e \in scopes /\ scopes' = scopes \ {e}
    BY Zenon DEF Granted, EndScope
<1>2. \A u \in Granted : Entry(u) # e
    BY <1>1, Zenon DEF Entry
<1>3. e \in Entries
    BY <1>1, Zenon DEF Entries
<1>4. Entries \ {e} = scopes' \cup {Entry(u) : u \in Granted}
    BY <1>1, <1>2, Zenon DEF Entries, Entry
<1>5. ASSUME rep_ = 1 PROVE Entries = {e}
    <2>1. IsFiniteSet(Entries) /\ Cardinality(Entries) = 1
        BY <1>5, EntriesFinite, Zenon DEF IInv, RepCountsEntries
    <2>2. PICK x : Entries = {x}
        BY <2>1, FS_Singleton, Zenon
    <2> QED
        BY <2>2, <1>3, Zenon
<1>6. rep_ # 0
    BY <1>3, EntriesFinite, FS_EmptySet, Zenon DEF IInv, RepCountsEntries
<1>7. IF is_read_ THEN m = "r" ELSE m = "w"
    BY <1>3, Zenon DEF IInv, RepCountsEntries
<1>8. is_read_ <=> m = "r"
    BY <1>7, Zenon DEF IInv, TypeOK
<1> QED
    BY <1>3, <1>4, <1>5, <1>6, <1>8, Zenon

(* What every unlock does to the tasks: its own has one entry less, and the *)
(* entries of the others keep their numbers.  All entries inside are of one *)
(* mode, so none of another mode has the number of the one that ends.       *)
LEMMA UnlockedTask ==
    ASSUME IInv, NEW t \in Tasks, NEW m \in {"r", "w"}, EndScope(t, m),
           \A u \in Tasks : /\ block_count_'[u] \in {0, 1}
                            /\ co[u] = "run" => block_count_'[u] = 0
    PROVE  /\ calls' \in [Tasks -> 0..MaxLocks]
           /\ \A u \in Tasks \ {t} : calls'[u] = calls[u]
           /\ TasksInv'
<1> USE DEF IInv
<1>1. /\ scopes' = scopes \ {<<t, calls[t], m>>} /\ <<t, calls[t], m>> \in scopes
      /\ co' = co /\ calls' = [calls EXCEPT ![t] = @ - 1] /\ co[t] = "run"
    BY Zenon DEF EndScope
<1>2. calls[t] \in 1..MaxLocks /\ MaxLocks \in Nat
    BY <1>1, RwAssumption, Zenon DEF TypeOK, Handles
<1>3. calls' \in [Tasks -> 0..MaxLocks] /\ calls'[t] = calls[t] - 1
    BY <1>1, <1>2 DEF TypeOK
<1>4. \A u \in Tasks \ {t} : calls'[u] = calls[u]
    BY <1>1, Zenon DEF TypeOK
<1>5. ASSUME NEW n \in 1..MaxLocks, NEW k \in {"r", "w"}, <<t, n, k>> \in scopes'
      PROVE  n <= calls'[t]
    <2>1. n <= calls[t]
        BY <1>1, <1>5, Zenon DEF TasksInv
    <2>2. <<t, n, k>> \in Entries
        BY <1>1, <1>5, Zenon DEF Entries
    <2>3. IF is_read_ THEN k = "r" ELSE k = "w"
        BY <2>2, Zenon DEF RepCountsEntries
    <2>4. is_read_ <=> m = "r"
        BY UnlockedEntry, Zenon
    <2>5. k = m
        BY <2>3, <2>4
    <2>6. n # calls[t]
        BY <1>1, <1>5, <2>5, Zenon
    <2> QED
        BY <1>2, <1>3, <2>1, <2>6
<1>6. \A u \in Tasks \ {t} : \A n, k : <<u, n, k>> \in scopes' <=> <<u, n, k>> \in scopes
    BY <1>1, Zenon
<1>7. TasksInv'
    <2> SUFFICES ASSUME NEW u \in Tasks
                 PROVE  /\ block_count_'[u] \in {0, 1}
                        /\ co'[u] = "run" => block_count_'[u] = 0
                        /\ co'[u] # "run" => calls'[u] >= 1
                        /\ \A n \in 1..MaxLocks : \A k \in {"r", "w"} :
                              <<u, n, k>> \in scopes' =>
                                  n <= calls'[u] /\ (co'[u] # "run" => n # calls'[u])
        BY Zenon DEF TasksInv
    <2>1. CASE u = t
        BY <1>1, <1>5, <2>1, Zenon
    <2>2. CASE u # t
        BY <1>1, <1>4, <1>6, <2>2, Zenon DEF TasksInv
    <2> QED
        BY <2>1, <2>2, Zenon
<1> QED
    BY <1>3, <1>4, <1>7, Zenon

(* An unlock that leaves others inside, or frees the lock.                  *)
LEMMA LeaveOrFreeKeepsIInv ==
    ASSUME IInv, NEW t \in Tasks, NEW m \in {"r", "w"}, EndScope(t, m),
           \/ Leave
           \/ rep_ = 1 /\ order_ = <<>> /\ reader_set_ = {} /\ Free /\ is_read_' = FALSE
    PROVE  IInv' /\ Entries' = Entries \ {<<t, calls[t], m>>}
<1> USE DEF IInv
<1> DEFINE e == <<t, calls[t], m>>
<1>1. UNCHANGED <<fatal, co, want, order_, writer_map_, reader_set_, block_count_, ready>>
    BY Zenon DEF EndScope, Leave, Free
<1>2. Granted' = Granted /\ Waiting' = Waiting
    BY <1>1, Zenon DEF Granted, Waiting
<1>8. calls' \in [Tasks -> 0..MaxLocks] /\ TasksInv' /\ \A u \in Tasks \ {t} : calls'[u] = calls[u]
    BY <1>1, UnlockedTask, Zenon DEF TasksInv
<1>3. Entries' = Entries \ {e}
    <2>1. Entries \ {e} = scopes' \cup {Entry(u) : u \in Granted}
        BY UnlockedEntry, Zenon
    <2>3. \A u \in Granted : <<u, calls'[u], want'[u]>> = Entry(u)
        BY <1>1, <1>8, Zenon DEF Granted, Entry, EndScope
    <2>2. Entries' = scopes' \cup {Entry(u) : u \in Granted}
        BY <1>2, <2>3, Zenon DEF Entries
    <2> QED
        BY <2>1, <2>2, Zenon
<1>4. IsFiniteSet(Entries) /\ Cardinality(Entries) = rep_ /\ e \in Entries /\ rep_ # 0
    BY EntriesFinite, UnlockedEntry, Zenon DEF RepCountsEntries
<1>5. Cardinality(Entries') = rep_ - 1
    BY <1>3, <1>4, FS_RemoveElement, Zenon
<1>6. rep_' = rep_ - 1 /\ rep_' \in Nat
    BY <1>4 DEF Leave, Free, TypeOK
<1>7. TypeOK'
    <2>1. scopes' \in SUBSET Handles
        BY Zenon DEF TypeOK, EndScope
    <2>2. root_' \in Roots \cup {NoRoot}
        BY Zenon DEF Leave, Free, TypeOK
    <2>3. is_read_' \in BOOLEAN
        BY Zenon DEF Leave, TypeOK
    <2> QED
        BY <1>1, <1>6, <1>8, <2>1, <2>2, <2>3, Zenon DEF TypeOK
<1>9. WaitersAreFiled'
    BY <1>1, <1>2, StillFiled, Zenon
<1>10. CASE Leave
    <2>1. rep_' # 0 /\ UNCHANGED <<root_, is_read_, reader_set_>>
        BY <1>10, <1>6 DEF Leave, TypeOK
    <2>2. KindInv'
        BY <2>1, Zenon DEF KindInv
    <2>3. RepCountsEntries'
        BY <1>3, <1>5, <1>6, <2>1, Zenon DEF RepCountsEntries
    <2> QED
        BY <1>3, <1>7, <1>8, <1>9, <2>2, <2>3, Zenon
<1>11. CASE rep_ = 1 /\ order_ = <<>> /\ reader_set_ = {} /\ Free /\ is_read_' = FALSE
    <2>1. Entries' = {}
        BY <1>3, <1>11, UnlockedEntry, Zenon
    <2>2. KindInv'
        BY <1>1, <1>11, Zenon DEF KindInv, Free
    <2>3. RepCountsEntries'
        BY <1>5, <1>6, <2>1, Zenon DEF RepCountsEntries
    <2> QED
        BY <1>3, <1>7, <1>8, <1>9, <2>2, <2>3
<1> QED
    BY <1>10, <1>11, Zenon
-----------------------------------------------------------------------------
(* The last entry is given back and the tasks of W, which were waiting, are *)
(* signalled: their entries are the only ones.                              *)
LEMMA SignalledTasks ==
    ASSUME IInv, NEW t \in Tasks, NEW m \in {"r", "w"}, EndScope(t, m),
           rep_ = 1, NEW W \in SUBSET Waiting, W # {}, SignalUnblock(W),
           rep_' = Cardinality(W)
    PROVE  /\ Entries = {<<t, calls[t], m>>}
           /\ Entries' = {Entry(u) : u \in W} /\ Entries' # {} /\ <<t, calls[t], m>> \notin Entries'
           /\ Waiting' = Waiting \ W
           /\ rep_' = Cardinality(Entries') /\ rep_' \in Nat /\ rep_' # 0
           /\ TasksInv' /\ calls' \in [Tasks -> 0..MaxLocks]
           /\ block_count_' \in [Tasks -> Int] /\ ready' \in SUBSET Tasks /\ scopes' \in SUBSET Handles
<1> USE DEF IInv
<1> DEFINE e == <<t, calls[t], m>>
<1>1. co[t] = "run" /\ scopes' = scopes \ {e} /\ UNCHANGED <<fatal, co, want>>
    BY Zenon DEF EndScope
<1>2. Entries = {e} /\ scopes' = {} /\ Granted = {}
    <2>1. Entries = {e} /\ Entries \ {e} = scopes' \cup {Entry(u) : u \in Granted}
        BY UnlockedEntry, Zenon
    <2> QED
        BY <2>1, Zenon
<1>3. W \in SUBSET Tasks /\ \A u \in W : block_count_[u] = 1 /\ co[u] # "run"
    BY DEF Waiting, TasksInv
<1>4. block_count_' = [u \in Tasks |-> IF u \in W THEN 0 ELSE block_count_[u]]
    BY <1>3 DEF SignalUnblock
<1>5. Granted' = W
    BY <1>1, <1>2, <1>3, <1>4, Zenon DEF Granted, TypeOK
<1>6. Waiting' = Waiting \ W
    BY <1>1, <1>3, <1>4 DEF Waiting, TypeOK
<1>11. calls' \in [Tasks -> 0..MaxLocks] /\ TasksInv' /\ \A u \in Tasks \ {t} : calls'[u] = calls[u]
    <2>1. \A u \in Tasks : block_count_'[u] \in {0, 1} /\ (co[u] = "run" => block_count_'[u] = 0)
        BY <1>3, <1>4, Zenon DEF TasksInv
    <2> QED
        BY <2>1, UnlockedTask, Zenon
<1>13. t \notin W
    BY <1>1, <1>3, Zenon
<1>7. Entries' = {Entry(u) : u \in W}
    <2>1. \A u \in W : <<u, calls'[u], want'[u]>> = Entry(u)
        BY <1>1, <1>3, <1>11, <1>13, Zenon DEF Entry
    <2> QED
        BY <1>2, <1>5, <2>1, Zenon DEF Entries
<1>8. Entries' # {} /\ e \notin Entries'
    <2>1. \A u \in W : Entry(u) # e
        BY <1>13, Zenon DEF Entry
    <2> QED
        BY <1>7, <2>1, Zenon
<1>9. IsFiniteSet(W) /\ Cardinality(W) \in Nat /\ Cardinality(W) # 0
    BY <1>3, FS_Subset, FS_CardinalityType, FS_EmptySet, RwAssumption, Zenon
<1>10. rep_' = Cardinality(Entries') /\ rep_' \in Nat /\ rep_' # 0
    BY <1>3, <1>7, <1>9, PendingCount, Zenon
<1>12. block_count_' \in [Tasks -> Int] /\ ready' \in SUBSET Tasks /\ scopes' \in SUBSET Handles
    BY <1>2, <1>3, <1>4 DEF TypeOK, SignalUnblock
<1> QED
    BY <1>2, <1>6, <1>7, <1>8, <1>10, <1>11, <1>12, Zenon

(* The last writer leaves and all waiting readers get the lock.             *)
LEMMA PassToReadersKeepsIInv ==
    ASSUME IInv, NEW t \in Tasks, NEW m \in {"r", "w"}, EndScope(t, m),
           rep_ = 1, order_ = <<>>, reader_set_ # {}, PassToReaders
    PROVE  /\ IInv'
           /\ Entries = {<<t, calls[t], m>>} /\ Entries' # {} /\ <<t, calls[t], m>> \notin Entries'
<1> USE DEF IInv
<1> DEFINE W == reader_set_
<1>1. W = {u \in Waiting : want[u] = "r"} /\ W \in SUBSET Waiting
    BY Zenon DEF WaitersAreFiled
<1>2. /\ Entries = {<<t, calls[t], m>>}
      /\ Entries' = {Entry(u) : u \in W} /\ Entries' # {} /\ <<t, calls[t], m>> \notin Entries'
      /\ Waiting' = Waiting \ W
      /\ rep_' = Cardinality(Entries') /\ rep_' \in Nat /\ rep_' # 0
      /\ TasksInv' /\ calls' \in [Tasks -> 0..MaxLocks]
      /\ block_count_' \in [Tasks -> Int] /\ ready' \in SUBSET Tasks /\ scopes' \in SUBSET Handles
    <2>1. W \in SUBSET Waiting /\ W # {} /\ SignalUnblock(W) /\ rep_' = Cardinality(W)
        BY <1>1, Zenon DEF PassToReaders
    <2> HIDE DEF IInv, W
    <2> QED
        BY <2>1, SignalledTasks, ZenonT(30)
<1>3. TypeOK'
    BY <1>2, Zenon DEF TypeOK, EndScope, PassToReaders
<1>4. KindInv'
    BY <1>2, Zenon DEF KindInv, PassToReaders
<1>5. RepCountsEntries'
    <2>1. \A x \in Entries' : x[3] = "r"
        BY <1>1, <1>2 DEF Entry
    <2> QED
        BY <1>2, <2>1, Zenon DEF RepCountsEntries, PassToReaders
<1>6. WaitersAreFiled'
    <2>1. want' = want /\ reader_set_' = {} /\ UNCHANGED <<order_, writer_map_>>
        BY Zenon DEF EndScope, PassToReaders
    <2>2. {u \in Waiting' : want'[u] = "r"} = {}
        BY <1>1, <1>2, <2>1, Zenon
    <2>3. \A q : {u \in Waiting' : want'[u] = "w" /\ RootOf[u] = q}
                    = {u \in Waiting : want[u] = "w" /\ RootOf[u] = q}
        BY <1>1, <1>2, <2>1, Zenon
    <2> QED
        BY <2>1, <2>2, <2>3 DEF WaitersAreFiled
<1> QED
    BY <1>2, <1>3, <1>4, <1>5, <1>6, Zenon

(* The lock goes to the tree of writers at the head of the queue.           *)
LEMMA PassToWritersKeepsIInv ==
    ASSUME IInv, NEW t \in Tasks, NEW m \in {"r", "w"}, EndScope(t, m),
           rep_ = 1, is_read_' = FALSE, PassToWriters
    PROVE  /\ IInv'
           /\ Entries = {<<t, calls[t], m>>} /\ Entries' # {} /\ <<t, calls[t], m>> \notin Entries'
<1> USE DEF IInv
<1> DEFINE next == Head(order_)
           W == writer_map_[next]
<1>1. /\ order_ # <<>> /\ order_' = Tail(order_) /\ root_' = next /\ rep_' = Cardinality(W)
      /\ writer_map_' = [writer_map_ EXCEPT ![next] = {}] /\ reader_set_' = reader_set_
      /\ SignalUnblock(W) /\ want' = want
    BY Zenon DEF EndScope, PassToWriters
<1>2. next \in Roots /\ Len(order_) \in Nat /\ Len(order_) >= 1 /\ next = order_[1]
    BY <1>1 DEF TypeOK
<1>3. W = {u \in Waiting : want[u] = "w" /\ RootOf[u] = next} /\ W # {} /\ W \in SUBSET Waiting
    BY <1>2 DEF WaitersAreFiled
<1>4. /\ Entries = {<<t, calls[t], m>>}
      /\ Entries' = {Entry(u) : u \in W} /\ Entries' # {} /\ <<t, calls[t], m>> \notin Entries'
      /\ Waiting' = Waiting \ W
      /\ rep_' = Cardinality(Entries') /\ rep_' \in Nat /\ rep_' # 0
      /\ TasksInv' /\ calls' \in [Tasks -> 0..MaxLocks]
      /\ block_count_' \in [Tasks -> Int] /\ ready' \in SUBSET Tasks /\ scopes' \in SUBSET Handles
    <2> HIDE DEF IInv
    <2> QED
        BY <1>1, <1>3, SignalledTasks, Zenon
<1>5. TypeOK'
    <2>1. order_' \in Seq(Roots)
        BY <1>1 DEF TypeOK
    <2>2. writer_map_' \in [Roots -> SUBSET Tasks]
        BY <1>1, Zenon DEF TypeOK
    <2> QED
        BY <1>1, <1>2, <1>4, <2>1, <2>2, Zenon DEF TypeOK, EndScope
<1>6. KindInv'
    BY <1>4, Zenon DEF KindInv
<1>7. RepCountsEntries'
    <2>1. \A x \in Entries' : x[3] = "w" /\ RootOf[x[1]] = next
        BY <1>3, <1>4 DEF Entry
    <2> QED
        BY <1>1, <1>4, <2>1, Zenon DEF RepCountsEntries
<1>8. WaitersAreFiled'
    <2>1. /\ Len(order_') = Len(order_) - 1
          /\ \A i \in 1..Len(order_') : order_'[i] = order_[i + 1]
        BY <1>1, <1>2 DEF TypeOK
    <2>2. writer_map_'[next] = {} /\ \A r \in Roots \ {next} : writer_map_'[r] = writer_map_[r]
        BY <1>1, <1>2, Zenon DEF TypeOK
    <2>3. \A r \in Roots : writer_map_'[r] = {u \in Waiting' : want'[u] = "w" /\ RootOf[u] = r}
        <3>1. {u \in Waiting' : want'[u] = "w" /\ RootOf[u] = next} = {}
            BY <1>1, <1>3, <1>4, Zenon
        <3>2. ASSUME NEW r \in Roots \ {next}
              PROVE  writer_map_'[r] = {u \in Waiting' : want'[u] = "w" /\ RootOf[u] = r}
            <4>1. writer_map_[r] = {u \in Waiting : want[u] = "w" /\ RootOf[u] = r}
                BY Zenon DEF WaitersAreFiled
            <4> QED
                BY <1>1, <1>3, <1>4, <2>2, <4>1
        <3> QED
            BY <2>2, <3>1, <3>2, Zenon
    <2>4. reader_set_' = {u \in Waiting' : want'[u] = "r"}
        <3>1. reader_set_ = {u \in Waiting : want[u] = "r"}
            BY Zenon DEF WaitersAreFiled
        <3> QED
            BY <1>1, <1>3, <1>4, <3>1, Zenon
    <2>5. \A i, j \in 1..Len(order_) : order_[i] = order_[j] => i = j
        BY Zenon DEF WaitersAreFiled
    <2>6. \A i, j \in 1..Len(order_') : order_'[i] = order_'[j] => i = j
        BY <1>2, <2>1, <2>5
    <2>7. ASSUME NEW r \in Roots
          PROVE  writer_map_'[r] # {} <=> \E i \in 1..Len(order_') : order_'[i] = r
        <3>1. CASE r = next
            <4>1. \A i \in 1..Len(order_') : order_'[i] # r
                BY <3>1, <1>2, <2>1, <2>5
            <4> QED
                BY <2>2, <3>1, <4>1, Zenon
        <3>2. CASE r # next
            <4>1. writer_map_[r] # {} <=> \E i \in 1..Len(order_) : order_[i] = r
                BY Zenon DEF WaitersAreFiled
            <4>2. \A i \in 1..Len(order_) : order_[i] = r => i - 1 \in 1..Len(order_')
                                                /\ order_'[i - 1] = order_[i]
                BY <3>2, <1>2, <2>1
            <4>3. \A i \in 1..Len(order_') : i + 1 \in 1..Len(order_)
                BY <1>2, <2>1
            <4> QED
                BY <2>2, <3>2, <4>1, <4>2, <4>3, <2>1
        <3> QED
            BY <3>1, <3>2, Zenon
    <2> QED
        BY <2>3, <2>4, <2>6, <2>7, Zenon DEF WaitersAreFiled
<1> QED
    BY <1>4, <1>5, <1>6, <1>7, <1>8, Zenon
-----------------------------------------------------------------------------
(* A lock as its constructor leaves it satisfies the invariant.             *)
LEMMA InitIInv == Init => IInv /\ Entries = {}
<1> SUFFICES ASSUME Init PROVE IInv /\ Entries = {}
    BY Zenon
<1>1. TypeOK
    <2>1. 0 \in 0..MaxLocks
        BY RwAssumption
    <2>2. is_read_ \in BOOLEAN /\ fatal \in BOOLEAN
        BY Zenon DEF Init
    <2>3. /\ rep_ \in Nat /\ order_ \in Seq(Roots) /\ block_count_ \in [Tasks -> Int]
          /\ calls \in [Tasks -> 0..MaxLocks] /\ want \in [Tasks -> {"r", "w"}]
          /\ co \in [Tasks -> {"run", "yielding", "parked"}]
        BY <2>1 DEF Init
    <2>4. root_ \in Roots \cup {NoRoot} /\ writer_map_ \in [Roots -> SUBSET Tasks]
        BY Zenon DEF Init
    <2>5. scopes \in SUBSET Handles /\ reader_set_ \in SUBSET Tasks /\ ready \in SUBSET Tasks
        BY Zenon DEF Init
    <2> QED
        BY <2>2, <2>3, <2>4, <2>5, Zenon DEF TypeOK
<1>2. TasksInv
    BY Zenon DEF Init, TasksInv
<1>3. Granted = {} /\ Waiting = {}
    BY Zenon DEF Init, Granted, Waiting
<1>4. Entries = {}
    BY <1>3, Zenon DEF Init, Entries
<1>5. KindInv /\ RepCountsEntries
    BY <1>4, FS_EmptySet, Zenon DEF Init, KindInv, RepCountsEntries
<1>6. WaitersAreFiled
    BY <1>3 DEF Init, WaitersAreFiled
<1> QED
    BY <1>1, <1>2, <1>4, <1>5, <1>6, Zenon DEF IInv

(* What the abstract lock sees as the group of an entry.                    *)
GroupOf(h) == IF h[3] = "r" THEN NoRoot ELSE RootOf[h[1]]

(* Entries inside together are of one group.                                *)
LEMMA OneGroup ==
    ASSUME IInv
    PROVE  /\ Entries \subseteq Handles
           /\ \A g, k \in Entries : GroupOf(g) = GroupOf(k)
<1>1. Entries \subseteq Handles
    BY EntriesFinite, Zenon DEF IInv
<1>2. CASE is_read_
    BY <1>1, <1>2, Zenon DEF IInv, RepCountsEntries, GroupOf
<1>3. CASE ~is_read_
    BY <1>1, <1>3, Zenon DEF IInv, RepCountsEntries, GroupOf
<1> QED
    BY <1>1, <1>2, <1>3, Zenon

(* A call that enters is the abstract lock's Acquire.                       *)
LEMMA EnterAcquires ==
    ASSUME IInv, NEW t \in Tasks, NEW m \in {"r", "w"}, BeginCall(t, m), Enter(t, m),
           \/ m = "r" /\ CanRead /\ is_read_' = TRUE /\ root_' = root_
           \/ m = "w" /\ CanWrite(t) /\ is_read_' = is_read_ /\ root_' = RootOf[t]
    PROVE  IInv' /\ Abstract!Next
<1> DEFINE e == <<t, calls[t] + 1, m>>
<1>1. IInv' /\ e \in Handles \ Entries /\ Entries' = Entries \cup {e}
    BY EnterKeepsIInv, Zenon
<1>2. (Entries \subseteq Handles /\ \A g, k \in Entries : GroupOf(g) = GroupOf(k))'
    BY <1>1, OneGroup, PTL
<1>3. \A g \in Entries : g \in Handles /\ GroupOf(g) = GroupOf(e)
    BY <1>1, <1>2, Zenon DEF GroupOf
<1>4. Abstract!Acquire(e)
    BY <1>1, <1>3, Zenon DEF Abstract!Acquire, GroupOf
<1> QED
    BY <1>1, <1>4, Zenon DEF Abstract!Next

(* A hand-over is the abstract lock's Pass.                                 *)
LEMMA HandOverPasses ==
    ASSUME IInv', NEW e \in Handles, Entries = {e}, Entries' # {}, e \notin Entries'
    PROVE  Abstract!Next
<1>1. (Entries \subseteq Handles /\ \A g, k \in Entries : GroupOf(g) = GroupOf(k))'
    BY OneGroup, PTL
<1>2. Abstract!Pass(e)
    BY <1>1, Zenon DEF Abstract!Pass, GroupOf
<1> QED
    BY <1>2, Zenon DEF Abstract!Next

(* Every unlock keeps the invariant and is a step of the abstract lock.     *)
LEMMA UnlockKeepsIInv ==
    ASSUME IInv, NEW t \in Tasks, Unlock(t)
    PROVE  IInv' /\ Abstract!Next
<1> PICK m \in {"r", "w"} :
        /\ EndScope(t, m)
        /\ Leave \/ (m = "r" /\ LastReader) \/ (m = "w" /\ LastWriter)
    BY Zenon DEF Unlock, ReadUnlock, WriteUnlock
<1> DEFINE e == <<t, calls[t], m>>
<1>1. e \in Handles /\ e \in Entries
    BY UnlockedEntry, EntriesFinite, Zenon DEF IInv
<1>2. is_read_ <=> m = "r"
    BY UnlockedEntry, Zenon
<1>3. CASE Leave \/ (rep_ = 1 /\ order_ = <<>> /\ reader_set_ = {} /\ Free /\ is_read_' = FALSE)
    <2>1. IInv' /\ Entries' = Entries \ {e}
        BY <1>3, LeaveOrFreeKeepsIInv, Zenon
    <2>2. Abstract!Release(e)
        BY <1>1, <2>1, Zenon DEF Abstract!Release
    <2> QED
        BY <1>1, <2>1, <2>2, Zenon DEF Abstract!Next
<1>4. CASE rep_ = 1 /\ is_read_' = FALSE /\ PassToWriters
    <2>1. IInv' /\ Entries = {e} /\ Entries' # {} /\ e \notin Entries'
        BY <1>4, PassToWritersKeepsIInv, Zenon
    <2> QED
        BY <1>1, <2>1, HandOverPasses, Zenon
<1>5. CASE rep_ = 1 /\ order_ = <<>> /\ reader_set_ # {} /\ PassToReaders
    <2>1. IInv' /\ Entries = {e} /\ Entries' # {} /\ e \notin Entries'
        BY <1>5, PassToReadersKeepsIInv, Zenon
    <2> QED
        BY <1>1, <2>1, HandOverPasses
<1>6. CASE m = "r" /\ LastReader
    <2>1. reader_set_ = {}
        BY <1>2, <1>6, Zenon DEF IInv, KindInv
    <2> QED
        BY <1>3, <1>4, <1>6, <2>1, Zenon DEF LastReader
<1>7. CASE m = "w" /\ LastWriter
    <2>1. is_read_ = FALSE
        BY <1>2, <1>7, Zenon DEF IInv, TypeOK
    <2> QED
        BY <1>3, <1>4, <1>5, <1>7, <2>1, Zenon DEF LastWriter
<1> QED
    BY <1>3, <1>6, <1>7, Zenon

(* Every step keeps the invariant and is a step of the abstract lock.       *)
LEMMA StepKeepsIInv ==
    ASSUME IInv, [Next]_vars
    PROVE  IInv' /\ [Abstract!Next]_Entries
<1>1. ASSUME NEW t \in Tasks, BeginCall(t, "r"), ReadEnter(t)
      PROVE  IInv' /\ [Abstract!Next]_Entries
    BY <1>1, EnterAcquires, Zenon DEF ReadEnter
<1>2. ASSUME NEW t \in Tasks, ReadLock(t)
      PROVE  IInv' /\ [Abstract!Next]_Entries
    <2>1. CASE Fatal
        BY <1>2, <2>1, FatalKeepsIInv, Zenon DEF ReadLock
    <2>2. CASE /\ ~CanRead /\ SetBlocked(t) /\ reader_set_' = reader_set_ \cup {t}
               /\ UNCHANGED <<order_, writer_map_, fatal>>
        BY <1>2, <2>2, BlockReaderKeepsIInv, Zenon DEF ReadLock
    <2> QED
        BY <1>1, <1>2, <2>1, <2>2, Zenon DEF ReadLock
<1>3. ASSUME NEW t \in Tasks, WriteLock(t)
      PROVE  IInv' /\ [Abstract!Next]_Entries
    <2>1. CASE CanWrite(t)
        BY <1>3, <2>1, EnterAcquires, Zenon DEF WriteLock
    <2>2. CASE ~CanWrite(t)
        BY <1>3, <2>2, BlockWriterKeepsIInv, Zenon DEF WriteLock
    <2> QED
        BY <2>1, <2>2, Zenon
<1>4. ASSUME NEW t \in Tasks, Yield(t) \/ Resume(t) \/ Unlock(t) \/ TryReadLock(t)
      PROVE  IInv' /\ [Abstract!Next]_Entries
    BY <1>1, <1>4, YieldKeepsIInv, ResumeKeepsIInv, UnlockKeepsIInv, Zenon DEF TryReadLock
<1>5. ASSUME UNCHANGED vars
      PROVE  IInv' /\ [Abstract!Next]_Entries
    <2>1. Granted' = Granted /\ Waiting' = Waiting
        BY <1>5, Zenon DEF vars, Granted, Waiting
    <2>2. Entries' = Entries
        BY <1>5, <2>1, Zenon DEF vars, Entries
    <2>3. TypeOK'
        BY <1>5, Zenon DEF vars, lock, IInv, TypeOK
    <2>4. TasksInv'
        BY <1>5, Zenon DEF vars, IInv, TasksInv
    <2>5. KindInv' /\ RepCountsEntries'
        BY <1>5, <2>2, Zenon DEF vars, lock, IInv, KindInv, RepCountsEntries
    <2>6. WaitersAreFiled'
        BY <1>5, <2>1, StillFiled, Zenon DEF vars, lock, IInv
    <2> QED
        BY <2>2, <2>3, <2>4, <2>5, <2>6, Zenon DEF IInv
<1> QED
    BY <1>2, <1>3, <1>4, <1>5, Zenon DEF Next, TaskStep

(* The inductive invariant holds in every reachable state.                  *)
THEOREM AlwaysIInv == Spec => []IInv
<1>1. IInv /\ [Next]_vars => IInv'
    BY StepKeepsIInv, Zenon
<1> QED
    BY <1>1, InitIInv, PTL DEF Spec

(* Readers and writers, and writers of two trees, are never inside          *)
(* together.                                                                *)
THEOREM Exclusion == Spec => []ReadWriteExclusion
<1>1. IInv => ReadWriteExclusion
    BY Zenon DEF IInv, RepCountsEntries, ReadWriteExclusion, Entries
<1> QED
    BY <1>1, AlwaysIInv, PTL

(* rep_ always counts the entries that will each unlock once, and is_read_  *)
(* and root_ tell their kind.                                               *)
THEOREM CountIsExact == Spec => []RepCountsEntries
<1>1. IInv => RepCountsEntries
    BY Zenon DEF IInv
<1> QED
    BY <1>1, AlwaysIInv, PTL

(* Every waiting task is filed once, among the readers or under its tree.   *)
THEOREM WaitersFiled == Spec => []WaitersAreFiled
<1>1. IInv => WaitersAreFiled
    BY Zenon DEF IInv
<1> QED
    BY <1>1, AlwaysIInv, PTL

(* ReadUnlock may free the lock without a look at reader_set_, and the lock *)
(* is never free while a task waits for it.                                 *)
THEOREM NoneForgotten == Spec => []NobodyForgotten
<1>1. ASSUME IInv, rep_ = 0, NEW t \in Waiting
      PROVE  FALSE
    <2>1. order_ = <<>> /\ reader_set_ = {}
        BY <1>1, Zenon DEF IInv, KindInv
    <2>2. RootOf[t] \in Roots /\ want[t] \in {"r", "w"}
        BY <1>1, RwAssumption, Zenon DEF IInv, TypeOK, Waiting
    <2>3. t \in reader_set_ \/ t \in writer_map_[RootOf[t]]
        BY <1>1, <2>2 DEF IInv, WaitersAreFiled
    <2> QED
        BY <1>1, <2>1, <2>2, <2>3 DEF IInv, WaitersAreFiled
<1>2. IInv => NobodyForgotten
    BY <1>1, Zenon DEF IInv, KindInv, NobodyForgotten
<1> QED
    BY <1>2, AlwaysIInv, PTL

(* WriteLock's check for the caller's own read lock never fires, since      *)
(* readers leave root_ null.                                                *)
THEOREM UpgradeCheckIsDead == Spec => []ReadersClearRoot
<1>1. IInv => ReadersClearRoot
    BY Zenon DEF IInv, KindInv, ReadersClearRoot
<1> QED
    BY <1>1, AlwaysIInv, PTL

(* CoRwLock implements the abstract lock of module GroupLock.               *)
THEOREM Refinement == Spec => ImplementsGroupLock
<1>1. Init => Abstract!Init
    BY InitIInv, Zenon DEF Abstract!Init
<1>2. IInv /\ [Next]_vars => [Abstract!Next]_Entries
    BY StepKeepsIInv, Zenon
<1> QED
    BY <1>1, <1>2, AlwaysIInv, PTL DEF Spec, ImplementsGroupLock, Abstract!Spec
=============================================================================
