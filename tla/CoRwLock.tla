----------------------------- MODULE CoRwLock -----------------------------
(***************************************************************************)
(* The coroutine reader-writer lock of corwlock.h / corwlock.cc, which     *)
(* serialises module upgrades.  Readers share the lock; writers of one     *)
(* task tree share it too.  root_ is set by writers only.  The last reader *)
(* hands the lock to the first waiting tree of writers; the last writer to *)
(* the next tree of writers, or else to all waiting readers at once.       *)
(*                                                                          *)
(* Every method runs under the spin mutex mux_ and is one step; the two     *)
(* blocking methods release mux_ before they yield.  HELOG(kFatal) ends     *)
(* the process: no step follows it.                                         *)
(***************************************************************************)
EXTENDS Integers, Sequences, FiniteSets

CONSTANTS
    Tasks,      \* tasks that use the lock
    Roots,      \* the task trees
    RootOf,     \* task_node_.root_ of each task
    NoRoot,     \* TaskId::GetNull()
    Modes,      \* per task the modes it asks for, a set of "r" and "w"
    MaxLocks    \* bound: entries of one task at a time

ASSUME RwAssumption ==
    /\ IsFiniteSet(Tasks)
    /\ RootOf \in [Tasks -> Roots]
    /\ NoRoot \notin Roots
    /\ Modes \in [Tasks -> SUBSET {"r", "w"}]
    /\ MaxLocks \in Nat

VARIABLES
    root_,        \* the tree of the writers inside
    rep_,         \* number of entries
    is_read_,     \* whether the entries are readers
    order_,       \* trees of waiting writers, first come first
    writer_map_,  \* per tree the writers that wait; {} when the key is absent
    reader_set_,  \* the readers that wait
    fatal,        \* HELOG(kFatal) was reached
    block_count_, \* rctx_.block_count_ of each task
    co,           \* each task's coroutine: "run", "yielding" or "parked"
    want,         \* mode of each task's last call
    ready,        \* tasks that SignalUnblock has pushed back to their lane
    calls,        \* per task: entries it has or waits for
    scopes        \* <<task, call, mode>> of the entries inside the lock

lock == <<root_, rep_, is_read_, order_, writer_map_, reader_set_>>
vars == <<lock, fatal, block_count_, co, want, ready, calls, scopes>>

Init ==
    /\ root_ = NoRoot
    /\ rep_ = 0
    /\ is_read_ = FALSE
    /\ order_ = <<>>
    /\ writer_map_ = [r \in Roots |-> {}]
    /\ reader_set_ = {}
    /\ fatal = FALSE
    /\ block_count_ = [t \in Tasks |-> 0]
    /\ co = [t \in Tasks |-> "run"]
    /\ want = [t \in Tasks |-> "r"]
    /\ ready = {}
    /\ calls = [t \in Tasks |-> 0]
    /\ scopes = {}
-----------------------------------------------------------------------------
(* A task calls one of the locking methods in mode m.                       *)
BeginCall(t, m) ==
    /\ co[t] = "run"
    /\ m \in Modes[t]
    /\ calls[t] < MaxLocks
    /\ calls' = [calls EXCEPT ![t] = @ + 1]
    /\ want' = [want EXCEPT ![t] = m]

Enter(t, m) ==
    /\ rep_' = rep_ + 1
    /\ scopes' = scopes \cup {<<t, calls[t] + 1, m>>}
    /\ UNCHANGED <<order_, writer_map_, reader_set_, fatal, block_count_, co, ready>>

(* SetBlocked(1), and the coroutine is on its way to Yield.  The count is   *)
(* shared with subtask signals; UpgradeModule, the only caller, takes the   *)
(* lock before it spawns any task.                                          *)
SetBlocked(t) ==
    /\ block_count_' = [block_count_ EXCEPT ![t] = @ + 1]
    /\ co' = [co EXCEPT ![t] = "yielding"]
    /\ UNCHANGED <<root_, rep_, is_read_, ready, scopes>>

Fatal ==
    /\ fatal' = TRUE
    /\ UNCHANGED <<lock, block_count_, co, ready, scopes>>

(* Faulty variant of CanRead: it asks for waiting writers, not for writers  *)
(* inside.                                                                  *)
CanReadUnlessWaiting == order_ = <<>>

CanRead == rep_ = 0 \/ is_read_

(* TryReadLock, and ReadLock when no writer is inside.                      *)
ReadEnter(t) ==
    /\ CanRead
    /\ is_read_' = TRUE
    /\ UNCHANGED root_
    /\ Enter(t, "r")

TryReadLock(t) == BeginCall(t, "r") /\ ReadEnter(t)

ReadLock(t) ==
    /\ BeginCall(t, "r")
    /\ \/ ReadEnter(t)
       \/ /\ ~CanRead
          /\ root_ = RootOf[t]
          /\ Fatal
       \/ /\ ~CanRead
          /\ root_ # RootOf[t]
          /\ SetBlocked(t)
          /\ reader_set_' = reader_set_ \cup {t}
          /\ UNCHANGED <<order_, writer_map_, fatal>>

CanWrite(t) == ~is_read_ /\ (rep_ = 0 \/ root_ = RootOf[t])

(* The code's third branch, HELOG(kFatal) when is_read_ and root_ is the    *)
(* caller's tree, is enabled in no state: readers leave root_ null          *)
(* (ReadersClearRoot), so a reader that asks to write blocks.               *)
WriteLock(t) ==
    /\ BeginCall(t, "w")
    /\ \/ /\ CanWrite(t)
          /\ root_' = RootOf[t]
          /\ UNCHANGED is_read_
          /\ Enter(t, "w")
       \/ /\ ~CanWrite(t)
          /\ ~(is_read_ /\ root_ = RootOf[t])
          /\ SetBlocked(t)
          /\ order_' = IF writer_map_[RootOf[t]] = {}
                       THEN Append(order_, RootOf[t]) ELSE order_
          /\ writer_map_' = [writer_map_ EXCEPT ![RootOf[t]] = @ \cup {t}]
          /\ UNCHANGED <<reader_set_, fatal>>

(* The coroutine reaches Yield; RunTask clears the blocked flags and drops  *)
(* the task from its lane.                                                  *)
Yield(t) ==
    /\ co[t] = "yielding"
    /\ co' = [co EXCEPT ![t] = "parked"]
    /\ UNCHANGED <<lock, fatal, block_count_, want, ready, calls, scopes>>

SignalUnblock(W) ==
    /\ block_count_' = [t \in Tasks |-> IF t \in W THEN block_count_[t] - 1
                                        ELSE block_count_[t]]
    /\ ready' = ready \cup {t \in W : block_count_[t] = 1}

(* --rep_ is not zero.                                                      *)
Leave ==
    /\ rep_ # 1
    /\ rep_' = rep_ - 1
    /\ UNCHANGED <<root_, is_read_, order_, writer_map_, reader_set_,
                   block_count_, ready>>

(* Faulty variant of PassToWriters: the tree's key stays in writer_map_.    *)
PassToWritersKeepsKey ==
    /\ order_ # <<>>
    /\ root_' = Head(order_)
    /\ rep_' = Cardinality(writer_map_[Head(order_)])
    /\ SignalUnblock(writer_map_[Head(order_)])
    /\ order_' = Tail(order_)
    /\ UNCHANGED <<writer_map_, reader_set_>>

(* The lock goes to the first waiting tree of writers.                      *)
PassToWriters ==
    /\ order_ # <<>>
    /\ LET next == Head(order_) IN
        /\ root_' = next
        /\ rep_' = Cardinality(writer_map_[next])
        /\ SignalUnblock(writer_map_[next])
        /\ writer_map_' = [writer_map_ EXCEPT ![next] = {}]
    /\ order_' = Tail(order_)
    /\ UNCHANGED reader_set_

(* Nobody the caller would hand over to: the lock becomes free.             *)
Free ==
    /\ rep_' = 0
    /\ root_' = NoRoot
    /\ UNCHANGED <<order_, writer_map_, reader_set_, block_count_, ready>>

(* Faulty variant of LastReader: any reader that leaves passes the lock on. *)
AnyReaderPasses ==
    /\ is_read_' = FALSE
    /\ PassToWriters \/ (rep_ = 1 /\ order_ = <<>> /\ Free)

(* The last reader does not look at reader_set_.                            *)
LastReader ==
    /\ rep_ = 1
    /\ is_read_' = FALSE
    /\ PassToWriters \/ (order_ = <<>> /\ Free)

(* Faulty variant of PassToReaders: only one reader is counted.             *)
PassToReadersCountsOne ==
    /\ is_read_' = TRUE
    /\ root_' = NoRoot
    /\ rep_' = 1
    /\ SignalUnblock(reader_set_)
    /\ reader_set_' = {}
    /\ UNCHANGED <<order_, writer_map_>>

(* The last writer's tree lets all waiting readers in.                      *)
PassToReaders ==
    /\ is_read_' = TRUE
    /\ root_' = NoRoot
    /\ rep_' = Cardinality(reader_set_)
    /\ SignalUnblock(reader_set_)
    /\ reader_set_' = {}
    /\ UNCHANGED <<order_, writer_map_>>

(* Faulty variant of LastWriter: like LastReader, no look at reader_set_.   *)
LastWriterForgetsReaders ==
    /\ rep_ = 1
    /\ PassToWriters \/ (order_ = <<>> /\ Free)
    /\ UNCHANGED is_read_

LastWriter ==
    /\ rep_ = 1
    /\ \/ PassToWriters /\ UNCHANGED is_read_
       \/ order_ = <<>> /\ reader_set_ # {} /\ PassToReaders
       \/ order_ = <<>> /\ reader_set_ = {} /\ Free /\ UNCHANGED is_read_

(* The task leaves the entry it made last.  The unlocking methods do not    *)
(* say which, so any other of its entries would do as well.                 *)
EndScope(t, m) ==
    /\ co[t] = "run"
    /\ <<t, calls[t], m>> \in scopes
    /\ scopes' = scopes \ {<<t, calls[t], m>>}
    /\ calls' = [calls EXCEPT ![t] = @ - 1]
    /\ UNCHANGED <<fatal, co, want>>

ReadUnlock(t) == EndScope(t, "r") /\ (Leave \/ LastReader)

WriteUnlock(t) == EndScope(t, "w") /\ (Leave \/ LastWriter)

(* The worker pops the task again and the locking method returns.           *)
Resume(t) ==
    /\ co[t] = "parked"
    /\ t \in ready
    /\ block_count_[t] <= 0
    /\ co' = [co EXCEPT ![t] = "run"]
    /\ ready' = ready \ {t}
    /\ scopes' = scopes \cup {<<t, calls[t], want[t]>>}
    /\ UNCHANGED <<lock, fatal, block_count_, want, calls>>

Unlock(t) == ReadUnlock(t) \/ WriteUnlock(t)

TaskStep(t) ==
    \/ ReadLock(t)
    \/ TryReadLock(t)
    \/ WriteLock(t)
    \/ Yield(t)
    \/ Resume(t)
    \/ Unlock(t)

Next == ~fatal /\ \E t \in Tasks : TaskStep(t)

Spec == Init /\ [][Next]_vars

(* Workers keep polling and a scoped lock is left when its method returns.  *)
Fairness ==
    \A t \in Tasks :
        /\ WF_vars(~fatal /\ Yield(t))
        /\ WF_vars(~fatal /\ Resume(t))
        /\ WF_vars(~fatal /\ Unlock(t))

FairSpec == Spec /\ Fairness
-----------------------------------------------------------------------------
(* Tasks that have been handed the lock and have not returned yet.          *)
Granted == {t \in Tasks : co[t] # "run" /\ block_count_[t] = 0}

(* Tasks that called a locking method and still wait for a hand-over.       *)
Waiting == {t \in Tasks : co[t] # "run" /\ block_count_[t] > 0}

(* Every entry that rep_ counts.                                            *)
Entries == scopes \cup {<<t, calls[t], want[t]>> : t \in Granted}

Handles == Tasks \X (1..MaxLocks) \X {"r", "w"}

TypeOK ==
    /\ root_ \in Roots \cup {NoRoot}
    /\ rep_ \in Nat
    /\ is_read_ \in BOOLEAN
    /\ order_ \in Seq(Roots)
    /\ writer_map_ \in [Roots -> SUBSET Tasks]
    /\ reader_set_ \in SUBSET Tasks
    /\ fatal \in BOOLEAN
    /\ block_count_ \in [Tasks -> Int]
    /\ co \in [Tasks -> {"run", "yielding", "parked"}]
    /\ want \in [Tasks -> {"r", "w"}]
    /\ ready \in SUBSET Tasks
    /\ calls \in [Tasks -> 0..MaxLocks]
    /\ scopes \in SUBSET Handles

(* A reader and a writer are never inside together, and two writers inside  *)
(* belong to one tree, however the calls of the tasks interleave.           *)
ReadWriteExclusion ==
    \A e, f \in scopes :
        /\ e[3] = f[3]
        /\ e[3] = "w" => RootOf[e[1]] = RootOf[f[1]]

(* rep_ is the number of entries that will each unlock once, and is_read_   *)
(* and root_ say which kind they are.                                       *)
RepCountsEntries ==
    /\ rep_ = Cardinality(Entries)
    /\ \A e \in Entries : IF is_read_ THEN e[3] = "r"
                          ELSE e[3] = "w" /\ root_ = RootOf[e[1]]

(* A waiting task is filed once, in the place its mode calls for, and the   *)
(* order_ of the writers' trees has each waiting tree exactly once.         *)
WaitersAreFiled ==
    /\ reader_set_ = {t \in Waiting : want[t] = "r"}
    /\ \A r \in Roots :
        /\ writer_map_[r] = {t \in Waiting : want[t] = "w" /\ RootOf[t] = r}
        /\ writer_map_[r] # {} <=> \E i \in 1..Len(order_) : order_[i] = r
    /\ \A i, j \in 1..Len(order_) : order_[i] = order_[j] => i = j

(* ReadUnlock frees the lock without a look at reader_set_.  That loses no  *)
(* reader only because no reader waits while readers are inside; and the    *)
(* lock is never free while anybody waits.                                  *)
NobodyForgotten ==
    /\ is_read_ => reader_set_ = {}
    /\ rep_ = 0 => Waiting = {}

(* root_ is null while readers are inside, so the check of WriteLock for a  *)
(* write request under the caller's own read lock never fires.              *)
ReadersClearRoot == is_read_ => root_ = NoRoot

(* corwlock.cc:74-75 reports a write request made under the caller's own    *)
(* read lock as fatal: no task that is inside as a reader is left waiting   *)
(* as a writer.                                                             *)
UpgradeIsReported ==
    \A t \in Waiting : want[t] = "w" => \A s \in scopes : s[1] # t

(* A call that blocked comes back with the lock, however often the tasks    *)
(* come again, unless the runtime dies of a fatal error or the other side   *)
(* is inside without a break from some point on.  For a writer the other    *)
(* side is the readers, which enter past waiting writers, or one other tree *)
(* of writers; for a reader it is the writers, whom WriteUnlock prefers     *)
(* (ReadLock, WriteLock, ReadUnlock, WriteUnlock).                          *)
LockReturns ==
    \A t \in Tasks :
        /\ co[t] = "yielding" /\ want[t] = "w" ~>
                \/ co[t] = "run" \/ fatal
                \/ [](rep_ > 0 /\ is_read_)
                \/ \E r \in Roots \ {RootOf[t]} : [](root_ = r)
        /\ co[t] = "yielding" /\ want[t] = "r" ~>
                \/ co[t] = "run" \/ fatal
                \/ [](rep_ > 0 /\ ~is_read_)

(* What the lock promises: module GroupLock, where all readers form one     *)
(* group and the writers of a tree another.                                 *)
Abstract == INSTANCE GroupLock WITH held <- Entries,
                Group <- [h \in Handles |-> IF h[3] = "r" THEN NoRoot
                                            ELSE RootOf[h[1]]]

(* The lock implements the abstract lock.                                   *)
ImplementsGroupLock == Abstract!Spec
=============================================================================
