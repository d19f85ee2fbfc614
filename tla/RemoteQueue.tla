---------------------------- MODULE RemoteQueue ----------------------------
(***************************************************************************)
(* The remote queue module (remote_queue_runtime.cc): how a task reaches    *)
(* the containers of other nodes and how its results come back.             *)
(*                                                                          *)
(* A submit task (ClientPushSubmit) blocks once for each target and leaves  *)
(* one entry for each in submit_: the task itself for a single target       *)
(* (Direct), a copy for each of several (Replicate).  On every node one     *)
(* lane runs ClientSubmit and ServerComplete in turn, called the agent      *)
(* here.  Each empties its queue and makes one synchronous call to each     *)
(* peer; the calls are handled by the peer's RPC threads.  A failed call    *)
(* ends the process (rpc_thallium.h, IoCall), so a node that fails takes    *)
(* down the nodes that call it.                                             *)
(*                                                                          *)
(* Left out: a task with TASK_LONG_RUNNING, which is sent again instead of  *)
(* completed; a domain that resolves to nothing; and the catch clauses,     *)
(* which the network's own exceptions do not reach.                         *)
(***************************************************************************)
EXTENDS Integers, Sequences, FiniteSets

CONSTANTS
    Nodes,
    Tasks,          \* tasks that PushRemoteTask hands to the remote queue
    NodeOf,         \* per task: its node
    Domains,        \* the values of ResolvedDomainQuery: a container, a range of them
    node_,          \* per resolved domain: its node, of which it need not be the only one
    Targets,        \* per task: what ResolveDomainQuery makes of its dom_query_
    Flushes,        \* tasks with TASK_FLUSH
    Null,
    MaxCrashes      \* bound: nodes that fail by themselves

ASSUME RemoteAssumption ==
    /\ NodeOf \in [Tasks -> Nodes]
    /\ node_ \in [Domains -> Nodes]
    /\ Targets \in [Tasks -> (SUBSET Domains) \ {{}}]
    /\ IsFiniteSet(Nodes) /\ IsFiniteSet(Tasks) /\ IsFiniteSet(Domains)
    /\ Flushes \subseteq Tasks
    /\ Null \notin Nodes \cup Tasks \cup (Tasks \X Domains)
    /\ MaxCrashes \in Nat

(* What is sent: the task for one of its targets.                           *)
Replicas == UNION {{t} \X Targets[t] : t \in Tasks}
Source(r) == NodeOf[r[1]]
Dest(r) == node_[r[2]]
ReplicasOf(t) == {t} \X Targets[t]

VARIABLES
    st,             \* per task: where its submit task is
    todo,           \* per task: targets without an entry in submit_ yet
    block_count_,   \* per task: block_count_ of its submit task
    woken,          \* tasks whose submit task SignalUnblock has pushed
    submit_,        \* per node
    complete_,      \* per node
    pending_,       \* per node
    agent,          \* per node: "idle", "submit" or "complete"
    batch,          \* per node: entries that the agent has still to send
    call,           \* per node: entries of the RPC that the agent waits for
    peer,           \* per node: the node it calls
    phase,          \* per node: how far that RPC is
    unblocked,      \* per node: entry that the handler of its RPC has signalled
    inbox,          \* replicas scheduled on their targets
    ran,            \* replicas that ran
    loaded,         \* replicas whose results are back
    freed,          \* replicas whose memory at the source was freed
    stale,          \* whether IsFlush has read freed memory
    crashes,        \* nodes that failed by themselves so far
    down            \* nodes that are gone

submitter == <<st, todo, block_count_, woken, freed>>
queues == <<submit_, complete_>>
rpc == <<agent, batch, call, peer, phase, unblocked>>
remote == <<inbox, ran, loaded>>
vars == <<submitter, queues, pending_, stale, rpc, remote, crashes, down>>

Init ==
    /\ st = [t \in Tasks |-> "new"]
    /\ todo = [t \in Tasks |-> {}]
    /\ block_count_ = [t \in Tasks |-> 0]
    /\ woken = {}
    /\ submit_ = [n \in Nodes |-> <<>>]
    /\ complete_ = [n \in Nodes |-> <<>>]
    /\ pending_ = [n \in Nodes |-> 0]
    /\ agent = [n \in Nodes |-> "idle"]
    /\ batch = [n \in Nodes |-> {}]
    /\ call = [n \in Nodes |-> {}]
    /\ peer = [n \in Nodes |-> Null]
    /\ phase = [n \in Nodes |-> "none"]
    /\ unblocked = [n \in Nodes |-> Null]
    /\ inbox = {}
    /\ ran = {}
    /\ loaded = {}
    /\ freed = {}
    /\ stale = FALSE
    /\ crashes = 0
    /\ down = {}
-----------------------------------------------------------------------------
(* The submit task on the node of the original task.                        *)

(* Faulty variants of BlocksFor: one block, or one too many.                *)
BlocksForOne(t) == 1
BlocksForOneMore(t) == Cardinality(Targets[t]) + 1

(* Direct blocks once, Replicate once for each replica.                     *)
BlocksFor(t) == Cardinality(Targets[t])

(* ClientPushSubmit starts, and registers the block.                        *)
ClientPushSubmit(t) ==
    /\ st[t] = "new"
    /\ NodeOf[t] \notin down
    /\ st' = [st EXCEPT ![t] = "pushing"]
    /\ todo' = [todo EXCEPT ![t] = Targets[t]]
    /\ block_count_' = [block_count_ EXCEPT ![t] = @ + BlocksFor(t)]
    /\ UNCHANGED <<woken, freed, queues, pending_, rpc, remote, stale, crashes, down>>

(* One entry joins submit_.                                                 *)
Emplace(t, d) ==
    /\ st[t] = "pushing"
    /\ NodeOf[t] \notin down
    /\ d \in todo[t]
    /\ todo' = [todo EXCEPT ![t] = @ \ {d}]
    /\ submit_' = [submit_ EXCEPT ![NodeOf[t]] = Append(@, <<t, d>>)]
    /\ UNCHANGED <<st, block_count_, woken, freed, complete_, pending_, rpc, remote,
                   stale, crashes, down>>

(* "Actually block".                                                        *)
Yield(t) ==
    /\ st[t] = "pushing"
    /\ NodeOf[t] \notin down
    /\ todo[t] = {}
    /\ st' = [st EXCEPT ![t] = "parked"]
    /\ UNCHANGED <<todo, block_count_, woken, freed, queues, pending_, rpc, remote,
                   stale, crashes, down>>

(* A worker resumes the submit task.  Replicate combines the replicas into  *)
(* the original task and frees them.                                        *)
Resume(t) ==
    /\ st[t] = "parked"
    /\ NodeOf[t] \notin down
    /\ t \in woken
    /\ st' = [st EXCEPT ![t] = "back"]
    /\ freed' = IF Cardinality(Targets[t]) > 1 THEN freed \cup ReplicasOf(t) ELSE freed
    /\ UNCHANGED <<todo, block_count_, woken, queues, pending_, rpc, remote, stale, crashes, down>>

(* The original task is pushed with TASK_TRIGGER_COMPLETE, and ends.        *)
PushCompletedTask(t) ==
    /\ st[t] = "back"
    /\ NodeOf[t] \notin down
    /\ st' = [st EXCEPT ![t] = "complete"]
    /\ UNCHANGED <<todo, block_count_, woken, freed, queues, pending_, rpc, remote,
                   stale, crashes, down>>

(* Whoever waited for the original task deletes it.  Direct has sent the    *)
(* original task itself.                                                    *)
DelTask(t) ==
    /\ st[t] = "complete"
    /\ NodeOf[t] \notin down
    /\ st' = [st EXCEPT ![t] = "deleted"]
    /\ freed' = freed \cup ReplicasOf(t)
    /\ UNCHANGED <<todo, block_count_, woken, queues, pending_, rpc, remote, stale, crashes, down>>
-----------------------------------------------------------------------------
(* The agent of node n.                                                     *)

Entries(queue) == {queue[i] : i \in 1..Len(queue)}

(* Faulty variant of Counted: flush tasks count.                            *)
CountedAll(S) == Cardinality(S)

(* How many of the entries S pending_ counts.                               *)
Counted(S) == Cardinality({r \in S : r[1] \notin Flushes})

(* Faulty variant of Drained: the entries stay in the queue.                *)
DrainedNot(queue) == queue

(* The queue after the loop that pops until it is empty.                    *)
Drained(queue) == <<>>

(* ClientSubmit empties submit_.                                            *)
ClientSubmit(n) ==
    /\ n \notin down
    /\ agent[n] = "idle"
    /\ submit_[n] # <<>>
    /\ agent' = [agent EXCEPT ![n] = "submit"]
    /\ batch' = [batch EXCEPT ![n] = Entries(submit_[n])]
    /\ submit_' = [submit_ EXCEPT ![n] = Drained(@)]
    /\ pending_' = [pending_ EXCEPT ![n] = @ + Counted(Entries(submit_[n]))]
    /\ UNCHANGED <<submitter, complete_, call, peer, phase, unblocked, remote, stale, crashes, down>>

(* ServerComplete empties complete_.                                        *)
ServerComplete(n) ==
    /\ n \notin down
    /\ agent[n] = "idle"
    /\ complete_[n] # <<>>
    /\ agent' = [agent EXCEPT ![n] = "complete"]
    /\ batch' = [batch EXCEPT ![n] = Entries(complete_[n])]
    /\ complete_' = [complete_ EXCEPT ![n] = <<>>]
    /\ UNCHANGED <<submitter, submit_, pending_, call, peer, phase, unblocked, remote,
                   stale, crashes, down>>

(* The node that an entry of n's batch goes to.                             *)
Receiver(n, r) == IF agent[n] = "submit" THEN Dest(r) ELSE Source(r)

(* SyncIoCall to one of the nodes of the batch; their order is that of an   *)
(* unordered map.                                                           *)
SyncIoCall(n, m) ==
    /\ n \notin down
    /\ phase[n] = "none"
    /\ \E r \in batch[n] : Receiver(n, r) = m
    /\ call' = [call EXCEPT ![n] = {r \in batch[n] : Receiver(n, r) = m}]
    /\ batch' = [batch EXCEPT ![n] = {r \in @ : Receiver(n, r) # m}]
    /\ peer' = [peer EXCEPT ![n] = m]
    /\ phase' = [phase EXCEPT ![n] = "sent"]
    /\ UNCHANGED <<submitter, queues, pending_, agent, unblocked, remote, stale, crashes, down>>

(* The call has an answer.                                                  *)
Answered(n) ==
    /\ n \notin down
    /\ phase[n] = "answered"
    /\ peer[n] \notin down
    /\ phase' = [phase EXCEPT ![n] = "none"]
    /\ peer' = [peer EXCEPT ![n] = Null]
    /\ call' = [call EXCEPT ![n] = {}]
    /\ agent' = IF batch[n] = {} THEN [agent EXCEPT ![n] = "idle"] ELSE agent
    /\ UNCHANGED <<submitter, queues, pending_, batch, unblocked, remote, stale, crashes, down>>

(* Thallium fails on the call: the process exits.                           *)
CallFails(n) ==
    /\ n \notin down
    /\ phase[n] # "none"
    /\ peer[n] \in down
    /\ down' = down \cup {n}
    /\ UNCHANGED <<submitter, queues, pending_, rpc, remote, stale, crashes>>
-----------------------------------------------------------------------------
(* The RPC handlers of the node that n calls, on threads of their own.      *)

(* RpcTaskSubmit schedules every task of the message.                       *)
RpcTaskSubmit(n) ==
    /\ phase[n] = "sent"
    /\ agent[n] = "submit"
    /\ peer[n] \notin down
    /\ inbox' = inbox \cup call[n]
    /\ phase' = [phase EXCEPT ![n] = "answered"]
    /\ UNCHANGED <<submitter, queues, pending_, agent, batch, call, peer, unblocked, ran,
                   loaded, stale, crashes, down>>

(* Faulty variant of LoadEnd: the tasks are signalled without their results. *)
LoadNothing(n) == loaded

LoadEnd(n) == loaded \cup call[n]

(* RpcTaskComplete first reads the results of the whole message ...         *)
RpcTaskComplete(n) ==
    /\ phase[n] = "sent"
    /\ agent[n] = "complete"
    /\ peer[n] \notin down
    /\ loaded' = LoadEnd(n)
    /\ phase' = [phase EXCEPT ![n] = "loaded"]
    /\ UNCHANGED <<submitter, queues, pending_, agent, batch, call, peer, unblocked, inbox,
                   ran, stale, crashes, down>>

(* ... and then, for each of its tasks, signals the submit task ...         *)
SignalUnblock(n, r) ==
    /\ phase[n] = "loaded"
    /\ peer[n] \notin down
    /\ unblocked[n] = Null
    /\ r \in call[n]
    /\ unblocked' = [unblocked EXCEPT ![n] = r]
    /\ block_count_' = [block_count_ EXCEPT ![r[1]] = @ - 1]
    /\ woken' = IF block_count_[r[1]] = 1 THEN woken \cup {r[1]} ELSE woken
    /\ UNCHANGED <<st, todo, freed, queues, pending_, agent, batch, call, peer, phase, remote,
                   stale, crashes, down>>

(* What rep_task->IsFlush() may answer: anything, once the memory is freed. *)
IsFlush(r) == IF r \in freed THEN BOOLEAN ELSE {r[1] \in Flushes}

(* ... and asks the replica whether pending_ counts it.                     *)
CountOff(n) ==
    LET r == unblocked[n] IN
    /\ r # Null
    /\ peer[n] \notin down
    /\ \E flush \in IsFlush(r) :
        pending_' = [pending_ EXCEPT ![peer[n]] = @ - (IF flush THEN 0 ELSE 1)]
    /\ stale' = (stale \/ r \in freed)
    /\ call' = [call EXCEPT ![n] = @ \ {r}]
    /\ phase' = IF call[n] = {r} THEN [phase EXCEPT ![n] = "answered"] ELSE phase
    /\ unblocked' = [unblocked EXCEPT ![n] = Null]
    /\ UNCHANGED <<submitter, queues, agent, batch, peer, remote, crashes, down>>

(* The handler cannot fetch the data of a caller that is gone: its process  *)
(* ends as well.                                                            *)
IoCallServerWriteFails(n) ==
    /\ phase[n] = "sent"
    /\ n \in down
    /\ peer[n] \notin down
    /\ down' = down \cup {peer[n]}
    /\ UNCHANGED <<submitter, queues, pending_, rpc, remote, stale, crashes>>

(* A worker of the target runs the replica; EndTask calls                   *)
(* ServerPushComplete.                                                      *)
Execute(r) ==
    /\ r \in inbox
    /\ Dest(r) \notin down
    /\ inbox' = inbox \ {r}
    /\ ran' = ran \cup {r}
    /\ complete_' = [complete_ EXCEPT ![Dest(r)] = Append(@, r)]
    /\ UNCHANGED <<submitter, submit_, pending_, rpc, loaded, stale, crashes, down>>

(* A node fails by itself.                                                  *)
Crash(n) ==
    /\ n \notin down
    /\ crashes < MaxCrashes
    /\ crashes' = crashes + 1
    /\ down' = down \cup {n}
    /\ UNCHANGED <<submitter, queues, pending_, rpc, remote, stale>>

(* The system may stop when all is done, or when a node is gone.            *)
Quiet ==
    /\ \/ down # {}
       \/ /\ \A t \in Tasks : st[t] = "deleted"
          /\ \A n \in Nodes : agent[n] = "idle"
    /\ UNCHANGED vars

SubmitStep(t) ==
    \/ Yield(t) \/ Resume(t) \/ PushCompletedTask(t)
    \/ \E d \in Domains : Emplace(t, d)

AgentStep(n) ==
    \/ ClientSubmit(n) \/ ServerComplete(n) \/ Answered(n) \/ CallFails(n)
    \/ \E m \in Nodes : SyncIoCall(n, m)

HandlerStep(n) ==
    \/ RpcTaskSubmit(n) \/ RpcTaskComplete(n) \/ CountOff(n)
    \/ \E r \in Replicas : SignalUnblock(n, r)

Next ==
    \/ Quiet
    \/ \E t \in Tasks : ClientPushSubmit(t) \/ SubmitStep(t) \/ DelTask(t)
    \/ \E n \in Nodes :
        AgentStep(n) \/ HandlerStep(n) \/ IoCallServerWriteFails(n) \/ Crash(n)
    \/ \E r \in Replicas : Execute(r)

Spec == Init /\ [][Next]_vars

(* Workers, the agent and the RPC threads of a node that is up keep         *)
(* running.  Which of its two tasks the agent runs next is left open.       *)
(* Callers need not call or delete, nodes need not fail, and the message of *)
(* a caller that is gone need not arrive.                                   *)
Fairness ==
    /\ \A t \in Tasks : WF_vars(SubmitStep(t))
    /\ \A n \in Nodes :
        /\ WF_vars(AgentStep(n))
        /\ WF_vars(n \notin down /\ HandlerStep(n))
    /\ \A r \in Replicas : WF_vars(Execute(r))

FairSpec == Spec /\ Fairness
-----------------------------------------------------------------------------
(* Where the entry of replica r is, until its submit task is signalled.     *)
Places(r) ==
    LET s == Source(r)
        d == Dest(r)
    IN  {p \in {"todo", "submit_", "sending", "inbox", "complete_", "replying"} :
          CASE p = "todo" -> r[2] \in todo[r[1]]
            [] p = "submit_" -> r \in Entries(submit_[s])
            [] p = "sending" -> /\ agent[s] = "submit"
                                /\ r \in batch[s] \/ (phase[s] = "sent" /\ r \in call[s])
            [] p = "inbox" -> r \in inbox
            [] p = "complete_" -> r \in Entries(complete_[d])
            [] p = "replying" -> /\ agent[d] = "complete"
                                 /\ r \in (batch[d] \cup call[d]) \ {unblocked[d]}}

TypeOK ==
    /\ st \in [Tasks -> {"new", "pushing", "parked", "back", "complete", "deleted"}]
    /\ todo \in [Tasks -> SUBSET Domains]
    /\ block_count_ \in [Tasks -> Nat]
    /\ woken \subseteq Tasks
    /\ submit_ \in [Nodes -> Seq(Replicas)]
    /\ complete_ \in [Nodes -> Seq(Replicas)]
    /\ pending_ \in [Nodes -> Int]
    /\ agent \in [Nodes -> {"idle", "submit", "complete"}]
    /\ batch \in [Nodes -> SUBSET Replicas]
    /\ call \in [Nodes -> SUBSET Replicas]
    /\ peer \in [Nodes -> Nodes \cup {Null}]
    /\ phase \in [Nodes -> {"none", "sent", "loaded", "answered"}]
    /\ unblocked \in [Nodes -> Replicas \cup {Null}]
    /\ inbox \subseteq Replicas
    /\ ran \subseteq Replicas
    /\ loaded \subseteq Replicas
    /\ freed \subseteq Replicas
    /\ stale \in BOOLEAN
    /\ crashes \in 0..MaxCrashes
    /\ down \subseteq Nodes

(* The address of a replica is in one place at a time, whatever agents and  *)
(* handlers do and whichever nodes fail, so no replica is sent or answered  *)
(* twice; and it is nowhere once the replica is freed at its source.        *)
OneEntry == \A r \in Replicas : Cardinality(Places(r)) <= IF r \in freed THEN 0 ELSE 1

(* block_count_ of a submit task is the number of its replicas that are     *)
(* still somewhere on their way, from SetBlocked before the first entry to  *)
(* the last SignalUnblock.                                                  *)
BlockCountExact ==
    \A t \in Tasks : block_count_[t] = Cardinality({r \in ReplicasOf(t) : Places(r) # {}})

(* When a submit task is back from its Yield, the results of every replica  *)
(* are in memory: Monitor(kReplicaAgg) combines nothing stale.              *)
ResultsArrived ==
    \A t \in Tasks : st[t] \in {"back", "complete", "deleted"} => ReplicasOf(t) \subseteq loaded

(* pending_, which MonitorClientSubmit reports to a flush, is the number of *)
(* tasks sent and not completed, flush tasks apart, as long as no replica   *)
(* is freed between its SignalUnblock and the IsFlush that follows it.      *)
PendingExact ==
    stale \/ \A n \in Nodes : pending_[n] =
        Cardinality({r \in Replicas :
            /\ r[1] \notin Flushes
            /\ Source(r) = n
            /\ \/ Places(r) \cap {"sending", "inbox", "complete_", "replying"} # {}
               \/ unblocked[Dest(r)] = r})

(* Every task handed to the remote queue completes, unless its node or one  *)
(* of its targets is gone: the failure of another node takes no other task  *)
(* with it, except by ending these.                                         *)
RemoteTaskEnds ==
    \A t \in Tasks :
        st[t] = "pushing" ~> \/ st[t] \in {"complete", "deleted"}
                            \/ ({NodeOf[t]} \cup {node_[d] : d \in Targets[t]}) \cap down # {}

(* The remote queue implements the abstract remote call: a task runs at its *)
(* targets only when it was called, and returns only after all of them.     *)
(* That nothing is repeated is the part of OneEntry.                        *)
Abstract == INSTANCE RemoteCall WITH
    called <- {t \in Tasks : st[t] # "new"},
    returned <- {t \in Tasks : st[t] \in {"back", "complete", "deleted"}}

ImplementsRemoteCall == Abstract!Spec
=============================================================================
