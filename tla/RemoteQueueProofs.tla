------------------------- MODULE RemoteQueueProofs -------------------------
(***************************************************************************)
(* The safety of RemoteQueue for any nodes, tasks, targets and failures,    *)
(* and the proof that it implements RemoteCall.                             *)
(*                                                                          *)
(* A step of the remote queue moves the entries of a set of replicas from   *)
(* one place to another and leaves the other entries where they are.  This  *)
(* is shown for every action (Moved); that every entry is single, and that  *)
(* a replica runs and answers on its way, follows from the moves alone.     *)
(* block_count_ and pending_ count entries by the places they are in, so    *)
(* that each step changes a counter by as many as it moves across.          *)
(***************************************************************************)
EXTENDS RemoteQueue, FiniteSetTheorems, TLAPS

PlaceNames == {"todo", "submit_", "sending", "inbox", "complete_", "replying"}

(* The places of a replica, one by one.                                     *)
InTodo(r) == r[2] \in todo[r[1]]
InSubmit(r) == r \in Entries(submit_[Source(r)])
Sending(r) ==
    /\ agent[Source(r)] = "submit"
    /\ r \in batch[Source(r)] \/ (phase[Source(r)] = "sent" /\ r \in call[Source(r)])
InComplete(r) == r \in Entries(complete_[Dest(r)])
Replying(r) ==
    /\ agent[Dest(r)] = "complete"
    /\ r \in batch[Dest(r)] \cup call[Dest(r)]
    /\ r # unblocked[Dest(r)]

(* The types, with block_count_ not yet known to stay above zero.           *)
Types ==
    /\ st \in [Tasks -> {"new", "pushing", "parked", "back", "complete", "deleted"}]
    /\ todo \in [Tasks -> SUBSET Domains]
    /\ block_count_ \in [Tasks -> Int]
    /\ woken \subseteq Tasks
    /\ submit_ \in [Nodes -> Seq(Replicas)]
    /\ complete_ \in [Nodes -> Seq(Replicas)]
    /\ pending_ \in [Nodes -> Int]
    /\ agent \in [Nodes -> {"idle", "submit", "complete"}]
    /\ batch \in [Nodes -> SUBSET Replicas]
    /\ call \in [Nodes -> SUBSET Replicas]
    /\ peer \in [Nodes -> Nodes \cup {Null}]
    /\ phase \in [Nodes -> {"none", "sent", "loaded", "answered"}]
    /\ unblocked \in [Nodes -> Replicas \cup {Null}]
    /\ inbox \subseteq Replicas
    /\ ran \subseteq Replicas
    /\ loaded \subseteq Replicas
    /\ freed \subseteq Replicas
    /\ stale \in BOOLEAN
    /\ crashes \in 0..MaxCrashes
    /\ down \subseteq Nodes

(* An agent that is idle has nothing to send, and one that calls nobody     *)
(* waits for nothing; what it sends and what it waits for belong to its     *)
(* node and to the receiver it calls; the handler has only entries of the   *)
(* message in hand.                                                         *)
AgentInv ==
    \A n \in Nodes :
        /\ agent[n] = "idle" => batch[n] = {} /\ phase[n] = "none"
        /\ phase[n] = "none" => call[n] = {}
        /\ phase[n] = "loaded" => agent[n] = "complete"
        /\ phase[n] = "answered" /\ agent[n] = "complete" => call[n] = {}
        /\ phase[n] # "none" => peer[n] \in Nodes
        /\ unblocked[n] # Null => phase[n] = "loaded" /\ unblocked[n] \in call[n]

(* Entries are at the node that their place says.                           *)
EntriesInv ==
    /\ \A t \in Tasks : todo[t] \subseteq Targets[t]
    /\ \A n \in Nodes :
        /\ \A r \in batch[n] \cup call[n] :
            IF agent[n] = "submit" THEN Source(r) = n ELSE Dest(r) = n
        /\ \A r \in call[n] : Receiver(n, r) = peer[n]
        /\ \A r \in batch[n] : phase[n] # "none" => Receiver(n, r) # peer[n]
        /\ \A r \in Entries(submit_[n]) : Source(r) = n
        /\ \A r \in Entries(complete_[n]) : Dest(r) = n

(* An entry is in one place, and in none before the task is pushed.         *)
SingleInv ==
    \A r \in Replicas :
        /\ \A p, q \in Places(r) : p = q
        /\ st[r[1]] = "new" => Places(r) = {}

(* The entries of the replicas M go from the places A to the places B, and  *)
(* every other entry stays.                                                 *)
Moved(M, A, B) ==
    \A r \in Replicas :
        /\ r \in M => Places(r) = A /\ Places(r)' = B
        /\ r \notin M => Places(r)' = Places(r)
-----------------------------------------------------------------------------
(* A replica is a task and one of its targets.                              *)
LEMMA ReplicaPair ==
    /\ \A r \in Replicas :
        /\ r = <<r[1], r[2]>>
        /\ r[1] \in Tasks /\ r[2] \in Targets[r[1]] /\ r[2] \in Domains
        /\ Source(r) \in Nodes /\ Dest(r) \in Nodes
        /\ r \in ReplicasOf(r[1])
    /\ \A t \in Tasks : \A d \in Targets[t] : <<t, d>> \in Replicas
    /\ \A t \in Tasks : ReplicasOf(t) \subseteq Replicas /\ \A r \in ReplicasOf(t) : r[1] = t
<1>1. ASSUME NEW r \in Replicas
      PROVE  r = <<r[1], r[2]>> /\ r[1] \in Tasks /\ r[2] \in Targets[r[1]]
    <2>1. PICK t \in Tasks : r \in {t} \X Targets[t]
        BY Zenon DEF Replicas
    <2> QED
        BY <2>1
<1>2. \A t \in Tasks : Targets[t] \subseteq Domains
    BY RemoteAssumption, Zenon
<1>3. \A t \in Tasks : \A d \in Targets[t] : <<t, d>> \in Replicas
    BY DEF Replicas
<1>4. \A t \in Tasks : ReplicasOf(t) \subseteq Replicas /\ \A r \in ReplicasOf(t) : r[1] = t
    BY Zenon DEF Replicas, ReplicasOf
<1>5. \A r \in Replicas : r \in ReplicasOf(r[1])
    BY <1>1 DEF ReplicasOf
<1>6. \A r \in Replicas : Source(r) \in Nodes /\ Dest(r) \in Nodes
    BY <1>1, <1>2, RemoteAssumption, Zenon DEF Source, Dest
<1> QED
    BY <1>1, <1>2, <1>3, <1>4, <1>5, <1>6, Zenon

(* Null is the name of nothing.                                             *)
LEMMA NullIsNobody == Null \notin Replicas /\ Null \notin Nodes
<1>1. Replicas \subseteq Tasks \X Domains
    BY ReplicaPair
<1> QED
    BY <1>1, RemoteAssumption, Zenon

(* What Places means, place by place, before and after a step.              *)
LEMMA PlacesAre ==
    ASSUME NEW r
    PROVE  /\ Places(r) \subseteq PlaceNames
           /\ "todo" \in Places(r) <=> InTodo(r)
           /\ "submit_" \in Places(r) <=> InSubmit(r)
           /\ "sending" \in Places(r) <=> Sending(r)
           /\ "inbox" \in Places(r) <=> r \in inbox
           /\ "complete_" \in Places(r) <=> InComplete(r)
           /\ "replying" \in Places(r) <=> Replying(r)
    BY Zenon DEF Places, PlaceNames, InTodo, InSubmit, Sending, InComplete, Replying

(* The same after the step.                                                 *)
LEMMA PlacesAfter ==
    ASSUME NEW r
    PROVE  /\ Places(r)' \subseteq PlaceNames
           /\ "todo" \in Places(r)' <=> InTodo(r)'
           /\ "submit_" \in Places(r)' <=> InSubmit(r)'
           /\ "sending" \in Places(r)' <=> Sending(r)'
           /\ "inbox" \in Places(r)' <=> r \in inbox'
           /\ "complete_" \in Places(r)' <=> InComplete(r)'
           /\ "replying" \in Places(r)' <=> Replying(r)'
    BY Zenon DEF Places, PlaceNames, InTodo, InSubmit, Sending, InComplete, Replying

(* A replica of which no place changes stays where it is.                   *)
LEMMA Stays ==
    ASSUME NEW r,
           InTodo(r)' <=> InTodo(r), InSubmit(r)' <=> InSubmit(r),
           Sending(r)' <=> Sending(r), r \in inbox' <=> r \in inbox,
           InComplete(r)' <=> InComplete(r), Replying(r)' <=> Replying(r)
    PROVE  Places(r)' = Places(r)
<1>1. \A p \in PlaceNames : p \in Places(r)' <=> p \in Places(r)
    BY PlacesAre, PlacesAfter, Zenon DEF PlaceNames
<1>2. Places(r) \subseteq PlaceNames /\ Places(r)' \subseteq PlaceNames
    BY PlacesAre, PlacesAfter, Zenon
<1> QED
    BY <1>1, <1>2, Zenon

(* An entry that is in one place is in no other.                            *)
LEMMA OnlyPlace ==
    ASSUME SingleInv, NEW r \in Replicas, NEW p \in Places(r)
    PROVE  Places(r) = {p}
    BY DEF SingleInv

(* Moves from at most one place to at most one place keep entries single.   *)
LEMMA MovedSingle ==
    ASSUME SingleInv, NEW M, NEW A, NEW B, Moved(M, A, B),
           \A p, q \in B : p = q,
           \A r \in Replicas : st[r[1]]' = "new" => st[r[1]] = "new" /\ r \notin M
    PROVE  SingleInv'
<1> SUFFICES ASSUME NEW r \in Replicas
             PROVE  /\ \A p, q \in Places(r)' : p = q
                    /\ st[r[1]]' = "new" => Places(r)' = {}
    BY Zenon DEF SingleInv
<1>1. CASE r \in M
    BY <1>1, Zenon DEF Moved
<1>2. CASE r \notin M
    BY <1>2 DEF Moved, SingleInv
<1> QED
    BY <1>1, <1>2, Zenon

(* The entries of a queue after a push and after the loop that empties it.  *)
LEMMA EntriesAre ==
    ASSUME NEW S, NEW q \in Seq(S)
    PROVE  /\ Entries(q) \subseteq S
           /\ \A x : Entries(Append(q, x)) = Entries(q) \cup {x}
           /\ Entries(Drained(q)) = {} /\ Entries(<<>>) = {}
<1>1. Entries(q) \subseteq S
    BY DEF Entries
<1>2. ASSUME NEW x PROVE Entries(Append(q, x)) = Entries(q) \cup {x}
    <2>1. q \in Seq(S \cup {x}) /\ Len(q) \in Nat
        OBVIOUS
    <2>2. Len(Append(q, x)) = Len(q) + 1
        BY <2>1
    <2>3. \A i \in 1..Len(q) : Append(q, x)[i] = q[i]
        BY <2>1
    <2>4. Append(q, x)[Len(q) + 1] = x
        BY <2>1
    <2>5. 1..(Len(q) + 1) = 1..Len(q) \cup {Len(q) + 1}
        BY <2>1
    <2> QED
        BY <2>2, <2>3, <2>4, <2>5 DEF Entries
<1>3. Entries(<<>>) = {}
    BY DEF Entries
<1> QED
    BY <1>1, <1>2, <1>3, Zenon DEF Drained

-----------------------------------------------------------------------------
(* How each action moves the entries.                                       *)

(* Emplace: the entry goes from todo to submit_.                            *)
LEMMA EmplaceMoves ==
    ASSUME Types, AgentInv, EntriesInv, SingleInv,
           NEW t \in Tasks, NEW d \in Domains, Emplace(t, d)
    PROVE  /\ <<t, d>> \in Replicas
           /\ AgentInv' /\ EntriesInv'
           /\ Moved({<<t, d>>}, {"todo"}, {"submit_"})
<1> DEFINE e == <<t, d>>
           n == NodeOf[t]
<1>1. e \in Replicas /\ Source(e) = n /\ e[2] = d /\ n \in Nodes
    BY ReplicaPair, RemoteAssumption, Zenon DEF Emplace, EntriesInv, Source
<1>2. Entries(submit_'[n]) = Entries(submit_[n]) \cup {e}
    <2>1. submit_[n] \in Seq(Replicas) /\ submit_'[n] = Append(submit_[n], e)
        BY <1>1, Zenon DEF Types, Emplace
    <2> QED
        BY <2>1, EntriesAre
<1>3. \A k \in Nodes \ {n} : Entries(submit_'[k]) = Entries(submit_[k])
    BY Zenon DEF Types, Emplace
<1>4. AgentInv'
    BY Zenon DEF Emplace, AgentInv, rpc
<1>5. EntriesInv'
    <2>1. \A s \in Tasks : todo'[s] \subseteq Targets[s]
        BY Zenon DEF Emplace, EntriesInv, Types
    <2>2. \A k \in Nodes : \A r \in Entries(submit_'[k]) : Source(r) = k
        BY <1>1, <1>2, <1>3, Zenon DEF EntriesInv
    <2> QED
        BY <2>1, <2>2, Zenon DEF Emplace, EntriesInv, rpc, Receiver
<1>6. ASSUME NEW r \in Replicas
      PROVE  /\ Sending(r)' <=> Sending(r)
             /\ r \in inbox' <=> r \in inbox
             /\ InComplete(r)' <=> InComplete(r)
             /\ Replying(r)' <=> Replying(r)
    BY Zenon DEF Emplace, Sending, InComplete, Replying, rpc, remote
<1>7. ASSUME NEW r \in Replicas, r # e
      PROVE  Places(r)' = Places(r)
    <2>1. InTodo(r)' <=> InTodo(r)
        BY <1>7, ReplicaPair, Zenon DEF Emplace, InTodo, Types
    <2>2. InSubmit(r)' <=> InSubmit(r)
        BY <1>1, <1>2, <1>3, <1>7, ReplicaPair, Zenon DEF InSubmit
    <2> QED
        BY <1>6, <2>1, <2>2, Stays, Zenon
<1>8. Places(e) = {"todo"}
    BY <1>1, PlacesAre, OnlyPlace DEF Emplace, InTodo
<1>9. Places(e)' = {"submit_"}
    <2>1. ~InTodo(e)'
        BY <1>1, Zenon DEF Emplace, InTodo, Types
    <2>2. InSubmit(e)'
        BY <1>1, <1>2, Zenon DEF InSubmit
    <2> QED
        BY <1>1, <1>6, <1>8, <2>1, <2>2, PlacesAre, PlacesAfter, Zenon DEF PlaceNames
<1> QED
    BY <1>1, <1>4, <1>5, <1>7, <1>8, <1>9, Zenon DEF Moved

(* ClientPushSubmit: every entry of the task is to be emplaced.             *)
LEMMA PushMoves ==
    ASSUME Types, AgentInv, EntriesInv, SingleInv, NEW t \in Tasks, ClientPushSubmit(t)
    PROVE  /\ AgentInv' /\ EntriesInv'
           /\ Moved(ReplicasOf(t), {}, {"todo"})
<1>1. todo'[t] = Targets[t] /\ \A s \in Tasks \ {t} : todo'[s] = todo[s]
    BY Zenon DEF Types, ClientPushSubmit
<1>2. AgentInv'
    BY Zenon DEF ClientPushSubmit, AgentInv, rpc
<1>3. EntriesInv'
    BY <1>1 DEF ClientPushSubmit, EntriesInv, rpc, queues, Receiver
<1>4. ASSUME NEW r \in Replicas
      PROVE  /\ InSubmit(r)' <=> InSubmit(r)
             /\ Sending(r)' <=> Sending(r)
             /\ r \in inbox' <=> r \in inbox
             /\ InComplete(r)' <=> InComplete(r)
             /\ Replying(r)' <=> Replying(r)
    BY Zenon DEF ClientPushSubmit, InSubmit, Sending, InComplete, Replying, rpc, remote, queues
<1>5. ASSUME NEW r \in Replicas, r \notin ReplicasOf(t)
      PROVE  Places(r)' = Places(r)
    <2>1. r[1] \in Tasks /\ r[1] # t
        BY <1>5, ReplicaPair, Zenon
    <2>2. InTodo(r)' <=> InTodo(r)
        BY <1>1, <2>1, Zenon DEF InTodo
    <2> QED
        BY <1>4, <2>2, Stays, Zenon
<1>6. ASSUME NEW r \in ReplicasOf(t)
      PROVE  r \in Replicas /\ Places(r) = {} /\ Places(r)' = {"todo"}
    <2>1. r \in Replicas /\ r[1] = t /\ r[2] \in Targets[t]
        BY ReplicaPair, Zenon
    <2>2. Places(r) = {}
        BY <2>1, Zenon DEF SingleInv, ClientPushSubmit
    <2>3. InTodo(r)'
        BY <1>1, <2>1, Zenon DEF InTodo
    <2> QED
        BY <1>4, <2>1, <2>2, <2>3, PlacesAre, PlacesAfter, Zenon DEF PlaceNames
<1> QED
    BY <1>2, <1>3, <1>5, <1>6, Zenon DEF Moved

(* A step that touches no queue, no call and no inbox moves nothing.        *)
LEMMA NothingMoves ==
    ASSUME AgentInv, EntriesInv,
           UNCHANGED <<todo, submit_, complete_, inbox, rpc>>
    PROVE  AgentInv' /\ EntriesInv' /\ Moved({}, {}, {})
<1>1. AgentInv'
    BY Zenon DEF AgentInv, rpc
<1>2. EntriesInv'
    BY Zenon DEF EntriesInv, rpc, Receiver
<1>3. \A r \in Replicas : Places(r)' = Places(r)
    BY Zenon DEF Places, rpc
<1> QED
    BY <1>1, <1>2, <1>3, Zenon DEF Moved

(* ClientSubmit: all of submit_ is to be sent.                              *)
LEMMA SubmitMoves ==
    ASSUME Types, AgentInv, EntriesInv, SingleInv, NEW n \in Nodes, ClientSubmit(n)
    PROVE  /\ AgentInv' /\ EntriesInv'
           /\ Moved(Entries(submit_[n]), {"submit_"}, {"sending"})
<1> DEFINE M == Entries(submit_[n])
<1>1. M \subseteq Replicas /\ Entries(submit_'[n]) = {}
    <2>1. submit_[n] \in Seq(Replicas) /\ submit_'[n] = Drained(submit_[n])
        BY Zenon DEF Types, ClientSubmit
    <2> QED
        BY <2>1, EntriesAre
<1>2. \A k \in Nodes \ {n} : /\ submit_'[k] = submit_[k]
                              /\ batch'[k] = batch[k]
                              /\ agent'[k] = agent[k]
    BY Zenon DEF Types, ClientSubmit
<1>3. /\ batch[n] = {} /\ call[n] = {} /\ phase[n] = "none" /\ unblocked[n] = Null
      /\ agent[n] = "idle"
    BY Zenon DEF AgentInv, ClientSubmit
<1>4. agent'[n] = "submit" /\ batch'[n] = M
    BY Zenon DEF Types, ClientSubmit
<1>5. \A r \in M : Source(r) = n
    BY Zenon DEF EntriesInv
<1>6. UNCHANGED <<todo, complete_, inbox, call, peer, phase, unblocked>>
    BY Zenon DEF ClientSubmit, submitter, remote
<1>7. AgentInv'
    <2> SUFFICES ASSUME NEW k \in Nodes
                 PROVE  AgentInv!(k)'
        BY Zenon DEF AgentInv
    <2> QED
        BY <1>2, <1>3, <1>4, <1>6, Zenon DEF AgentInv
<1>8. EntriesInv'
    <2>1. ASSUME NEW k \in Nodes, k # n PROVE EntriesInv!2!(k)'
        BY <1>2, <1>6, <2>1, Zenon DEF EntriesInv, Receiver
    <2>2. EntriesInv!2!(n)'
        BY <1>1, <1>3, <1>4, <1>5, <1>6, Zenon DEF EntriesInv
    <2> QED
        BY <1>6, <2>1, <2>2 DEF EntriesInv
<1>9. ASSUME NEW r \in Replicas
      PROVE  /\ InTodo(r)' <=> InTodo(r)
             /\ r \in inbox' <=> r \in inbox
             /\ InComplete(r)' <=> InComplete(r)
             /\ Replying(r)' <=> Replying(r)
    <2>1. Dest(r) \in Nodes
        BY ReplicaPair, Zenon
    <2>2. Replying(r)' <=> Replying(r)
        BY <2>1, <1>2, <1>3, <1>4, <1>6, Zenon DEF Replying
    <2> QED
        BY <1>6, <2>2, Zenon DEF InTodo, InComplete
<1>10. ASSUME NEW r \in Replicas, r \notin M
       PROVE  Places(r)' = Places(r)
    <2>1. Source(r) \in Nodes
        BY ReplicaPair, Zenon
    <2>2. InSubmit(r)' <=> InSubmit(r)
        BY <1>1, <1>2, <1>10, <2>1, Zenon DEF InSubmit
    <2>3. Sending(r)' <=> Sending(r)
        BY <1>2, <1>3, <1>4, <1>6, <1>10, <2>1, Zenon DEF Sending
    <2> QED
        BY <1>9, <2>2, <2>3, Stays, Zenon
<1>11. ASSUME NEW r \in M
       PROVE  Places(r) = {"submit_"} /\ Places(r)' = {"sending"}
    <2>1. r \in Replicas /\ Source(r) = n
        BY <1>1, <1>5, Zenon
    <2>2. InSubmit(r) /\ ~InSubmit(r)' /\ Sending(r)'
        BY <1>1, <1>4, <2>1, Zenon DEF InSubmit, Sending
    <2>3. Places(r) = {"submit_"}
        BY <2>1, <2>2, PlacesAre, OnlyPlace, Zenon
    <2> QED
        BY <1>9, <2>1, <2>2, <2>3, PlacesAre, PlacesAfter, Zenon DEF PlaceNames
<1> QED
    BY <1>1, <1>7, <1>8, <1>10, <1>11, Zenon DEF Moved

(* ServerComplete: all of complete_ is to be answered.                      *)
LEMMA CompleteMoves ==
    ASSUME Types, AgentInv, EntriesInv, SingleInv, NEW n \in Nodes, ServerComplete(n)
    PROVE  /\ AgentInv' /\ EntriesInv'
           /\ Moved(Entries(complete_[n]), {"complete_"}, {"replying"})
<1> DEFINE M == Entries(complete_[n])
<1>1. M \subseteq Replicas /\ Entries(complete_'[n]) = {}
    <2>1. complete_[n] \in Seq(Replicas) /\ complete_'[n] = <<>>
        BY Zenon DEF Types, ServerComplete
    <2> QED
        BY <2>1, EntriesAre, Zenon
<1>2. \A k \in Nodes \ {n} : /\ complete_'[k] = complete_[k]
                              /\ batch'[k] = batch[k]
                              /\ agent'[k] = agent[k]
    BY Zenon DEF Types, ServerComplete
<1>3. /\ batch[n] = {} /\ call[n] = {} /\ phase[n] = "none" /\ unblocked[n] = Null
      /\ agent[n] = "idle"
    BY Zenon DEF AgentInv, ServerComplete
<1>4. agent'[n] = "complete" /\ batch'[n] = M
    BY Zenon DEF Types, ServerComplete
<1>5. \A r \in M : Dest(r) = n
    BY Zenon DEF EntriesInv
<1>6. UNCHANGED <<todo, submit_, inbox, call, peer, phase, unblocked>>
    BY Zenon DEF ServerComplete, submitter, remote
<1>7. AgentInv'
    <2> SUFFICES ASSUME NEW k \in Nodes
                 PROVE  AgentInv!(k)'
        BY DEF AgentInv
    <2> QED
        BY <1>2, <1>3, <1>4, <1>6, Zenon DEF AgentInv
<1>8. EntriesInv'
    <2>1. ASSUME NEW k \in Nodes, k # n PROVE EntriesInv!2!(k)'
        BY <1>2, <1>6, <2>1, Zenon DEF EntriesInv, Receiver
    <2>2. EntriesInv!2!(n)'
        BY <1>1, <1>3, <1>4, <1>5, <1>6, Zenon DEF EntriesInv
    <2> QED
        BY <1>6, <2>1, <2>2, Zenon DEF EntriesInv
<1>9. ASSUME NEW r \in Replicas
      PROVE  /\ InTodo(r)' <=> InTodo(r)
             /\ r \in inbox' <=> r \in inbox
             /\ InSubmit(r)' <=> InSubmit(r)
             /\ Sending(r)' <=> Sending(r)
    <2>1. Source(r) \in Nodes
        BY ReplicaPair
    <2>2. Sending(r)' <=> Sending(r)
        BY <2>1, <1>2, <1>3, <1>4, <1>6, Zenon DEF Sending
    <2> QED
        BY <1>6, <2>2, Zenon DEF InTodo, InSubmit
<1>10. ASSUME NEW r \in Replicas, r \notin M
       PROVE  Places(r)' = Places(r)
    <2>1. Dest(r) \in Nodes
        BY ReplicaPair
    <2>2. InComplete(r)' <=> InComplete(r)
        BY <1>1, <1>2, <1>10, <2>1 DEF InComplete
    <2>3. Replying(r)' <=> Replying(r)
        BY <1>2, <1>3, <1>4, <1>6, <1>10, <2>1, Zenon DEF Replying
    <2> QED
        BY <1>9, <2>2, <2>3, Stays, Zenon
<1>11. ASSUME NEW r \in M
       PROVE  Places(r) = {"complete_"} /\ Places(r)' = {"replying"}
    <2>1. r \in Replicas /\ Dest(r) = n
        BY <1>1, <1>5
    <2>2. InComplete(r) /\ ~InComplete(r)' /\ Replying(r)'
        BY <1>1, <1>3, <1>4, <1>6, <2>1, NullIsNobody, Zenon DEF InComplete, Replying
    <2>3. Places(r) = {"complete_"}
        BY <2>1, <2>2, PlacesAre, OnlyPlace, Zenon
    <2> QED
        BY <1>9, <2>1, <2>2, <2>3, PlacesAre, PlacesAfter, Zenon DEF PlaceNames
<1> QED
    BY <1>1, <1>7, <1>8, <1>10, <1>11, Zenon DEF Moved

(* SyncIoCall: what is to be sent to the peer stays to be sent, or to be    *)
(* answered.                                                                *)
LEMMA SyncIoCallMoves ==
    ASSUME Types, AgentInv, EntriesInv, NEW n \in Nodes, NEW m \in Nodes, SyncIoCall(n, m)
    PROVE  AgentInv' /\ EntriesInv' /\ Moved({}, {}, {})
<1>1. \A k \in Nodes \ {n} : /\ call'[k] = call[k] /\ batch'[k] = batch[k]
                              /\ peer'[k] = peer[k] /\ phase'[k] = phase[k]
    BY Zenon DEF Types, SyncIoCall
<1>2. /\ call'[n] = {r \in batch[n] : Receiver(n, r) = m}
      /\ batch'[n] = {r \in batch[n] : Receiver(n, r) # m}
      /\ peer'[n] = m /\ phase'[n] = "sent"
    BY Zenon DEF Types, SyncIoCall
<1>3. UNCHANGED <<todo, submit_, complete_, inbox, agent, unblocked>>
    BY Zenon DEF SyncIoCall, submitter, remote, queues
<1>4. phase[n] = "none" /\ call[n] = {} /\ unblocked[n] = Null /\ batch[n] # {}
    BY Zenon DEF SyncIoCall, AgentInv
<1>5. agent[n] # "idle"
    BY <1>4, Zenon DEF AgentInv
<1>6. AgentInv'
    <2>1. ASSUME NEW k \in Nodes, k # n PROVE AgentInv!(k)'
        BY <1>1, <1>3, <2>1, Zenon DEF AgentInv
    <2>2. AgentInv!(n)'
        BY <1>2, <1>3, <1>4, <1>5, Zenon DEF AgentInv
    <2> QED
        BY <2>1, <2>2, Zenon DEF AgentInv
<1>7. EntriesInv'
    <2>1. ASSUME NEW k \in Nodes, k # n PROVE EntriesInv!2!(k)'
        BY <1>1, <1>3, <2>1 DEF EntriesInv, Receiver
    <2>2. EntriesInv!2!(n)'
        BY <1>2, <1>3, Zenon DEF EntriesInv, Receiver
    <2> QED
        BY <1>3, <2>1, <2>2, Zenon DEF EntriesInv
<1>8. batch'[n] \cup call'[n] = batch[n] \cup call[n]
    BY <1>2, <1>4, Zenon
<1>9. ASSUME NEW r \in Replicas PROVE Places(r)' = Places(r)
    <2>1. Source(r) \in Nodes /\ Dest(r) \in Nodes
        BY ReplicaPair, Zenon
    <2>2. Sending(r)' <=> Sending(r)
        BY <1>1, <1>2, <1>3, <1>4, <1>8, <2>1, Zenon DEF Sending
    <2>3. Replying(r)' <=> Replying(r)
        BY <1>1, <1>3, <1>8, <2>1, Zenon DEF Replying
    <2> QED
        BY <1>3, <2>2, <2>3, Stays, Zenon DEF InTodo, InSubmit, InComplete
<1> QED
    BY <1>6, <1>7, <1>9, Zenon DEF Moved

(* Answered: the message of the call is no entry any more.                  *)
LEMMA AnsweredMoves ==
    ASSUME Types, AgentInv, EntriesInv, NEW n \in Nodes, Answered(n)
    PROVE  AgentInv' /\ EntriesInv' /\ Moved({}, {}, {})
<1>1. \A k \in Nodes \ {n} : /\ call'[k] = call[k] /\ agent'[k] = agent[k]
                              /\ peer'[k] = peer[k] /\ phase'[k] = phase[k]
    BY Zenon DEF Types, Answered
<1>2. /\ call'[n] = {} /\ phase'[n] = "none" /\ phase[n] = "answered"
      /\ agent'[n] = IF batch[n] = {} THEN "idle" ELSE agent[n]
    BY Zenon DEF Types, Answered
<1>3. UNCHANGED <<todo, submit_, complete_, inbox, batch, unblocked>>
    BY Zenon DEF Answered, submitter, remote, queues
<1>4. agent[n] # "idle" /\ unblocked[n] = Null /\ (agent[n] = "complete" => call[n] = {})
    BY <1>2, Zenon DEF AgentInv
<1>5. AgentInv'
    <2>1. ASSUME NEW k \in Nodes, k # n PROVE AgentInv!(k)'
        BY <1>1, <1>3, <2>1 DEF AgentInv
    <2>2. AgentInv!(n)'
        BY <1>2, <1>3, <1>4, Zenon DEF AgentInv
    <2> QED
        BY <2>1, <2>2, Zenon DEF AgentInv
<1>6. EntriesInv'
    <2>1. ASSUME NEW k \in Nodes, k # n PROVE EntriesInv!2!(k)'
        BY <1>1, <1>3, <2>1 DEF EntriesInv, Receiver
    <2>2. EntriesInv!2!(n)'
        BY <1>2, <1>3, Zenon DEF EntriesInv
    <2> QED
        BY <1>3, <2>1, <2>2, Zenon DEF EntriesInv
<1>7. ASSUME NEW r \in Replicas PROVE Places(r)' = Places(r)
    <2>1. Source(r) \in Nodes /\ Dest(r) \in Nodes
        BY ReplicaPair, Zenon
    <2>2. Sending(r)' <=> Sending(r)
        BY <1>1, <1>2, <1>3, <1>4, <2>1, Zenon DEF Sending
    <2>3. Replying(r)' <=> Replying(r)
        BY <1>1, <1>2, <1>3, <1>4, <2>1, Zenon DEF Replying
    <2> QED
        BY <1>3, <2>2, <2>3, Stays, Zenon DEF InTodo, InSubmit, InComplete
<1> QED
    BY <1>5, <1>6, <1>7, Zenon DEF Moved

(* RpcTaskSubmit: the message arrives in the inbox of its targets.          *)
LEMMA RpcSubmitMoves ==
    ASSUME Types, AgentInv, EntriesInv, SingleInv, NEW n \in Nodes, RpcTaskSubmit(n)
    PROVE  /\ AgentInv' /\ EntriesInv'
           /\ Moved(call[n], {"sending"}, {"inbox"})
<1>1. phase'[n] = "answered" /\ \A k \in Nodes \ {n} : phase'[k] = phase[k]
    BY Zenon DEF Types, RpcTaskSubmit
<1>2. UNCHANGED <<todo, submit_, complete_, agent, batch, call, peer, unblocked>>
    BY Zenon DEF RpcTaskSubmit, submitter, queues
<1>3. phase[n] = "sent" /\ agent[n] = "submit" /\ inbox' = inbox \cup call[n]
    BY Zenon DEF RpcTaskSubmit
<1>4. \A r \in call[n] : r \in Replicas /\ Source(r) = n /\ r \notin batch[n]
    BY <1>3, Zenon DEF Types, EntriesInv
<1>5. AgentInv'
    <2>1. ASSUME NEW k \in Nodes, k # n PROVE AgentInv!(k)'
        BY <1>1, <1>2, <2>1, Zenon DEF AgentInv
    <2>2. AgentInv!(n)'
        BY <1>1, <1>2, <1>3, Zenon DEF AgentInv
    <2> QED
        BY <2>1, <2>2, Zenon DEF AgentInv
<1>6. EntriesInv'
    <2> SUFFICES ASSUME NEW k \in Nodes PROVE EntriesInv!2!(k)'
        BY <1>2, Zenon DEF EntriesInv
    <2> QED
        BY <1>1, <1>2, <1>3, Zenon DEF EntriesInv, Receiver
<1>7. ASSUME NEW r \in Replicas
      PROVE  /\ InTodo(r)' <=> InTodo(r)
             /\ InSubmit(r)' <=> InSubmit(r)
             /\ InComplete(r)' <=> InComplete(r)
             /\ Replying(r)' <=> Replying(r)
    BY <1>2, Zenon DEF InTodo, InSubmit, InComplete, Replying
<1>8. ASSUME NEW r \in Replicas, r \notin call[n]
      PROVE  Places(r)' = Places(r)
    <2>1. Source(r) \in Nodes
        BY ReplicaPair
    <2>2. Sending(r)' <=> Sending(r)
        BY <1>1, <1>2, <1>8, <2>1, Zenon DEF Sending
    <2>3. r \in inbox' <=> r \in inbox
        BY <1>3, <1>8, Zenon
    <2> QED
        BY <1>7, <2>2, <2>3, Stays, Zenon
<1>9. ASSUME NEW r \in call[n]
      PROVE  Places(r) = {"sending"} /\ Places(r)' = {"inbox"}
    <2>1. r \in Replicas /\ Source(r) = n
        BY <1>4, Zenon
    <2>2. Sending(r) /\ ~Sending(r)' /\ r \in inbox'
        BY <1>1, <1>2, <1>3, <1>4, Zenon DEF Sending
    <2>3. Places(r) = {"sending"}
        BY <2>1, <2>2, PlacesAre, OnlyPlace, Zenon
    <2> QED
        BY <1>7, <2>1, <2>2, <2>3, PlacesAre, PlacesAfter, Zenon DEF PlaceNames
<1> QED
    BY <1>4, <1>5, <1>6, <1>8, <1>9, Zenon DEF Moved

(* RpcTaskComplete: reading the results moves nothing.                      *)
LEMMA RpcCompleteMoves ==
    ASSUME Types, AgentInv, EntriesInv, NEW n \in Nodes, RpcTaskComplete(n)
    PROVE  AgentInv' /\ EntriesInv' /\ Moved({}, {}, {})
<1>1. phase'[n] = "loaded" /\ \A k \in Nodes \ {n} : phase'[k] = phase[k]
    BY Zenon DEF Types, RpcTaskComplete
<1>2. UNCHANGED <<todo, submit_, complete_, inbox, agent, batch, call, peer, unblocked>>
    BY Zenon DEF RpcTaskComplete, submitter, queues
<1>3. phase[n] = "sent" /\ agent[n] = "complete"
    BY Zenon DEF RpcTaskComplete
<1>4. AgentInv'
    <2>1. ASSUME NEW k \in Nodes, k # n PROVE AgentInv!(k)'
        BY <1>1, <1>2, <2>1, Zenon DEF AgentInv
    <2>2. AgentInv!(n)'
        BY <1>1, <1>2, <1>3, Zenon DEF AgentInv
    <2> QED
        BY <2>1, <2>2 DEF AgentInv
<1>5. EntriesInv'
    <2> SUFFICES ASSUME NEW k \in Nodes PROVE EntriesInv!2!(k)'
        BY <1>2, Zenon DEF EntriesInv
    <2> QED
        BY <1>1, <1>2, <1>3, Zenon DEF EntriesInv, Receiver
<1>6. ASSUME NEW r \in Replicas PROVE Places(r)' = Places(r)
    <2>1. Source(r) \in Nodes
        BY ReplicaPair, Zenon
    <2>2. Sending(r)' <=> Sending(r)
        BY <1>1, <1>2, <1>3, <2>1, Zenon DEF Sending
    <2> QED
        BY <1>2, <2>2, Stays, Zenon DEF InTodo, InSubmit, InComplete, Replying
<1> QED
    BY <1>4, <1>5, <1>6 DEF Moved

(* SignalUnblock: the entry has come to its end.                            *)
LEMMA SignalMoves ==
    ASSUME Types, AgentInv, EntriesInv, SingleInv,
           NEW n \in Nodes, NEW e \in Replicas, SignalUnblock(n, e)
    PROVE  /\ AgentInv' /\ EntriesInv'
           /\ Moved({e}, {"replying"}, {})
<1>1. unblocked'[n] = e /\ \A k \in Nodes \ {n} : unblocked'[k] = unblocked[k]
    BY Zenon DEF Types, SignalUnblock
<1>2. UNCHANGED <<todo, submit_, complete_, inbox, agent, batch, call, peer, phase>>
    BY Zenon DEF SignalUnblock, remote, queues
<1>3. phase[n] = "loaded" /\ unblocked[n] = Null /\ e \in call[n]
    BY Zenon DEF SignalUnblock
<1>4. agent[n] = "complete" /\ Dest(e) = n
    BY <1>3, Zenon DEF AgentInv, EntriesInv
<1>5. AgentInv'
    <2>1. ASSUME NEW k \in Nodes, k # n PROVE AgentInv!(k)'
        BY <1>1, <1>2, <2>1, Zenon DEF AgentInv
    <2>2. AgentInv!(n)'
        BY <1>1, <1>2, <1>3, Zenon DEF AgentInv
    <2> QED
        BY <2>1, <2>2, Zenon DEF AgentInv
<1>6. EntriesInv'
    BY <1>2, Zenon DEF EntriesInv, Receiver
<1>7. ASSUME NEW r \in Replicas
      PROVE  /\ InTodo(r)' <=> InTodo(r)
             /\ InSubmit(r)' <=> InSubmit(r)
             /\ Sending(r)' <=> Sending(r)
             /\ r \in inbox' <=> r \in inbox
             /\ InComplete(r)' <=> InComplete(r)
    BY <1>2, Zenon DEF InTodo, InSubmit, Sending, InComplete
<1>8. ASSUME NEW r \in Replicas, r # e PROVE Places(r)' = Places(r)
    <2>1. Dest(r) \in Nodes
        BY ReplicaPair, Zenon
    <2>2. Replying(r)' <=> Replying(r)
        BY <1>1, <1>2, <1>3, <1>8, <2>1, NullIsNobody, Zenon DEF Replying
    <2> QED
        BY <1>7, <2>2, Stays, Zenon
<1>9. Places(e) = {"replying"} /\ Places(e)' = {}
    <2>1. Replying(e) /\ ~Replying(e)'
        BY <1>1, <1>3, <1>4, NullIsNobody, Zenon DEF Replying
    <2>2. Places(e) = {"replying"}
        BY <2>1, PlacesAre, OnlyPlace, Zenon
    <2> QED
        BY <1>7, <2>1, <2>2, PlacesAre, PlacesAfter, Zenon DEF PlaceNames
<1> QED
    BY <1>5, <1>6, <1>8, <1>9, Zenon DEF Moved

(* CountOff: the handler lets go of an entry that is no entry any more.     *)
LEMMA CountOffMoves ==
    ASSUME Types, AgentInv, EntriesInv, NEW n \in Nodes, CountOff(n)
    PROVE  AgentInv' /\ EntriesInv' /\ Moved({}, {}, {})
<1> DEFINE e == unblocked[n]
<1>1. e # Null /\ phase[n] = "loaded" /\ e \in call[n] /\ agent[n] = "complete"
    BY Zenon DEF CountOff, AgentInv
<1>2. /\ call'[n] = call[n] \ {e} /\ unblocked'[n] = Null
      /\ phase'[n] = IF call[n] = {e} THEN "answered" ELSE "loaded"
    BY <1>1, Zenon DEF Types, CountOff
<1>3. \A k \in Nodes \ {n} : /\ call'[k] = call[k] /\ phase'[k] = phase[k]
                              /\ unblocked'[k] = unblocked[k]
    BY Zenon DEF Types, CountOff
<1>4. UNCHANGED <<todo, submit_, complete_, inbox, agent, batch, peer>>
    BY Zenon DEF CountOff, submitter, remote, queues
<1>5. e \notin batch[n]
    BY <1>1, Zenon DEF EntriesInv
<1>6. AgentInv'
    <2>1. ASSUME NEW k \in Nodes, k # n PROVE AgentInv!(k)'
        BY <1>3, <1>4, <2>1, Zenon DEF AgentInv
    <2>2. AgentInv!(n)'
        BY <1>1, <1>2, <1>4, Zenon DEF AgentInv
    <2> QED
        BY <2>1, <2>2 DEF AgentInv
<1>7. EntriesInv'
    <2>1. ASSUME NEW k \in Nodes, k # n PROVE EntriesInv!2!(k)'
        BY <1>3, <1>4, <2>1, Zenon DEF EntriesInv, Receiver
    <2>2. EntriesInv!2!(n)'
        BY <1>1, <1>2, <1>4, Zenon DEF EntriesInv, Receiver
    <2> QED
        BY <1>4, <2>1, <2>2, Zenon DEF EntriesInv
<1>8. ASSUME NEW r \in Replicas PROVE Places(r)' = Places(r)
    <2>1. Source(r) \in Nodes /\ Dest(r) \in Nodes
        BY ReplicaPair
    <2>2. Sending(r)' <=> Sending(r)
        BY <1>1, <1>3, <1>4, <2>1, Zenon DEF Sending
    <2>3. Replying(r)' <=> Replying(r)
        BY <1>2, <1>3, <1>4, <1>5, <2>1, NullIsNobody DEF Replying
    <2> QED
        BY <1>4, <2>2, <2>3, Stays, Zenon DEF InTodo, InSubmit, InComplete
<1> QED
    BY <1>6, <1>7, <1>8 DEF Moved

(* Execute: the replica waits to be answered.                               *)
LEMMA ExecuteMoves ==
    ASSUME Types, AgentInv, EntriesInv, SingleInv, NEW e \in Replicas, Execute(e)
    PROVE  /\ AgentInv' /\ EntriesInv'
           /\ Moved({e}, {"inbox"}, {"complete_"})
<1> DEFINE n == Dest(e)
<1>1. n \in Nodes /\ e \in inbox /\ inbox' = inbox \ {e}
    BY ReplicaPair, Zenon DEF Execute
<1>2. Entries(complete_'[n]) = Entries(complete_[n]) \cup {e}
    <2>1. complete_[n] \in Seq(Replicas) /\ complete_'[n] = Append(complete_[n], e)
        BY <1>1, Zenon DEF Types, Execute
    <2> QED
        BY <2>1, EntriesAre
<1>3. \A k \in Nodes \ {n} : complete_'[k] = complete_[k]
    BY Zenon DEF Types, Execute
<1>4. UNCHANGED <<todo, submit_, rpc>>
    BY Zenon DEF Execute, submitter
<1>5. AgentInv'
    BY <1>4, Zenon DEF AgentInv, rpc
<1>6. EntriesInv'
    <2>1. \A k \in Nodes : \A r \in Entries(complete_'[k]) : Dest(r) = k
        BY <1>2, <1>3, Zenon DEF EntriesInv
    <2> QED
        BY <1>4, <2>1, Zenon DEF EntriesInv, rpc, Receiver
<1>7. ASSUME NEW r \in Replicas
      PROVE  /\ InTodo(r)' <=> InTodo(r)
             /\ InSubmit(r)' <=> InSubmit(r)
             /\ Sending(r)' <=> Sending(r)
             /\ Replying(r)' <=> Replying(r)
    BY <1>4, Zenon DEF InTodo, InSubmit, Sending, Replying, rpc
<1>8. ASSUME NEW r \in Replicas, r # e PROVE Places(r)' = Places(r)
    <2>1. r \in inbox' <=> r \in inbox
        BY <1>1, <1>8, Zenon
    <2>2. InComplete(r)' <=> InComplete(r)
        BY <1>2, <1>3, <1>8, ReplicaPair, Zenon DEF InComplete
    <2> QED
        BY <1>7, <2>1, <2>2, Stays, Zenon
<1>9. Places(e) = {"inbox"} /\ Places(e)' = {"complete_"}
    <2>1. InComplete(e)' /\ e \notin inbox'
        BY <1>1, <1>2, Zenon DEF InComplete
    <2>2. Places(e) = {"inbox"}
        BY <1>1, PlacesAre, OnlyPlace, Zenon
    <2> QED
        BY <1>7, <2>1, <2>2, PlacesAre, PlacesAfter, Zenon DEF PlaceNames
<1> QED
    BY <1>5, <1>6, <1>8, <1>9, Zenon DEF Moved
-----------------------------------------------------------------------------
(* The actions that move no entry.                                          *)
Resting ==
    \/ UNCHANGED vars
    \/ \E t \in Tasks : Yield(t) \/ Resume(t) \/ PushCompletedTask(t) \/ DelTask(t)
    \/ \E n \in Nodes :
        \/ Answered(n) \/ CallFails(n) \/ RpcTaskComplete(n) \/ CountOff(n)
        \/ IoCallServerWriteFails(n) \/ Crash(n)
        \/ \E m \in Nodes : SyncIoCall(n, m)

(* A step, together with what it moves.                                     *)
Step ==
    \/ Resting /\ Moved({}, {}, {})
    \/ \E t \in Tasks : ClientPushSubmit(t) /\ Moved(ReplicasOf(t), {}, {"todo"})
    \/ \E t \in Tasks, d \in Domains :
        Emplace(t, d) /\ <<t, d>> \in Replicas /\ Moved({<<t, d>>}, {"todo"}, {"submit_"})
    \/ \E n \in Nodes :
        \/ ClientSubmit(n) /\ Moved(Entries(submit_[n]), {"submit_"}, {"sending"})
        \/ RpcTaskSubmit(n) /\ Moved(call[n], {"sending"}, {"inbox"})
        \/ ServerComplete(n) /\ Moved(Entries(complete_[n]), {"complete_"}, {"replying"})
        \/ \E e \in Replicas : SignalUnblock(n, e) /\ Moved({e}, {"replying"}, {})
    \/ \E e \in Replicas : Execute(e) /\ Moved({e}, {"inbox"}, {"complete_"})

(* Every step of the specification is one of these.                         *)
LEMMA EveryStep ==
    ASSUME Types, AgentInv, EntriesInv, SingleInv, [Next]_vars
    PROVE  AgentInv' /\ EntriesInv' /\ Step
<1>1. CASE UNCHANGED vars
    BY <1>1, NothingMoves, Zenon DEF Step, Resting, vars, submitter, queues, remote
<1>2. ASSUME NEW t \in Tasks, Yield(t) \/ Resume(t) \/ PushCompletedTask(t) \/ DelTask(t)
      PROVE  AgentInv' /\ EntriesInv' /\ Step
    <2>1. UNCHANGED <<todo, submit_, complete_, inbox, rpc>>
        BY <1>2, Zenon DEF Yield, Resume, PushCompletedTask, DelTask, queues, remote
    <2> QED
        BY <1>2, <2>1, NothingMoves, Zenon DEF Step, Resting
<1>3. ASSUME NEW n \in Nodes, CallFails(n) \/ IoCallServerWriteFails(n) \/ Crash(n)
      PROVE  AgentInv' /\ EntriesInv' /\ Step
    <2>1. UNCHANGED <<todo, submit_, complete_, inbox, rpc>>
        BY <1>3, Zenon DEF CallFails, IoCallServerWriteFails, Crash, submitter, queues, remote
    <2> QED
        BY <1>3, <2>1, NothingMoves, Zenon DEF Step, Resting
<1>4. ASSUME NEW t \in Tasks, ClientPushSubmit(t)
      PROVE  AgentInv' /\ EntriesInv' /\ Step
    BY <1>4, PushMoves, Zenon DEF Step
<1>5. ASSUME NEW t \in Tasks, NEW d \in Domains, Emplace(t, d)
      PROVE  AgentInv' /\ EntriesInv' /\ Step
    BY <1>5, EmplaceMoves, Zenon DEF Step
<1>6. ASSUME NEW n \in Nodes, ClientSubmit(n)
      PROVE  AgentInv' /\ EntriesInv' /\ Step
    BY <1>6, SubmitMoves, Zenon DEF Step
<1>7. ASSUME NEW n \in Nodes, ServerComplete(n)
      PROVE  AgentInv' /\ EntriesInv' /\ Step
    BY <1>7, CompleteMoves, Zenon DEF Step
<1>8. ASSUME NEW n \in Nodes, NEW m \in Nodes, SyncIoCall(n, m)
      PROVE  AgentInv' /\ EntriesInv' /\ Step
    BY <1>8, SyncIoCallMoves, Zenon DEF Step, Resting
<1>9. ASSUME NEW n \in Nodes, Answered(n)
      PROVE  AgentInv' /\ EntriesInv' /\ Step
    BY <1>9, AnsweredMoves, Zenon DEF Step, Resting
<1>10. ASSUME NEW n \in Nodes, RpcTaskSubmit(n)
       PROVE  AgentInv' /\ EntriesInv' /\ Step
    BY <1>10, RpcSubmitMoves, Zenon DEF Step
<1>11. ASSUME NEW n \in Nodes, RpcTaskComplete(n)
       PROVE  AgentInv' /\ EntriesInv' /\ Step
    BY <1>11, RpcCompleteMoves, Zenon DEF Step, Resting
<1>12. ASSUME NEW n \in Nodes, NEW e \in Replicas, SignalUnblock(n, e)
       PROVE  AgentInv' /\ EntriesInv' /\ Step
    BY <1>12, SignalMoves, Zenon DEF Step
<1>13. ASSUME NEW n \in Nodes, CountOff(n)
       PROVE  AgentInv' /\ EntriesInv' /\ Step
    BY <1>13, CountOffMoves, Zenon DEF Step, Resting
<1>14. ASSUME NEW e \in Replicas, Execute(e)
       PROVE  AgentInv' /\ EntriesInv' /\ Step
    BY <1>14, ExecuteMoves, Zenon DEF Step
<1> QED
    BY <1>1, <1>2, <1>3, <1>4, <1>5, <1>6, <1>7, <1>8, <1>9, <1>10, <1>11, <1>12, <1>13,
       <1>14, Zenon DEF Next, Quiet, SubmitStep, AgentStep, HandlerStep

(* Every step keeps every entry single.                                     *)
LEMMA SingleStep ==
    ASSUME Types, SingleInv, Step
    PROVE  SingleInv'
<1>1. CASE Resting /\ Moved({}, {}, {})
    <2>1. \A t \in Tasks : st'[t] = "new" => st[t] = "new"
        <3>1. UNCHANGED st \/ \E t \in Tasks : st' = [st EXCEPT ![t] = "parked"]
                                          \/ st' = [st EXCEPT ![t] = "back"]
                                          \/ st' = [st EXCEPT ![t] = "complete"]
                                          \/ st' = [st EXCEPT ![t] = "deleted"]
            BY <1>1, Zenon DEF Resting, vars, submitter, Yield, Resume, PushCompletedTask, DelTask,
                        Answered, CallFails, RpcTaskComplete, CountOff,
                        IoCallServerWriteFails, Crash, SyncIoCall
        <3> QED
            BY <3>1, Zenon DEF Types
    <2> QED
        BY <1>1, <2>1, MovedSingle, ReplicaPair
<1>2. ASSUME NEW t \in Tasks, ClientPushSubmit(t), Moved(ReplicasOf(t), {}, {"todo"})
      PROVE  SingleInv'
    <2>1. \A r \in Replicas : st[r[1]]' = "new" => st[r[1]] = "new" /\ r \notin ReplicasOf(t)
        BY <1>2, ReplicaPair, Zenon DEF ClientPushSubmit, Types
    <2> QED
        BY <1>2, <2>1, MovedSingle, Zenon
<1>3. ASSUME NEW M, NEW A, NEW B, Moved(M, A, B), UNCHANGED st, A # {}, \A p, q \in B : p = q
      PROVE  SingleInv'
    <2>1. \A r \in Replicas : st[r[1]]' = "new" => st[r[1]] = "new" /\ r \notin M
        BY <1>3, Zenon DEF SingleInv, Moved
    <2> QED
        BY <1>3, <2>1, MovedSingle, Zenon
<1>4. ASSUME NEW t \in Tasks, NEW d \in Domains, Emplace(t, d),
             Moved({<<t, d>>}, {"todo"}, {"submit_"})
      PROVE  SingleInv'
    BY <1>3, <1>4, Zenon DEF Emplace
<1>5. ASSUME NEW n \in Nodes, ClientSubmit(n),
             Moved(Entries(submit_[n]), {"submit_"}, {"sending"})
      PROVE  SingleInv'
    BY <1>3, <1>5, Zenon DEF ClientSubmit, submitter
<1>6. ASSUME NEW n \in Nodes, RpcTaskSubmit(n), Moved(call[n], {"sending"}, {"inbox"})
      PROVE  SingleInv'
    BY <1>3, <1>6, Zenon DEF RpcTaskSubmit, submitter
<1>7. ASSUME NEW n \in Nodes, ServerComplete(n),
             Moved(Entries(complete_[n]), {"complete_"}, {"replying"})
      PROVE  SingleInv'
    BY <1>3, <1>7, Zenon DEF ServerComplete, submitter
<1>8. ASSUME NEW n \in Nodes, NEW e \in Replicas, SignalUnblock(n, e),
             Moved({e}, {"replying"}, {})
      PROVE  SingleInv'
    BY <1>3, <1>8, Zenon DEF SignalUnblock
<1>9. ASSUME NEW e \in Replicas, Execute(e), Moved({e}, {"inbox"}, {"complete_"})
      PROVE  SingleInv'
    BY <1>3, <1>9, Zenon DEF Execute, submitter
<1> QED
    BY <1>1, <1>2, <1>4, <1>5, <1>6, <1>7, <1>8, <1>9, Zenon DEF Step
-----------------------------------------------------------------------------
(* A replica runs between its inbox and complete_, and its results are back *)
(* when its entry has come to an end.                                       *)
ResultsInv ==
    /\ loaded \subseteq ran
    /\ \A n \in Nodes : phase[n] = "loaded" => call[n] \subseteq loaded
    /\ \A r \in Replicas :
        /\ Places(r) \cap {"todo", "submit_", "sending", "inbox"} # {} => r \notin ran
        /\ Places(r) \cap {"complete_", "replying"} # {} => r \in ran
        /\ st[r[1]] = "new" => r \notin ran
        /\ st[r[1]] # "new" /\ Places(r) = {} => r \in loaded

(* Steps at which no replica runs or is loaded, between places on the same  *)
(* side of the run.                                                         *)
LEMMA ResultsKept ==
    ASSUME SingleInv, ResultsInv, NEW M, NEW A, NEW B, Moved(M, A, B),
           UNCHANGED <<ran, loaded>>,
           \A n \in Nodes : phase'[n] = "loaded" => phase[n] = "loaded" /\ call'[n] \subseteq call[n],
           \A r \in Replicas : st'[r[1]] = "new" <=> st[r[1]] = "new",
           \/ B # {} /\ A # {} /\ A \cup B \subseteq {"todo", "submit_", "sending", "inbox"}
           \/ B # {} /\ A # {} /\ A \cup B \subseteq {"complete_", "replying"}
           \/ M = {}
    PROVE  ResultsInv'
<1>1. loaded' \subseteq ran'
    BY Zenon DEF ResultsInv
<1>2. \A n \in Nodes : phase'[n] = "loaded" => call'[n] \subseteq loaded'
    BY Zenon DEF ResultsInv
<1>3. ASSUME NEW r \in Replicas, r \notin M
      PROVE  ResultsInv!3!(r)'
    <2>1. Places(r)' = Places(r)
        BY <1>3, Zenon DEF Moved
    <2> QED
        BY <2>1, Zenon DEF ResultsInv
<1>4. ASSUME NEW r \in Replicas, r \in M
      PROVE  ResultsInv!3!(r)'
    <2>1. Places(r) = A /\ Places(r)' = B
        BY <1>4, Zenon DEF Moved
    <2>2. st[r[1]] # "new"
        BY <1>4, <2>1, Zenon DEF SingleInv
    <2>3. CASE A \cup B \subseteq {"todo", "submit_", "sending", "inbox"} /\ A # {} /\ B # {}
        BY <2>1, <2>2, <2>3, Zenon DEF ResultsInv
    <2>4. CASE A \cup B \subseteq {"complete_", "replying"} /\ A # {} /\ B # {}
        BY <2>1, <2>2, <2>4, Zenon DEF ResultsInv
    <2> QED
        BY <1>4, <2>3, <2>4, Zenon
<1> QED
    BY <1>1, <1>2, <1>3, <1>4, Zenon DEF ResultsInv

(* The states of a submit task after a step that moves nothing.             *)
LEMMA RestingStates ==
    ASSUME Types, Resting
    PROVE  /\ \A t \in Tasks : st'[t] = "new" <=> st[t] = "new"
           /\ UNCHANGED <<ran, woken, block_count_>>
<1>1. CASE \E t \in Tasks : Yield(t) \/ Resume(t) \/ PushCompletedTask(t) \/ DelTask(t)
    <2>1. PICK t \in Tasks : Yield(t) \/ Resume(t) \/ PushCompletedTask(t) \/ DelTask(t)
        BY <1>1, Zenon
    <2>2. UNCHANGED <<ran, woken, block_count_>>
        BY <2>1, Zenon DEF Yield, Resume, PushCompletedTask, DelTask, remote
    <2>3. \A s \in Tasks : st'[s] = "new" <=> st[s] = "new"
        BY <2>1 DEF Yield, Resume, PushCompletedTask, DelTask, Types
    <2> QED
        BY <2>2, <2>3, Zenon
<1>2. ASSUME UNCHANGED <<st, ran, woken, block_count_>>
      PROVE  /\ \A t \in Tasks : st'[t] = "new" <=> st[t] = "new"
             /\ UNCHANGED <<ran, woken, block_count_>>
    BY <1>2, Zenon
<1>3. CASE ~\E t \in Tasks : Yield(t) \/ Resume(t) \/ PushCompletedTask(t) \/ DelTask(t)
    <2>1. UNCHANGED <<st, ran, woken, block_count_>>
        BY <1>3, Zenon DEF Resting, vars, submitter, remote, Answered, CallFails, RpcTaskComplete,
                    CountOff, IoCallServerWriteFails, Crash, SyncIoCall
    <2> QED
        BY <1>2, <2>1, Zenon
<1> QED
    BY <1>1, <1>3, Zenon

(* Every step keeps that a replica ran and its results are back when they   *)
(* should be.                                                               *)
LEMMA ResultsStep ==
    ASSUME Types, AgentInv, EntriesInv, SingleInv, ResultsInv, Step
    PROVE  ResultsInv'
<1>1. ASSUME NEW n \in Nodes, RpcTaskComplete(n), Moved({}, {}, {})
      PROVE  ResultsInv'
    <2>1. loaded' = loaded \cup call[n] /\ UNCHANGED <<ran, st, call>>
        BY <1>1, Zenon DEF RpcTaskComplete, LoadEnd, submitter
    <2>2. call[n] \subseteq ran
        <3> SUFFICES ASSUME NEW r \in call[n] PROVE r \in ran
            BY Zenon
        <3>1. r \in Replicas /\ Dest(r) = n /\ unblocked[n] = Null
            BY <1>1, Zenon DEF RpcTaskComplete, AgentInv, EntriesInv, Types
        <3>2. Replying(r)
            BY <1>1, <3>1, NullIsNobody, Zenon DEF RpcTaskComplete, Replying
        <3> QED
            BY <3>1, <3>2, PlacesAre, Zenon DEF ResultsInv
    <2>3. \A k \in Nodes : phase'[k] = "loaded" => call'[k] \subseteq loaded'
        BY <1>1, <2>1, Zenon DEF RpcTaskComplete, Types, ResultsInv
    <2>4. \A r \in Replicas : Places(r)' = Places(r)
        BY <1>1, Zenon DEF Moved
    <2> QED
        BY <2>1, <2>2, <2>3, <2>4, Zenon DEF ResultsInv
<1>2. CASE Resting /\ Moved({}, {}, {}) /\ ~\E n \in Nodes : RpcTaskComplete(n)
    <2>1. \A t \in Tasks : st'[t] = "new" <=> st[t] = "new"
        BY <1>2, RestingStates, Zenon
    <2>2. UNCHANGED <<ran, loaded>>
        BY <1>2, Zenon DEF Resting, vars, submitter, remote, Yield, Resume, PushCompletedTask, DelTask,
                    Answered, CallFails, CountOff, IoCallServerWriteFails, Crash, SyncIoCall
    <2>3. \A n \in Nodes : phase'[n] = "loaded" => phase[n] = "loaded" /\ call'[n] \subseteq call[n]
        <3>1. ASSUME UNCHANGED rpc
              PROVE  \A n \in Nodes : phase'[n] = "loaded" =>
                        phase[n] = "loaded" /\ call'[n] \subseteq call[n]
            BY <3>1, Zenon DEF rpc
        <3>2. ASSUME NEW k \in Nodes,
                     Answered(k) \/ CountOff(k) \/ \E m \in Nodes : SyncIoCall(k, m)
              PROVE  \A n \in Nodes : phase'[n] = "loaded" =>
                        phase[n] = "loaded" /\ call'[n] \subseteq call[n]
            <4>1. CASE Answered(k)
                BY <4>1, Zenon DEF Answered, Types
            <4>2. CASE CountOff(k)
                BY <4>2 DEF CountOff, AgentInv, Types
            <4>3. CASE \E m \in Nodes : SyncIoCall(k, m)
                BY <4>3 DEF SyncIoCall, Types
            <4> QED
                BY <3>2, <4>1, <4>2, <4>3, Zenon
        <3>3. UNCHANGED rpc \/ \E k \in Nodes :
                    Answered(k) \/ CountOff(k) \/ \E m \in Nodes : SyncIoCall(k, m)
            BY <1>2, Zenon DEF Resting, vars, Yield, Resume, PushCompletedTask, DelTask, CallFails,
                        IoCallServerWriteFails, Crash
        <3> QED
            BY <3>1, <3>2, <3>3, Zenon
    <2> QED
        BY <1>2, <2>1, <2>2, <2>3, ReplicaPair, ResultsKept, Zenon
<1>3. ASSUME NEW t \in Tasks, ClientPushSubmit(t), Moved(ReplicasOf(t), {}, {"todo"})
      PROVE  ResultsInv'
    <2>1. UNCHANGED <<ran, loaded, phase, call>>
        BY <1>3, Zenon DEF ClientPushSubmit, remote, rpc
    <2>2. /\ st[t] = "new" /\ st'[t] # "new"
          /\ \A s \in Tasks \ {t} : st'[s] = st[s]
        BY <1>3, Zenon DEF ClientPushSubmit, Types
    <2>3. ASSUME NEW r \in Replicas, r \notin ReplicasOf(t)
          PROVE  ResultsInv!3!(r)'
        <3>1. Places(r)' = Places(r) /\ st'[r[1]] = st[r[1]]
            BY <1>3, <2>2, <2>3, ReplicaPair, Zenon DEF Moved
        <3> QED
            BY <2>1, <3>1, Zenon DEF ResultsInv
    <2>4. ASSUME NEW r \in Replicas, r \in ReplicasOf(t)
          PROVE  ResultsInv!3!(r)'
        <3>1. Places(r)' = {"todo"} /\ r[1] = t
            BY <1>3, <2>4, ReplicaPair, Zenon DEF Moved
        <3>2. r \notin ran'
            BY <2>1, <2>2, <3>1, Zenon DEF ResultsInv
        <3> QED
            BY <2>2, <3>1, <3>2, Zenon
    <2> QED
        BY <2>1, <2>3, <2>4, Zenon DEF ResultsInv
<1>4. ASSUME NEW t \in Tasks, NEW d \in Domains, Emplace(t, d),
             Moved({<<t, d>>}, {"todo"}, {"submit_"})
      PROVE  ResultsInv'
    <2>1. UNCHANGED <<ran, loaded, phase, call, st>>
        BY <1>4, Zenon DEF Emplace, remote, rpc
    <2> QED
        BY <1>4, <2>1, ResultsKept, Zenon
<1>5. ASSUME NEW n \in Nodes, ClientSubmit(n),
             Moved(Entries(submit_[n]), {"submit_"}, {"sending"})
      PROVE  ResultsInv'
    <2>1. UNCHANGED <<ran, loaded, phase, call, st>>
        BY <1>5, Zenon DEF ClientSubmit, remote, submitter
    <2> QED
        BY <1>5, <2>1, ResultsKept, Zenon
<1>6. ASSUME NEW n \in Nodes, RpcTaskSubmit(n), Moved(call[n], {"sending"}, {"inbox"})
      PROVE  ResultsInv'
    <2>1. UNCHANGED <<ran, loaded, call, st>>
        BY <1>6, Zenon DEF RpcTaskSubmit, submitter
    <2>2. \A k \in Nodes : phase'[k] = "loaded" => phase[k] = "loaded"
        BY <1>6, Zenon DEF RpcTaskSubmit, Types
    <2> QED
        BY <1>6, <2>1, <2>2, ResultsKept, Zenon
<1>7. ASSUME NEW n \in Nodes, ServerComplete(n),
             Moved(Entries(complete_[n]), {"complete_"}, {"replying"})
      PROVE  ResultsInv'
    <2>1. UNCHANGED <<ran, loaded, phase, call, st>>
        BY <1>7, Zenon DEF ServerComplete, remote, submitter
    <2> QED
        BY <1>7, <2>1, ResultsKept, Zenon
<1>8. ASSUME NEW n \in Nodes, NEW e \in Replicas, SignalUnblock(n, e),
             Moved({e}, {"replying"}, {})
      PROVE  ResultsInv'
    <2>1. UNCHANGED <<ran, loaded, phase, call, st>>
        BY <1>8, Zenon DEF SignalUnblock, remote
    <2>2. e \in loaded
        BY <1>8, Zenon DEF SignalUnblock, ResultsInv
    <2>3. Places(e) = {"replying"} /\ Places(e)' = {}
        BY <1>8, Zenon DEF Moved
    <2>4. ResultsInv!3!(e)'
        BY <2>1, <2>2, <2>3, Zenon DEF ResultsInv
    <2>5. ASSUME NEW r \in Replicas, r # e PROVE ResultsInv!3!(r)'
        <3>1. Places(r)' = Places(r)
            BY <1>8, <2>5, Zenon DEF Moved
        <3> QED
            BY <2>1, <3>1, Zenon DEF ResultsInv
    <2> QED
        BY <2>1, <2>4, <2>5, Zenon DEF ResultsInv
<1>9. ASSUME NEW e \in Replicas, Execute(e), Moved({e}, {"inbox"}, {"complete_"})
      PROVE  ResultsInv'
    <2>1. UNCHANGED <<loaded, phase, call, st>> /\ ran' = ran \cup {e}
        BY <1>9, Zenon DEF Execute, submitter, rpc
    <2>2. Places(e) = {"inbox"} /\ Places(e)' = {"complete_"}
        BY <1>9, Zenon DEF Moved
    <2>3. st[e[1]] # "new"
        BY <2>2, Zenon DEF SingleInv
    <2>4. ResultsInv!3!(e)'
        BY <2>1, <2>2, <2>3, Zenon
    <2>5. ASSUME NEW r \in Replicas, r # e PROVE ResultsInv!3!(r)'
        <3>1. Places(r)' = Places(r)
            BY <1>9, <2>5, Zenon DEF Moved
        <3> QED
            BY <2>1, <2>5, <3>1, Zenon DEF ResultsInv
    <2> QED
        BY <2>1, <2>4, <2>5, Zenon DEF ResultsInv
<1> QED
    BY <1>1, <1>2, <1>3, <1>4, <1>5, <1>6, <1>7, <1>8, <1>9, Zenon DEF Step
-----------------------------------------------------------------------------
(* There are finitely many replicas.                                        *)
LEMMA EntriesFinite ==
    /\ IsFiniteSet(Replicas)
    /\ \A S \in SUBSET Replicas : IsFiniteSet(S) /\ Cardinality(S) \in Nat
<1>1. IsFiniteSet(Tasks \X Domains)
    BY FS_Product, RemoteAssumption, Zenon
<1>2. Replicas \subseteq Tasks \X Domains
    BY ReplicaPair
<1>3. IsFiniteSet(Replicas)
    BY <1>1, <1>2, FS_Subset, Zenon
<1> QED
    BY <1>3, FS_Subset, FS_CardinalityType, Zenon

(* Every step keeps the types.                                              *)
LEMMA TypesStep ==
    ASSUME Types, AgentInv, Step
    PROVE  Types'
<1>1. CASE UNCHANGED vars
    BY <1>1, Zenon DEF Types, vars, submitter, queues, rpc, remote
<1>2. ASSUME NEW t \in Tasks, Yield(t) \/ Resume(t) \/ PushCompletedTask(t) \/ DelTask(t)
      PROVE  Types'
    <2>1. UNCHANGED <<todo, block_count_, woken, queues, pending_, rpc, remote, stale,
                      crashes, down>>
        BY <1>2, Zenon DEF Yield, Resume, PushCompletedTask, DelTask
    <2>2. st' \in [Tasks -> {"new", "pushing", "parked", "back", "complete", "deleted"}]
        <3>1. PICK s \in {"parked", "back", "complete", "deleted"} : st' = [st EXCEPT ![t] = s]
            BY <1>2, Zenon DEF Yield, Resume, PushCompletedTask, DelTask
        <3> QED
            BY <3>1 DEF Types
    <2>3. freed' \subseteq Replicas
        BY <1>2, ReplicaPair DEF Yield, Resume, PushCompletedTask, DelTask, Types
    <2> QED
        BY <2>1, <2>2, <2>3, Zenon DEF Types, queues, rpc, remote
<1>3. ASSUME NEW n \in Nodes, CallFails(n) \/ IoCallServerWriteFails(n) \/ Crash(n)
      PROVE  Types'
    <2>1. UNCHANGED <<submitter, queues, pending_, rpc, remote, stale>>
        BY <1>3, Zenon DEF CallFails, IoCallServerWriteFails, Crash
    <2>2. down' \subseteq Nodes
        BY <1>3 DEF CallFails, IoCallServerWriteFails, Crash, Types, AgentInv
    <2>3. crashes' \in 0..MaxCrashes
        BY <1>3, RemoteAssumption DEF CallFails, IoCallServerWriteFails, Crash, Types
    <2> QED
        BY <2>1, <2>2, <2>3, Zenon DEF Types, submitter, queues, rpc, remote
<1>4. ASSUME NEW t \in Tasks, ClientPushSubmit(t)
      PROVE  Types'
    <2>1. Targets[t] \subseteq Domains /\ BlocksFor(t) \in Int
        BY RemoteAssumption, FS_Subset, FS_CardinalityType DEF BlocksFor
    <2> QED
        BY <1>4, <2>1 DEF ClientPushSubmit, Types, queues, rpc, remote
<1>5. ASSUME NEW t \in Tasks, NEW d \in Domains, Emplace(t, d), <<t, d>> \in Replicas
      PROVE  Types'
    <2>1. NodeOf[t] \in Nodes
        BY RemoteAssumption, Zenon
    <2>2. submit_' \in [Nodes -> Seq(Replicas)]
        BY <1>5, <2>1 DEF Emplace, Types
    <2> QED
        BY <1>5, <2>2, Zenon DEF Emplace, Types, rpc, remote
<1>6. ASSUME NEW n \in Nodes, ClientSubmit(n)
      PROVE  Types'
    <2>1. Entries(submit_[n]) \subseteq Replicas /\ Drained(submit_[n]) \in Seq(Replicas)
        BY EntriesAre DEF Types, Drained
    <2>2. Counted(Entries(submit_[n])) \in Int
        BY <2>1, EntriesFinite DEF Counted
    <2> QED
        BY <1>6, <2>1, <2>2 DEF ClientSubmit, Types, submitter, remote
<1>7. ASSUME NEW n \in Nodes, ServerComplete(n)
      PROVE  Types'
    <2>1. Entries(complete_[n]) \subseteq Replicas /\ <<>> \in Seq(Replicas)
        BY EntriesAre DEF Types
    <2> QED
        BY <1>7, <2>1, Zenon DEF ServerComplete, Types, submitter, remote
<1>8. ASSUME NEW n \in Nodes, NEW m \in Nodes, SyncIoCall(n, m)
      PROVE  Types'
    BY <1>8, Zenon DEF SyncIoCall, Types, submitter, queues, remote
<1>9. ASSUME NEW n \in Nodes, Answered(n)
      PROVE  Types'
    BY <1>9, Zenon DEF Answered, Types, submitter, queues, remote
<1>10. ASSUME NEW n \in Nodes, RpcTaskSubmit(n)
       PROVE  Types'
    BY <1>10, Zenon DEF RpcTaskSubmit, Types, submitter, queues
<1>11. ASSUME NEW n \in Nodes, RpcTaskComplete(n)
       PROVE  Types'
    BY <1>11, Zenon DEF RpcTaskComplete, LoadEnd, Types, submitter, queues
<1>12. ASSUME NEW n \in Nodes, NEW e \in Replicas, SignalUnblock(n, e)
       PROVE  Types'
    <2>1. e[1] \in Tasks
        BY ReplicaPair, Zenon
    <2>2. block_count_' \in [Tasks -> Int] /\ woken' \subseteq Tasks
        BY <1>12, <2>1 DEF SignalUnblock, Types
    <2>3. unblocked' \in [Nodes -> Replicas \cup {Null}]
        BY <1>12, Zenon DEF SignalUnblock, Types
    <2> QED
        BY <1>12, <2>2, <2>3, Zenon DEF SignalUnblock, Types, queues, remote
<1>13. ASSUME NEW n \in Nodes, CountOff(n)
       PROVE  Types'
    <2>1. peer[n] \in Nodes /\ unblocked[n] \in Replicas
        BY <1>13, Zenon DEF CountOff, AgentInv, Types
    <2>2. pending_' \in [Nodes -> Int]
        BY <1>13, <2>1 DEF CountOff, Types
    <2> QED
        BY <1>13, <2>2, Zenon DEF CountOff, Types, submitter, queues, remote
<1>14. ASSUME NEW e \in Replicas, Execute(e)
       PROVE  Types'
    <2>1. complete_' \in [Nodes -> Seq(Replicas)]
        BY <1>14, ReplicaPair DEF Execute, Types
    <2> QED
        BY <1>14, <2>1, Zenon DEF Execute, Types, submitter, rpc
<1> QED
    BY <1>1, <1>2, <1>3, <1>4, <1>5, <1>6, <1>7, <1>8, <1>9, <1>10, <1>11, <1>12, <1>13,
       <1>14, Zenon DEF Step, Resting

-----------------------------------------------------------------------------
(* The replicas of a task that are on their way.                            *)
OnTheWay(t) == {r \in ReplicasOf(t) : Places(r) # {}}

(* A submit task is pushed, and resumes, when none of its replicas is on    *)
(* its way; its memory and theirs is freed after that.                      *)
WokenInv ==
    /\ \A t \in woken : st[t] # "new" /\ OnTheWay(t) = {}
    /\ \A t \in Tasks : st[t] \in {"back", "complete", "deleted"} => t \in woken
    /\ \A r \in freed : r[1] \in woken

(* A task has as many replicas as targets.                                  *)
LEMMA ReplicasCount ==
    ASSUME NEW t \in Tasks
    PROVE  Cardinality(ReplicasOf(t)) = Cardinality(Targets[t])
<1>1. IsFiniteSet(Targets[t])
    BY RemoteAssumption, FS_Subset, Zenon
<1>2. IsFiniteSet({t}) /\ Cardinality({t}) = 1
    BY FS_Singleton, Zenon
<1>3. Cardinality(ReplicasOf(t)) = Cardinality({t}) * Cardinality(Targets[t])
    BY <1>1, <1>2, FS_Product, Zenon DEF ReplicasOf
<1>4. Cardinality(Targets[t]) \in Nat
    BY <1>1, FS_CardinalityType, Zenon
<1> QED
    BY <1>2, <1>3, <1>4

(* A move from somewhere to somewhere leaves as many on their way.          *)
LEMMA WayKept ==
    ASSUME NEW M, NEW A, NEW B, Moved(M, A, B), M = {} \/ (A # {} /\ B # {})
    PROVE  \A t \in Tasks : OnTheWay(t)' = OnTheWay(t)
<1>1. \A r \in Replicas : Places(r)' # {} <=> Places(r) # {}
    BY Zenon DEF Moved
<1> QED
    BY <1>1, ReplicaPair, Zenon DEF OnTheWay

(* Then the counts stay exact, if the step leaves the submit tasks alone.   *)
LEMMA CountKept ==
    ASSUME BlockCountExact, WokenInv, UNCHANGED <<st, block_count_, woken, freed>>,
           \A t \in Tasks : OnTheWay(t)' = OnTheWay(t), woken \subseteq Tasks
    PROVE  BlockCountExact' /\ WokenInv'
<1>1. BlockCountExact'
    BY Zenon DEF BlockCountExact, OnTheWay
<1>2. WokenInv'
    BY Zenon DEF WokenInv
<1> QED
    BY <1>1, <1>2, Zenon

(* Every step keeps block_count_ exact: pushing sets it, SignalUnblock      *)
(* takes one off, and no other step moves an entry on or off its way.       *)
LEMMA CountStep ==
    ASSUME Types, SingleInv, BlockCountExact, WokenInv, Step
    PROVE  BlockCountExact' /\ WokenInv'
<1>1. CASE Resting /\ Moved({}, {}, {})
    <2>1. UNCHANGED <<block_count_, woken>> /\ \A t \in Tasks : st'[t] = "new" <=> st[t] = "new"
        BY <1>1, RestingStates, Zenon
    <2>2. \A t \in Tasks : OnTheWay(t)' = OnTheWay(t)
        BY <1>1, WayKept, Zenon
    <2>3. BlockCountExact'
        BY <2>1, <2>2, Zenon DEF BlockCountExact, OnTheWay
    <2>4. \A t \in woken' : st'[t] # "new" /\ OnTheWay(t)' = {}
        BY <2>1, <2>2, Zenon DEF WokenInv, Types
    <2>5. /\ \A t \in Tasks : st'[t] \in {"back", "complete", "deleted"} => t \in woken
          /\ \A r \in freed' : r[1] \in woken
        <3>1. ASSUME NEW t \in Tasks, Yield(t) \/ Resume(t) \/ PushCompletedTask(t) \/ DelTask(t)
              PROVE  <2>5
            <4>1. CASE Yield(t)
                BY <4>1, Zenon DEF Yield, WokenInv, Types
            <4>2. CASE Resume(t)
                BY <4>2, ReplicaPair, Zenon DEF Resume, WokenInv, Types
            <4>3. CASE PushCompletedTask(t)
                BY <4>3, Zenon DEF PushCompletedTask, WokenInv, Types
            <4>4. CASE DelTask(t)
                BY <4>4, ReplicaPair, Zenon DEF DelTask, WokenInv, Types
            <4> QED
                BY <3>1, <4>1, <4>2, <4>3, <4>4, Zenon
        <3>2. CASE ~\E t \in Tasks : Yield(t) \/ Resume(t) \/ PushCompletedTask(t) \/ DelTask(t)
            <4>1. UNCHANGED <<st, freed>>
                BY <1>1, <3>2, Zenon DEF Resting, vars, submitter, Answered, CallFails,
                        RpcTaskComplete, CountOff, IoCallServerWriteFails, Crash, SyncIoCall
            <4> QED
                BY <4>1, Zenon DEF WokenInv
        <3> QED
            BY <3>1, <3>2, Zenon
    <2> QED
        BY <2>1, <2>3, <2>4, <2>5, Zenon DEF WokenInv
<1>2. ASSUME NEW t \in Tasks, ClientPushSubmit(t), Moved(ReplicasOf(t), {}, {"todo"})
      PROVE  BlockCountExact' /\ WokenInv'
    <2>1. /\ st[t] = "new" /\ st' = [st EXCEPT ![t] = "pushing"]
          /\ block_count_' = [block_count_ EXCEPT ![t] = @ + Cardinality(Targets[t])]
          /\ UNCHANGED <<woken, freed>>
        BY <1>2, Zenon DEF ClientPushSubmit, BlocksFor
    <2>2. OnTheWay(t) = {} /\ OnTheWay(t)' = ReplicasOf(t)
        BY <1>2, ReplicaPair DEF OnTheWay, Moved
    <2>3. \A s \in Tasks \ {t} : OnTheWay(s)' = OnTheWay(s)
        <3> SUFFICES ASSUME NEW s \in Tasks \ {t}, NEW r \in ReplicasOf(s)
                     PROVE  Places(r)' = Places(r)
            BY Zenon DEF OnTheWay
        <3>1. r \in Replicas /\ r \notin ReplicasOf(t)
            BY ReplicaPair, Zenon
        <3> QED
            BY <1>2, <3>1, Zenon DEF Moved
    <2>4. block_count_[t] = 0
        BY <2>2, FS_EmptySet, Zenon DEF BlockCountExact, OnTheWay
    <2>5. block_count_'[t] = Cardinality(OnTheWay(t)')
        <3>1. Cardinality(Targets[t]) \in Nat
            BY RemoteAssumption, FS_Subset, FS_CardinalityType, Zenon
        <3>2. block_count_'[t] = Cardinality(Targets[t])
            BY <2>1, <2>4, <3>1 DEF Types
        <3> QED
            BY <2>2, <3>2, ReplicasCount, Zenon
    <2>6. BlockCountExact'
        BY <2>1, <2>3, <2>5, Zenon DEF BlockCountExact, OnTheWay, Types
    <2>7. t \notin woken
        BY <2>1, Zenon DEF WokenInv
    <2>8. WokenInv'
        BY <2>1, <2>3, <2>7, Zenon DEF WokenInv, Types
    <2> QED
        BY <2>6, <2>8, Zenon
<1>3. ASSUME NEW n \in Nodes, NEW e \in Replicas, SignalUnblock(n, e),
             Moved({e}, {"replying"}, {})
      PROVE  BlockCountExact' /\ WokenInv'
    <2> DEFINE t == e[1]
    <2>1. t \in Tasks /\ e \in ReplicasOf(t)
        BY ReplicaPair, Zenon
    <2>2. /\ block_count_' = [block_count_ EXCEPT ![t] = @ - 1]
          /\ woken' = IF block_count_[t] = 1 THEN woken \cup {t} ELSE woken
          /\ UNCHANGED <<st, freed>>
        BY <1>3, Zenon DEF SignalUnblock
    <2>3. \A s \in Tasks \ {t} : OnTheWay(s)' = OnTheWay(s)
        <3> SUFFICES ASSUME NEW s \in Tasks \ {t}, NEW r \in ReplicasOf(s)
                     PROVE  Places(r)' = Places(r)
            BY Zenon DEF OnTheWay
        <3>1. r \in Replicas /\ r # e
            BY ReplicaPair, Zenon
        <3> QED
            BY <1>3, <3>1, Zenon DEF Moved
    <2>4. e \in OnTheWay(t) /\ OnTheWay(t)' = OnTheWay(t) \ {e}
        BY <1>3, <2>1, ReplicaPair DEF Moved, OnTheWay
    <2>5. IsFiniteSet(OnTheWay(t)) /\ Cardinality(OnTheWay(t)) \in Nat
        BY <2>1, EntriesFinite, ReplicaPair, Zenon DEF OnTheWay
    <2>6. Cardinality(OnTheWay(t)') = Cardinality(OnTheWay(t)) - 1
        <3>1. \A S : IsFiniteSet(S) /\ e \in S => Cardinality(S \ {e}) = Cardinality(S) - 1
            BY FS_RemoveElement, Zenon
        <3> QED
            BY <2>4, <2>5, <3>1, Zenon
    <2>7. block_count_[t] = Cardinality(OnTheWay(t))
        BY <2>1, Zenon DEF BlockCountExact, OnTheWay
    <2>8. block_count_'[t] = Cardinality(OnTheWay(t)')
        BY <2>1, <2>2, <2>6, <2>7, Zenon DEF Types
    <2>9. BlockCountExact'
        BY <2>2, <2>3, <2>8, Zenon DEF BlockCountExact, OnTheWay, Types
    <2>10. block_count_[t] = 1 => OnTheWay(t)' = {}
        <3>1. ASSUME Cardinality(OnTheWay(t)) = 1 PROVE OnTheWay(t) = {e}
            <4>1. \E x : OnTheWay(t) = {x}
                BY <2>5, <3>1, FS_Singleton, Zenon
            <4> QED
                BY <2>4, <4>1, Zenon
        <3> QED
            BY <2>4, <2>7, <3>1, Zenon
    <2>11. st[t] # "new" /\ t \notin woken
        BY <2>1, <2>4, Zenon DEF SingleInv, WokenInv, OnTheWay
    <2>12. WokenInv'
        BY <2>1, <2>2, <2>3, <2>10, <2>11, Zenon DEF WokenInv, Types
    <2> QED
        BY <2>9, <2>12, Zenon
<1>4. ASSUME NEW M, NEW A, NEW B, Moved(M, A, B), A # {}, B # {},
             UNCHANGED <<st, block_count_, woken, freed>>
      PROVE  BlockCountExact' /\ WokenInv'
    BY <1>4, WayKept, CountKept, Zenon DEF Types
<1>5. ASSUME NEW t \in Tasks, NEW d \in Domains, Emplace(t, d),
             Moved({<<t, d>>}, {"todo"}, {"submit_"})
      PROVE  BlockCountExact' /\ WokenInv'
    BY <1>4, <1>5, Zenon DEF Emplace
<1>6. ASSUME NEW n \in Nodes, ClientSubmit(n),
             Moved(Entries(submit_[n]), {"submit_"}, {"sending"})
      PROVE  BlockCountExact' /\ WokenInv'
    BY <1>4, <1>6, Zenon DEF ClientSubmit, submitter
<1>7. ASSUME NEW n \in Nodes, RpcTaskSubmit(n), Moved(call[n], {"sending"}, {"inbox"})
      PROVE  BlockCountExact' /\ WokenInv'
    BY <1>4, <1>7, Zenon DEF RpcTaskSubmit, submitter
<1>8. ASSUME NEW n \in Nodes, ServerComplete(n),
             Moved(Entries(complete_[n]), {"complete_"}, {"replying"})
      PROVE  BlockCountExact' /\ WokenInv'
    BY <1>4, <1>8, Zenon DEF ServerComplete, submitter
<1>9. ASSUME NEW e \in Replicas, Execute(e), Moved({e}, {"inbox"}, {"complete_"})
      PROVE  BlockCountExact' /\ WokenInv'
    BY <1>4, <1>9, Zenon DEF Execute, submitter
<1> QED
    BY <1>1, <1>2, <1>3, <1>5, <1>6, <1>7, <1>8, <1>9, Zenon DEF Step
-----------------------------------------------------------------------------
AfterSubmit == {"sending", "inbox", "complete_", "replying"}

(* The replicas that pending_ of node n counts.                             *)
Pending(n) ==
    {r \in Replicas :
        /\ r[1] \notin Flushes
        /\ Source(r) = n
        /\ Places(r) \cap AfterSubmit # {} \/ unblocked[Dest(r)] = r}

(* What a handler has signalled is no entry any more.                       *)
UnblockedInv == \A n \in Nodes : unblocked[n] # Null => Places(unblocked[n]) = {}

(* PendingExact in terms of Pending ...                                     *)
LEMMA PendingExactIs ==
    PendingExact <=> stale \/ \A n \in Nodes : pending_[n] = Cardinality(Pending(n))
    BY Zenon DEF PendingExact, Pending, AfterSubmit

(* ... and after a step.                                                    *)
LEMMA PendingExactIsAfter ==
    PendingExact' <=> stale' \/ \A n \in Nodes : pending_'[n] = Cardinality(Pending(n)')
    BY Zenon DEF PendingExact, Pending, AfterSubmit

(* A move on one side of ClientSubmit changes no counter.                   *)
LEMMA PendingKept ==
    ASSUME Types, UnblockedInv, PendingExact, NEW M, NEW A, NEW B, Moved(M, A, B),
           UNCHANGED <<unblocked, pending_, stale>>,
           M = {} \/ (A \cap AfterSubmit # {} <=> B \cap AfterSubmit # {}),
           \A n \in Nodes : unblocked[n] \notin M
    PROVE  UnblockedInv' /\ PendingExact'
<1>1. UnblockedInv'
    BY Zenon DEF UnblockedInv, Moved, Types
<1>2. \A r \in Replicas : Places(r)' \cap AfterSubmit # {} <=> Places(r) \cap AfterSubmit # {}
    BY Zenon DEF Moved
<1>3. \A n \in Nodes : Pending(n)' = Pending(n)
    BY <1>2, Zenon DEF Pending
<1> QED
    BY <1>1, <1>3, PendingExactIs, PendingExactIsAfter, Zenon

(* What is signalled is in no place, so it is not moved.                    *)
LEMMA UnblockedStays ==
    ASSUME Types, UnblockedInv, NEW M, NEW A, NEW B, Moved(M, A, B), A # {},
           M \subseteq Replicas
    PROVE  \A n \in Nodes : unblocked[n] \notin M
<1>1. ASSUME NEW n \in Nodes, unblocked[n] \in M PROVE FALSE
    BY <1>1, NullIsNobody, Zenon DEF UnblockedInv, Moved
<1> QED
    BY <1>1, Zenon

(* Every step keeps pending_ exact: ClientSubmit adds what it drains,       *)
(* CountOff takes one off, and no other step changes what is sent.          *)
LEMMA PendingStep ==
    ASSUME Types, AgentInv, EntriesInv, SingleInv, ResultsInv, UnblockedInv, PendingExact, Step
    PROVE  UnblockedInv' /\ PendingExact'
<1>1. ASSUME NEW n \in Nodes, CountOff(n), Moved({}, {}, {})
      PROVE  UnblockedInv' /\ PendingExact'
    <2>1. PICK e : e = unblocked[n]
        BY Zenon
    <2>2. PICK m : m = peer[n]
        BY Zenon
    <2>3. /\ e # Null /\ e \in Replicas /\ e \in call[n] /\ agent[n] = "complete"
          /\ m \in Nodes
        BY <1>1, <2>1, <2>2, Zenon DEF CountOff, AgentInv, Types
    <2>4. Dest(e) = n /\ Source(e) = m
        BY <2>2, <2>3, Zenon DEF EntriesInv, Receiver
    <2>5. unblocked'[n] = Null /\ \A k \in Nodes \ {n} : unblocked'[k] = unblocked[k]
        BY <1>1, Zenon DEF CountOff, Types
    <2>6. Places(e) = {} /\ \A r \in Replicas : Places(r)' = Places(r)
        BY <1>1, <2>1, <2>3, Zenon DEF UnblockedInv, Moved
    <2>7. UnblockedInv'
        BY <2>5, <2>6, Zenon DEF UnblockedInv, Types
    <2>8. \A k \in Nodes : Pending(k)' = Pending(k) \ {e}
        <3> SUFFICES ASSUME NEW r \in Replicas
                     PROVE  unblocked'[Dest(r)] = r <=> unblocked[Dest(r)] = r /\ r # e
            BY <2>6, Zenon DEF Pending
        <3>1. Dest(r) \in Nodes /\ r # Null
            BY ReplicaPair, NullIsNobody, Zenon
        <3> QED
            BY <2>1, <2>4, <2>5, <3>1, Zenon
    <2>9. e \in Pending(m) <=> e[1] \notin Flushes
        BY <2>1, <2>3, <2>4, Zenon DEF Pending
    <2>10. \A k \in Nodes \ {m} : e \notin Pending(k)
        BY <2>4, Zenon DEF Pending
    <2>11. CASE e \in freed
        BY <1>1, <2>1, <2>7, <2>11, PendingExactIsAfter, Zenon DEF CountOff
    <2>12. CASE e \notin freed
        <3>1. pending_' = [pending_ EXCEPT ![m] = @ - (IF e[1] \in Flushes THEN 0 ELSE 1)]
            BY <1>1, <2>1, <2>2, <2>12, Zenon DEF CountOff, IsFlush
        <3>2. stale' = stale
            BY <1>1, <2>1, <2>12, Zenon DEF CountOff, Types
        <3>3. \A k \in Nodes : IsFiniteSet(Pending(k)) /\ Cardinality(Pending(k)) \in Nat
            BY EntriesFinite, Zenon DEF Pending
        <3>4. ASSUME NEW k \in Nodes, pending_[k] = Cardinality(Pending(k))
              PROVE  pending_'[k] = Cardinality(Pending(k)')
            <4>1. CASE k = m
                <5>1. Cardinality(Pending(k)') = IF e[1] \notin Flushes THEN Cardinality(Pending(k)) - 1
                                                 ELSE Cardinality(Pending(k))
                    BY <2>8, <2>9, <3>3, <4>1, FS_RemoveElement
                <5> QED
                    BY <3>1, <3>3, <3>4, <4>1, <5>1 DEF Types
            <4>2. CASE k # m
                <5>1. Pending(k)' = Pending(k)
                    BY <2>8, <2>10, <4>2, Zenon
                <5> QED
                    BY <3>1, <3>4, <4>2, <5>1, Zenon DEF Types
            <4> QED
                BY <4>1, <4>2, Zenon
        <3> QED
            BY <2>7, <3>2, <3>4, PendingExactIs, PendingExactIsAfter, Zenon
    <2> QED
        BY <2>11, <2>12, Zenon
<1>2. CASE Resting /\ Moved({}, {}, {}) /\ ~\E n \in Nodes : CountOff(n)
    <2>1. UNCHANGED <<unblocked, pending_, stale>>
        BY <1>2, Zenon DEF Resting, vars, rpc, Yield, Resume, PushCompletedTask, DelTask,
                    Answered, CallFails, RpcTaskComplete, IoCallServerWriteFails, Crash, SyncIoCall
    <2> QED
        BY <1>2, <2>1, PendingKept
<1>3. ASSUME NEW t \in Tasks, ClientPushSubmit(t), Moved(ReplicasOf(t), {}, {"todo"})
      PROVE  UnblockedInv' /\ PendingExact'
    <2>1. UNCHANGED <<unblocked, pending_, stale>>
        BY <1>3, Zenon DEF ClientPushSubmit, rpc
    <2>2. ASSUME NEW n \in Nodes, unblocked[n] \in ReplicasOf(t) PROVE FALSE
        <3>1. unblocked[n] \in Replicas /\ unblocked[n][1] = t
            BY <2>2, ReplicaPair, Zenon
        <3>2. unblocked[n] \in ran
            BY <3>1, NullIsNobody, Zenon DEF AgentInv, ResultsInv
        <3> QED
            BY <1>3, <3>1, <3>2, Zenon DEF ResultsInv, ClientPushSubmit
    <2> QED
        BY <1>3, <2>1, <2>2, PendingKept, Zenon DEF AfterSubmit
<1>4. ASSUME NEW t \in Tasks, NEW d \in Domains, Emplace(t, d), <<t, d>> \in Replicas,
             Moved({<<t, d>>}, {"todo"}, {"submit_"})
      PROVE  UnblockedInv' /\ PendingExact'
    <2>1. UNCHANGED <<unblocked, pending_, stale>>
        BY <1>4, Zenon DEF Emplace, rpc
    <2>2. \A n \in Nodes : unblocked[n] \notin {<<t, d>>}
        BY <1>4, UnblockedStays, Zenon
    <2> QED
        BY <1>4, <2>1, <2>2, PendingKept, Zenon DEF AfterSubmit
<1>5. ASSUME NEW n \in Nodes, ClientSubmit(n),
             Moved(Entries(submit_[n]), {"submit_"}, {"sending"})
      PROVE  UnblockedInv' /\ PendingExact'
    <2>1. PICK M : M = Entries(submit_[n])
        BY Zenon
    <2>2. M \subseteq Replicas /\ \A r \in M : Source(r) = n
        BY <2>1, EntriesAre, Zenon DEF Types, EntriesInv
    <2>3. Moved(M, {"submit_"}, {"sending"})
        BY <1>5, <2>1, Zenon
    <2>4. \A k \in Nodes : unblocked[k] \notin M
        BY <2>2, <2>3, UnblockedStays, Zenon
    <2>5. UNCHANGED <<unblocked, stale>>
        BY <1>5, Zenon DEF ClientSubmit
    <2>6. UnblockedInv'
        BY <2>3, <2>4, <2>5, Zenon DEF UnblockedInv, Moved, Types
    <2> DEFINE C == {r \in M : r[1] \notin Flushes}
    <2>7. pending_' = [pending_ EXCEPT ![n] = @ + Cardinality(C)]
        BY <1>5, <2>1, Zenon DEF ClientSubmit, Counted
    <2>8. Pending(n)' = Pending(n) \cup C /\ Pending(n) \cap C = {}
        <3>1. \A r \in Replicas : Dest(r) \in Nodes
            BY ReplicaPair, Zenon
        <3>2. \A r \in M : Places(r) = {"submit_"} /\ Places(r)' = {"sending"}
            BY <2>2, <2>3, Zenon DEF Moved
        <3>3. \A r \in Replicas \ M : Places(r)' = Places(r)
            BY <2>3, Zenon DEF Moved
        <3>4. \A r \in M : unblocked[Dest(r)] # r
            BY <2>2, <2>4, <3>1, Zenon
        <3>5. Pending(n) \cap C = {}
            BY <3>2, <3>4, Zenon DEF Pending, AfterSubmit
        <3>6. \A r \in M : r \in Pending(n)' <=> r \in C
            BY <2>2, <3>2, Zenon DEF Pending, AfterSubmit
        <3>7. \A r \in Replicas \ M : r \in Pending(n)' <=> r \in Pending(n)
            BY <2>5, <3>3, Zenon DEF Pending
        <3>8. Pending(n) \subseteq Replicas /\ Pending(n)' \subseteq Replicas
            BY Zenon DEF Pending
        <3>9. \A r \in M : r \notin Pending(n)
            BY <3>2, <3>4, Zenon DEF Pending, AfterSubmit
        <3> QED
            BY <2>2, <3>5, <3>6, <3>7, <3>8, <3>9, Zenon
    <2>9. \A k \in Nodes \ {n} : Pending(k)' = Pending(k)
        <3> SUFFICES ASSUME NEW r \in Replicas, Source(r) # n
                     PROVE  Places(r)' = Places(r)
            BY <2>5, Zenon DEF Pending
        <3> QED
            BY <2>2, <2>3, Zenon DEF Moved
    <2>10. IsFiniteSet(Pending(n)) /\ IsFiniteSet(C) /\ Cardinality(C) \in Nat
           /\ Cardinality(Pending(n)) \in Nat
        BY <2>2, EntriesFinite, Zenon DEF Pending
    <2>11. Cardinality(Pending(n)') = Cardinality(Pending(n)) + Cardinality(C)
        <3>1. Cardinality(Pending(n) \cup C) =
                Cardinality(Pending(n)) + Cardinality(C) - Cardinality(Pending(n) \cap C)
            BY <2>10, FS_Union, Zenon
        <3>2. Cardinality(Pending(n) \cap C) = 0
            BY <2>8, FS_EmptySet, Zenon
        <3> QED
            BY <2>8, <2>10, <3>1, <3>2
    <2>12. ASSUME NEW k \in Nodes, pending_[k] = Cardinality(Pending(k))
           PROVE  pending_'[k] = Cardinality(Pending(k)')
        BY <2>7, <2>9, <2>10, <2>11, <2>12 DEF Types
    <2> QED
        BY <2>5, <2>6, <2>12, PendingExactIs, PendingExactIsAfter, Zenon
<1>6. ASSUME NEW n \in Nodes, RpcTaskSubmit(n), Moved(call[n], {"sending"}, {"inbox"})
      PROVE  UnblockedInv' /\ PendingExact'
    <2>1. UNCHANGED <<unblocked, pending_, stale>>
        BY <1>6, Zenon DEF RpcTaskSubmit
    <2>2. \A k \in Nodes : unblocked[k] \notin call[n]
        BY <1>6, UnblockedStays, Zenon DEF Types
    <2> QED
        BY <1>6, <2>1, <2>2, PendingKept, Zenon DEF AfterSubmit
<1>7. ASSUME NEW n \in Nodes, ServerComplete(n),
             Moved(Entries(complete_[n]), {"complete_"}, {"replying"})
      PROVE  UnblockedInv' /\ PendingExact'
    <2>1. UNCHANGED <<unblocked, pending_, stale>>
        BY <1>7, Zenon DEF ServerComplete
    <2>2. Entries(complete_[n]) \subseteq Replicas
        BY EntriesAre, Zenon DEF Types
    <2>3. \A k \in Nodes : unblocked[k] \notin Entries(complete_[n])
        BY <1>7, <2>2, UnblockedStays, Zenon
    <2> QED
        BY <1>7, <2>1, <2>3, PendingKept, Zenon DEF AfterSubmit
<1>8. ASSUME NEW n \in Nodes, NEW e \in Replicas, SignalUnblock(n, e),
             Moved({e}, {"replying"}, {})
      PROVE  UnblockedInv' /\ PendingExact'
    <2>1. /\ unblocked[n] = Null /\ unblocked'[n] = e
          /\ \A k \in Nodes \ {n} : unblocked'[k] = unblocked[k]
          /\ UNCHANGED <<pending_, stale>>
        BY <1>8, Zenon DEF SignalUnblock, Types
    <2>2. Dest(e) = n
        BY <1>8, Zenon DEF SignalUnblock, EntriesInv, AgentInv
    <2>3. /\ Places(e) = {"replying"} /\ Places(e)' = {}
          /\ \A r \in Replicas \ {e} : Places(r)' = Places(r)
        BY <1>8, Zenon DEF Moved
    <2>4. UnblockedInv'
        <3> SUFFICES ASSUME NEW k \in Nodes, unblocked'[k] # Null
                     PROVE  Places(unblocked[k])' = {}
            BY Zenon DEF UnblockedInv
        <3>1. CASE k = n
            BY <2>1, <2>3, <3>1, Zenon
        <3>2. CASE k # n
            <4>1. unblocked[k] \in Replicas /\ Places(unblocked[k]) = {}
                BY <2>1, <3>2, Zenon DEF UnblockedInv, Types
            <4>2. unblocked[k] # e
                BY <2>3, <4>1, Zenon
            <4> QED
                BY <2>1, <2>3, <3>2, <4>1, <4>2, Zenon
        <3> QED
            BY <3>1, <3>2, Zenon
    <2>5. \A k \in Nodes : Pending(k)' = Pending(k)
        <3>1. ASSUME NEW r \in Replicas, r # e
              PROVE  unblocked'[Dest(r)] = r <=> unblocked[Dest(r)] = r
            <4>1. Dest(r) \in Nodes /\ r # Null
                BY ReplicaPair, NullIsNobody, Zenon
            <4>2. CASE Dest(r) = n
                BY <2>1, <3>1, <4>1, <4>2, Zenon
            <4>3. CASE Dest(r) # n
                BY <2>1, <4>1, <4>3, Zenon
            <4> QED
                BY <4>2, <4>3, Zenon
        <3>2. \A k \in Nodes, r \in Replicas \ {e} : r \in Pending(k)' <=> r \in Pending(k)
            BY <2>3, <3>1, Zenon DEF Pending
        <3>3. \A k \in Nodes : e \in Pending(k)' <=> e \in Pending(k)
            BY <2>1, <2>2, <2>3, Zenon DEF Pending, AfterSubmit
        <3>4. \A k \in Nodes : Pending(k) \subseteq Replicas /\ Pending(k)' \subseteq Replicas
            BY Zenon DEF Pending
        <3> QED
            BY <3>2, <3>3, <3>4
    <2> QED
        BY <2>1, <2>4, <2>5, PendingExactIs, PendingExactIsAfter, Zenon
<1>9. ASSUME NEW e \in Replicas, Execute(e), Moved({e}, {"inbox"}, {"complete_"})
      PROVE  UnblockedInv' /\ PendingExact'
    <2>1. UNCHANGED <<unblocked, pending_, stale>>
        BY <1>9, Zenon DEF Execute, rpc
    <2>2. \A k \in Nodes : unblocked[k] \notin {e}
        BY <1>9, UnblockedStays, Zenon
    <2> QED
        BY <1>9, <2>1, <2>2, PendingKept, Zenon DEF AfterSubmit
<1> QED
    BY <1>1, <1>2, <1>3, <1>4, <1>5, <1>6, <1>7, <1>8, <1>9, Zenon DEF Step
-----------------------------------------------------------------------------
(* The inductive invariant.                                                 *)
IInv ==
    /\ Types
    /\ AgentInv
    /\ EntriesInv
    /\ SingleInv
    /\ ResultsInv
    /\ BlockCountExact
    /\ WokenInv
    /\ UnblockedInv
    /\ PendingExact

(* It holds at the start, when no task is pushed ...                        *)
LEMMA InitIInv == Init => IInv
<1> SUFFICES ASSUME Init PROVE IInv
    BY Zenon
<1>1. Types
    <2>1. <<>> \in Seq(Replicas) /\ 0 \in 0..MaxCrashes
        BY RemoteAssumption
    <2>2. /\ st \in [Tasks -> {"new", "pushing", "parked", "back", "complete", "deleted"}]
          /\ todo \in [Tasks -> SUBSET Domains] /\ block_count_ \in [Tasks -> Int]
        BY DEF Init
    <2>3. submit_ \in [Nodes -> Seq(Replicas)] /\ complete_ \in [Nodes -> Seq(Replicas)]
        BY <2>1, Zenon DEF Init
    <2>4. /\ pending_ \in [Nodes -> Int] /\ agent \in [Nodes -> {"idle", "submit", "complete"}]
          /\ batch \in [Nodes -> SUBSET Replicas] /\ call \in [Nodes -> SUBSET Replicas]
        BY DEF Init
    <2>5. /\ peer \in [Nodes -> Nodes \cup {Null}]
          /\ phase \in [Nodes -> {"none", "sent", "loaded", "answered"}]
          /\ unblocked \in [Nodes -> Replicas \cup {Null}]
        BY Zenon DEF Init
    <2>6. /\ woken \subseteq Tasks /\ inbox \subseteq Replicas /\ ran \subseteq Replicas
          /\ loaded \subseteq Replicas /\ freed \subseteq Replicas
          /\ stale \in BOOLEAN /\ crashes \in 0..MaxCrashes /\ down \subseteq Nodes
        BY <2>1, Zenon DEF Init
    <2> QED
        BY <2>2, <2>3, <2>4, <2>5, <2>6, Zenon DEF Types
<1>2. AgentInv
    BY Zenon DEF Init, AgentInv
<1>3. \A n \in Nodes : Entries(submit_[n]) = {} /\ Entries(complete_[n]) = {}
    BY DEF Init, Entries
<1>4. EntriesInv
    BY <1>3, Zenon DEF Init, EntriesInv
<1>5. ASSUME NEW r \in Replicas PROVE Places(r) = {}
    <2>1. r[1] \in Tasks /\ Source(r) \in Nodes /\ Dest(r) \in Nodes
        BY ReplicaPair, Zenon
    <2>2. ~InTodo(r) /\ ~Sending(r) /\ ~Replying(r) /\ r \notin inbox
        BY <2>1, Zenon DEF Init, InTodo, Sending, Replying
    <2>3. ~InSubmit(r) /\ ~InComplete(r)
        BY <1>3, <2>1, Zenon DEF InSubmit, InComplete
    <2> QED
        BY <2>2, <2>3, PlacesAre, Zenon DEF PlaceNames
<1>6. SingleInv
    BY <1>5, Zenon DEF SingleInv
<1>7. ResultsInv
    BY <1>5, ReplicaPair, Zenon DEF Init, ResultsInv
<1>8. BlockCountExact
    <2>1. \A t \in Tasks : {r \in ReplicasOf(t) : Places(r) # {}} = {}
        BY <1>5, ReplicaPair, Zenon
    <2> QED
        BY <2>1, FS_EmptySet, Zenon DEF Init, BlockCountExact
<1>9. WokenInv
    BY Zenon DEF Init, WokenInv
<1>10. UnblockedInv
    BY Zenon DEF Init, UnblockedInv
<1>11. PendingExact
    <2>1. \A n \in Nodes : Pending(n) = {}
        <3>1. \A r \in Replicas : unblocked[Dest(r)] # r
            BY ReplicaPair, NullIsNobody, Zenon DEF Init
        <3> QED
            BY <1>5, <3>1, Zenon DEF Pending
    <2> QED
        BY <2>1, FS_EmptySet, PendingExactIs, Zenon DEF Init
<1> QED
    BY <1>1, <1>2, <1>4, <1>6, <1>7, <1>8, <1>9, <1>10, <1>11, Zenon DEF IInv

(* ... and every step keeps it: a step is a move, and a move keeps each     *)
(* part.                                                                    *)
LEMMA NextIInv == IInv /\ [Next]_vars => IInv'
<1> SUFFICES ASSUME IInv, [Next]_vars PROVE IInv'
    BY Zenon
<1>1. AgentInv' /\ EntriesInv' /\ Step
    BY EveryStep, Zenon DEF IInv
<1> QED
    BY <1>1, TypesStep, SingleStep, ResultsStep, CountStep, PendingStep, Zenon DEF IInv

(* The inductive invariant always holds, of ClientPushSubmit, the agents,   *)
(* the handlers and the workers together.                                   *)
THEOREM AlwaysIInv == Spec => []IInv
    BY InitIInv, NextIInv, PTL DEF Spec

(* Every variable keeps its type; block_count_ never falls below zero.      *)
THEOREM TypeCorrect == Spec => []TypeOK
<1>1. IInv => TypeOK
    <2> SUFFICES ASSUME IInv PROVE TypeOK
        BY Zenon
    <2>1. \A t \in Tasks : Cardinality(OnTheWay(t)) \in Nat
        BY EntriesFinite, ReplicaPair, Zenon DEF OnTheWay
    <2>2. block_count_ \in [Tasks -> Nat]
        BY <2>1, Zenon DEF IInv, Types, BlockCountExact, OnTheWay
    <2> QED
        BY <2>2, Zenon DEF IInv, Types, TypeOK
<1> QED
    BY <1>1, AlwaysIInv, PTL

(* No replica is ever in two places, or in any once its memory is freed:    *)
(* none is sent or answered twice, whichever nodes fail.                    *)
THEOREM EntriesAreSingle == Spec => []OneEntry
<1>1. IInv => OneEntry
    <2> SUFFICES ASSUME IInv, NEW r \in Replicas
                 PROVE  Cardinality(Places(r)) <= IF r \in freed THEN 0 ELSE 1
        BY Zenon DEF OneEntry
    <2>1. CASE Places(r) = {}
        BY <2>1, FS_EmptySet
    <2>2. CASE Places(r) # {}
        <3>1. PICK p : p \in Places(r)
            BY <2>2, Zenon
        <3>2. Cardinality(Places(r)) = 1
            BY <3>1, OnlyPlace, FS_Singleton, Zenon DEF IInv
        <3>3. r \notin freed
            BY <2>2, ReplicaPair, Zenon DEF IInv, WokenInv, OnTheWay
        <3> QED
            BY <3>2, <3>3
    <2> QED
        BY <2>1, <2>2, Zenon
<1> QED
    BY <1>1, AlwaysIInv, PTL

(* block_count_ of a submit task is the number of its replicas that are on  *)
(* their way.                                                               *)
THEOREM BlocksCountReplicas == Spec => []BlockCountExact
<1>1. IInv => BlockCountExact
    BY Zenon DEF IInv
<1> QED
    BY <1>1, AlwaysIInv, PTL

(* A submit task that is back from its Yield has all results.               *)
THEOREM ResultsHaveArrived == Spec => []ResultsArrived
<1>1. IInv => ResultsArrived
    BY ReplicaPair, Zenon DEF IInv, ResultsArrived, WokenInv, ResultsInv, OnTheWay
<1> QED
    BY <1>1, AlwaysIInv, PTL

(* pending_ counts what is sent and not completed.                          *)
THEOREM PendingCountsSent == Spec => []PendingExact
<1>1. IInv => PendingExact
    BY Zenon DEF IInv
<1> QED
    BY <1>1, AlwaysIInv, PTL
-----------------------------------------------------------------------------
(* The state of the abstract call.                                          *)
Called == {t \in Tasks : st[t] # "new"}
Back == {t \in Tasks : st[t] \in {"back", "complete", "deleted"}}

(* Steps that the abstract call does not see.                               *)
LEMMA Unseen ==
    ASSUME UNCHANGED ran,
           \A t \in Tasks : st'[t] = "new" <=> st[t] = "new",
           \A t \in Tasks : st'[t] \in {"back", "complete", "deleted"} <=>
                           st[t] \in {"back", "complete", "deleted"}
    PROVE  [Abstract!Next]_(Abstract!vars)
<1>1. Called' = Called /\ Back' = Back
    BY Zenon DEF Called, Back
<1> QED
    BY <1>1, Zenon DEF Abstract!vars, Called, Back

(* Every step of the queue is a step of the abstract call, or unseen.       *)
LEMMA AbstractStep ==
    ASSUME IInv, Step
    PROVE  [Abstract!Next]_(Abstract!vars)
<1>1. ASSUME NEW t \in Tasks, Resume(t)
      PROVE  Abstract!Next
    <2>1. st[t] = "parked" /\ st' = [st EXCEPT ![t] = "back"] /\ ran' = ran /\ t \in woken
        BY <1>1, Zenon DEF Resume, remote
    <2>2. Called' = Called /\ Back' = Back \cup {t} /\ t \in Called \ Back
        BY <2>1, Zenon DEF Called, Back, IInv, Types
    <2>3. ASSUME NEW n \in Targets[t] PROVE <<t, n>> \in ran
        <3>1. <<t, n>> \in Replicas /\ <<t, n>> \in ReplicasOf(t)
            BY ReplicaPair, Zenon DEF ReplicasOf
        <3>2. Places(<<t, n>>) = {} /\ st[t] # "new"
            BY <2>1, <3>1, Zenon DEF IInv, WokenInv, OnTheWay
        <3> QED
            BY <3>1, <3>2, Zenon DEF IInv, ResultsInv
    <2>4. Abstract!Return(t)
        BY <2>1, <2>2, <2>3, Zenon DEF Abstract!Return, Called, Back
    <2> QED
        BY <2>4, Zenon DEF Abstract!Next
<1>2. ASSUME NEW t \in Tasks, Yield(t) \/ PushCompletedTask(t) \/ DelTask(t)
      PROVE  [Abstract!Next]_(Abstract!vars)
    <2>1. ran' = ran
        BY <1>2, Zenon DEF Yield, PushCompletedTask, DelTask, remote
    <2>2. \/ st[t] = "pushing" /\ st' = [st EXCEPT ![t] = "parked"]
          \/ st[t] = "back" /\ st' = [st EXCEPT ![t] = "complete"]
          \/ st[t] = "complete" /\ st' = [st EXCEPT ![t] = "deleted"]
        BY <1>2, Zenon DEF Yield, PushCompletedTask, DelTask
    <2>3. \A s \in Tasks : st'[s] = "new" <=> st[s] = "new"
        BY <2>2, Zenon DEF IInv, Types
    <2>4. \A s \in Tasks : st'[s] \in {"back", "complete", "deleted"} <=>
                          st[s] \in {"back", "complete", "deleted"}
        BY <2>2, Zenon DEF IInv, Types
    <2> QED
        BY <2>1, <2>3, <2>4, Unseen, Zenon
<1>3. ASSUME NEW t \in Tasks, ClientPushSubmit(t)
      PROVE  Abstract!Next
    <2>1. st[t] = "new" /\ st' = [st EXCEPT ![t] = "pushing"] /\ ran' = ran
        BY <1>3, Zenon DEF ClientPushSubmit, remote
    <2>2. Called' = Called \cup {t} /\ Back' = Back /\ t \notin Called
        BY <2>1, Zenon DEF Called, Back, IInv, Types
    <2>3. Abstract!Call(t)
        BY <2>1, <2>2, Zenon DEF Abstract!Call, Called, Back
    <2> QED
        BY <2>3, Zenon DEF Abstract!Next
<1>4. ASSUME NEW e \in Replicas, Execute(e)
      PROVE  Abstract!Next
    <2>1. UNCHANGED st /\ ran' = ran \cup {e} /\ e \in inbox
        BY <1>4, Zenon DEF Execute, submitter
    <2>2. "inbox" \in Places(e)
        BY <2>1, PlacesAre, Zenon
    <2>3. e \notin ran /\ st[e[1]] # "new"
        BY <2>2, Zenon DEF IInv, ResultsInv, SingleInv
    <2>4. PICK t \in Tasks : \E n \in Targets[t] : e = <<t, n>>
        BY ReplicaPair, Zenon
    <2>5. PICK n \in Targets[t] : e = <<t, n>>
        BY <2>4, Zenon
    <2>6. t \in Called /\ Called' = Called /\ Back' = Back
        BY <2>1, <2>3, <2>5, Zenon DEF Called, Back
    <2>7. Abstract!Run(t, n)
        BY <2>1, <2>3, <2>5, <2>6, Zenon DEF Abstract!Run, Called, Back
    <2> QED
        BY <2>7, Zenon DEF Abstract!Next
<1>5. ASSUME UNCHANGED <<st, ran>>
      PROVE  [Abstract!Next]_(Abstract!vars)
    BY <1>5, Unseen, Zenon
<1>6. ASSUME NEW n \in Nodes,
             \/ Answered(n) \/ CallFails(n) \/ RpcTaskComplete(n) \/ CountOff(n)
             \/ IoCallServerWriteFails(n) \/ Crash(n) \/ \E m \in Nodes : SyncIoCall(n, m)
             \/ ClientSubmit(n) \/ RpcTaskSubmit(n) \/ ServerComplete(n)
             \/ \E e \in Replicas : SignalUnblock(n, e)
      PROVE  UNCHANGED <<st, ran>>
    BY <1>6, Zenon DEF submitter, remote, Answered, CallFails, RpcTaskComplete, CountOff,
                IoCallServerWriteFails, Crash, SyncIoCall, ClientSubmit, RpcTaskSubmit,
                ServerComplete, SignalUnblock
<1>7. ASSUME NEW t \in Tasks, NEW d \in Domains, Emplace(t, d)
      PROVE  UNCHANGED <<st, ran>>
    BY <1>7, Zenon DEF Emplace, remote
<1>8. CASE UNCHANGED vars
    BY <1>5, <1>8, Zenon DEF vars, submitter, remote
<1> QED
    BY <1>1, <1>2, <1>3, <1>4, <1>5, <1>6, <1>7, <1>8, Zenon DEF Step, Resting

(* The remote queue implements the abstract remote call: whatever agents,   *)
(* handlers and workers do in between and whichever nodes fail, a task runs *)
(* at its targets only when it was called, and returns only after all of    *)
(* them.                                                                    *)
THEOREM Refinement == Spec => ImplementsRemoteCall
<1>1. Init => Abstract!Init
    BY DEF Init, Abstract!Init
<1>2. IInv /\ [Next]_vars => [Abstract!Next]_(Abstract!vars)
    <2> SUFFICES ASSUME IInv, [Next]_vars PROVE [Abstract!Next]_(Abstract!vars)
        BY Zenon
    <2>1. Step
        BY EveryStep, Zenon DEF IInv
    <2> QED
        BY <2>1, AbstractStep, Zenon
<1> QED
    BY <1>1, <1>2, AlwaysIInv, PTL DEF Spec, ImplementsRemoteCall, Abstract!Spec
=============================================================================
