---------------------------- MODULE PoolRegistry ----------------------------
(***************************************************************************)
(* Pools: how they are created on every node, named, found and addressed    *)
(* (chimaera_admin_runtime.cc CreatePool, module_registry.h and .cc, and    *)
(* worker.cc PrivateTaskMultiQueue::push for the tasks sent to them).       *)
(*                                                                          *)
(* A CreatePool task holds the lane's comux_ from its start to its end, and *)
(* so across the construction of its containers and the broadcast that has  *)
(* the other nodes do the same.  comux_ admits tasks of the tree that holds *)
(* it (CoMutex.tla); a construction may itself create a pool.  All admin    *)
(* tasks of a node share one lane, so a handler is atomic up to the points  *)
(* where it yields: the construction of a container and the broadcast.      *)
(*                                                                          *)
(* HELOG(kFatal) ends a node's process: no step follows it.                 *)
(*                                                                          *)
(* Left out: DestroyContainer, UpgradeModule, a module that cannot allocate *)
(* its state, and the workers' reads of pools_ during its insertions        *)
(* (GetContainer takes no lock).                                            *)
(***************************************************************************)
EXTENDS DomainMap, BagsExt

CONSTANTS
    Names,          \* pool names
    Requests,       \* calls of Create by clients
    Asked,          \* per request, also the inner ones: [name, affinity,
                    \* containers, at]; at is the node it is sent to
    Inner,          \* per name: the request made by the construction of each
                    \* of its containers, or NoRequest
    NoRequest,
    Users,          \* tasks that clients send to a pool
    Sent            \* per user: [node, by, name, at, query]; by is the request
                    \* whose id it uses, or NoRequest: it asks node at for
                    \* the id of name

Nodes == 1..Hosts
NullId == <<0, 0>>
Admin == <<0, 1>>

(* A CreatePool task is <<r, c, n>>: made by request r (c = 0) or by the    *)
(* construction of container c of r's pool; the task of the caller (n = 0)  *)
(* or the copy of its broadcast on node n.  Its tree is r.                  *)
Root(t) == t[1]

VARIABLES
    fatal,          \* HELOG(kFatal) was reached
    libs_,          \* nodes where the module is registered
    pool_ids_,      \* per node and name: the pool's id, or NullId
    pools_,         \* per node: pool id |-> [made, created], its containers
    domain_map_,    \* per node
    unique_,        \* per node: the next pool id
    comux,          \* per node: [root, rep] of the admin lane's comux_
    task,           \* CreatePool tasks
    use             \* per user: [st, id, parts, ran, lost]

vars == <<fatal, libs_, pool_ids_, pools_, domain_map_, unique_, comux, task, use>>

NewTask(ask, id, root, at) ==
    [pc |-> "sent", ask |-> ask, id |-> id, root |-> root, at |-> at, todo |-> <<>>]

NoLock == [root |-> NoRequest, rep |-> 0]

(* Runtime::ServerInit creates the admin pool on every node.                *)
Init ==
    /\ fatal = FALSE
    /\ libs_ = {}
    /\ pool_ids_ = [n \in Nodes |-> [x \in Names |-> NullId]]
    /\ pools_ = [n \in Nodes |-> Admin :> [made |-> {n}, created |-> {n}]]
    /\ domain_map_ = [n \in Nodes |->
            UpdateDomains(<<>>, CreateDefaultDomains(<<>>, n, Admin, Admin, GetGlobalBcast, Hosts))]
    /\ unique_ = [n \in Nodes |-> 2]
    /\ comux = [n \in Nodes |-> NoLock]
    /\ task = <<>>
    /\ use = [u \in Users |-> [st |-> "idle", id |-> NullId, parts |-> <<>>, ran |-> EmptyBag, lost |-> FALSE]]

-----------------------------------------------------------------------------
(* A query for the admin pool, resolved where it is and again where it is   *)
(* sent to, until it names containers; container n is on node n.            *)
RECURSIVE NodesReached(_, _, _)
NodesReached(dms, n, q) ==
    LET res == ResolveDomainQuery(dms[n], n, Admin, q, FALSE)
    IN  UNION {IF res[i].dom.scope = "local" THEN {res[i].node}
               ELSE NodesReached(dms, res[i].node, res[i].dom) : i \in DOMAIN res}

(* RegisterModule, which a client broadcasts; it should come first.         *)
RegisterModule(n) ==
    /\ n \notin libs_
    /\ libs_' = libs_ \cup {n}
    /\ UNCHANGED <<fatal, pool_ids_, pools_, domain_map_, unique_, comux, task, use>>

(* Client::Create: the call goes to one admin container.                    *)
Create(r) ==
    /\ <<r, 0, 0>> \notin DOMAIN task
    /\ task' = task @@ (<<r, 0, 0>> :> NewTask(Asked[r], NullId, TRUE, Asked[r].at))
    /\ UNCHANGED <<fatal, libs_, pool_ids_, pools_, domain_map_, unique_, comux, use>>

-----------------------------------------------------------------------------
(* ModuleRegistry::PoolExists.                                              *)
PoolExists(n, name, id) ==
    LET known == IF pool_ids_[n][name] = NullId THEN id ELSE pool_ids_[n][name]
    IN  IF known \in DOMAIN pools_[n] THEN known ELSE NullId

(* Faulty variant of CanLock: the lock is not taken.                        *)
CanLockAlways(t) == TRUE

(* Faulty variant of CanLock: the lock is taken for a task, not a tree.     *)
CanLockOnce(t) == comux[task[t].at] = NoLock

CanLock(t) == comux[task[t].at] = NoLock \/ comux[task[t].at].root = Root(t)

Locked(lock, t) == [root |-> Root(t), rep |-> lock.rep + 1]
Unlocked(lock) == IF lock.rep = 1 THEN NoLock ELSE [lock EXCEPT !.rep = @ - 1]

(* Faulty variant of FindPool: the id that was found is not returned.       *)
FindPoolNoId(t) ==
    LET k == task[t]
    IN  /\ k.pc = "sent" /\ CanLock(t)
        /\ PoolExists(k.at, k.ask.name, k.id) # NullId
        /\ task' = [task EXCEPT ![t].pc = "done"]
        /\ UNCHANGED <<fatal, libs_, pool_ids_, pools_, domain_map_, unique_, comux, use>>

(* The pool is in the registry: CreatePool answers with its id.             *)
FindPool(t) ==
    LET k == task[t]
        found == PoolExists(k.at, k.ask.name, k.id)
    IN  /\ k.pc = "sent" /\ CanLock(t)
        /\ found # NullId
        /\ task' = [task EXCEPT ![t].pc = "done", ![t].id = found]
        /\ UNCHANGED <<fatal, libs_, pool_ids_, pools_, domain_map_, unique_, comux, use>>

(* How a CreatePool task goes on when it has nothing left to construct: the *)
(* caller's task broadcasts and waits, a copy of it ends.                   *)
Finished(ts, t) ==
    LET k == ts[t]
        Copies == NodesReached(domain_map_, k.at, k.ask.affinity)
    IN  CASE k.todo # <<>> -> ts
          [] k.todo = <<>> /\ ~k.root -> [ts EXCEPT ![t].pc = "done"]
          [] k.todo = <<>> /\ k.root ->
                [ts EXCEPT ![t].pc = "waiting"]
                    @@ [c \in {<<t[1], t[2], n>> : n \in Copies} |-> NewTask(k.ask, k.id, FALSE, c[3])]

(* Lock, name the pool, enter its domains, and register the first container *)
(* of this node; its construction follows.                                  *)
BeginCreate(t) ==
    LET k == task[t]
        n == k.at
        id == IF k.id # NullId THEN k.id
              ELSE IF pool_ids_[n][k.ask.name] # NullId THEN pool_ids_[n][k.ask.name]
              ELSE <<n, unique_[n]>>
        count == IF k.ask.containers = 0 THEN Hosts ELSE k.ask.containers
        dm == UpdateDomains(domain_map_[n],
                  CreateDefaultDomains(domain_map_[n], n, id, Admin, k.ask.affinity, count))
        todo == GetLocalContainers(dm, n, id)
        ts == Finished([task EXCEPT ![t].pc = "making", ![t].id = id, ![t].todo = todo], t)
    IN  /\ k.pc = "sent" /\ CanLock(t)
        /\ PoolExists(n, k.ask.name, k.id) = NullId
        /\ n \in libs_
        /\ IF k.id = NullId
           THEN /\ pool_ids_' = [pool_ids_ EXCEPT ![n][k.ask.name] = id]
                /\ unique_' = [unique_ EXCEPT ![n] = IF id = <<n, @>> THEN @ + 1 ELSE @]
           ELSE UNCHANGED <<pool_ids_, unique_>>
        /\ domain_map_' = [domain_map_ EXCEPT ![n] = dm]
        /\ pools_' = [pools_ EXCEPT ![n] =
                (id :> [made |-> IF todo = <<>> THEN {} ELSE {todo[1]}, created |-> {}]) @@ @]
        /\ task' = ts
        /\ comux' = [comux EXCEPT ![n] = IF ts[t].pc = "done" THEN @ ELSE Locked(@, t)]
        /\ UNCHANGED <<fatal, libs_, use>>

(* The module is not registered on this node: ModuleRegistry::CreatePool    *)
(* returns false, and the handler ends in HELOG(kFatal).                    *)
CreateFails(t) ==
    /\ task[t].pc = "sent" /\ CanLock(t)
    /\ PoolExists(task[t].at, task[t].ask.name, task[t].id) = NullId
    /\ task[t].at \notin libs_
    /\ fatal' = TRUE
    /\ UNCHANGED <<libs_, pool_ids_, pools_, domain_map_, unique_, comux, task, use>>

InnerOf(t) == <<t[1], task[t].todo[1], 0>>
HasInner(t) == t[2] = 0 /\ Inner[task[t].ask.name] # NoRequest

(* A container's Create makes a pool of its own.                            *)
CreateInner(t) ==
    /\ task[t].pc = "making" /\ HasInner(t)
    /\ InnerOf(t) \notin DOMAIN task
    /\ LET ask == Asked[Inner[task[t].ask.name]]
       IN  task' = task @@ (InnerOf(t) :> NewTask(ask, NullId, TRUE, ask.at))
    /\ UNCHANGED <<fatal, libs_, pool_ids_, pools_, domain_map_, unique_, comux, use>>

(* A construction ends; the next container is registered, if there is one.  *)
ContainerCreated(t) ==
    LET k == task[t]
        n == k.at
        rest == Tail(k.todo)
        ts == Finished([task EXCEPT ![t].todo = rest], t)
    IN  /\ k.pc = "making"
        /\ HasInner(t) => InnerOf(t) \in DOMAIN task /\ task[InnerOf(t)].pc = "done"
        /\ pools_' = [pools_ EXCEPT ![n][k.id] =
                [made |-> @.made \cup (IF rest = <<>> THEN {} ELSE {rest[1]}),
                 created |-> @.created \cup {k.todo[1]}]]
        /\ task' = ts
        /\ comux' = [comux EXCEPT ![n] = IF ts[t].pc = "done" THEN Unlocked(@) ELSE @]
        /\ UNCHANGED <<fatal, libs_, pool_ids_, domain_map_, unique_, use>>

CopiesOf(t) == {c \in DOMAIN task : c[1] = t[1] /\ c[2] = t[2] /\ c[3] # 0}

(* The broadcast has been answered by every node.                           *)
BroadcastEnds(t) ==
    LET k == task[t]
    IN  /\ k.pc = "waiting"
        /\ \A c \in CopiesOf(t) : task[c].pc = "done"
        /\ task' = [task EXCEPT ![t].pc = "done"]
        /\ comux' = [comux EXCEPT ![k.at] = Unlocked(@)]
        /\ UNCHANGED <<fatal, libs_, pool_ids_, pools_, domain_map_, unique_, use>>

-----------------------------------------------------------------------------
SendUse(u, id) ==
    use' = [use EXCEPT ![u].st = "sent", ![u].id = id,
                       ![u].parts = <<[node |-> Sent[u].node, dom |-> Sent[u].query]>>]

(* The user has called Create and uses the id that came back.               *)
UseCreated(u) ==
    /\ use[u].st = "idle" /\ Sent[u].by # NoRequest
    /\ <<Sent[u].by, 0, 0>> \in DOMAIN task /\ task[<<Sent[u].by, 0, 0>>].pc = "done"
    /\ SendUse(u, task[<<Sent[u].by, 0, 0>>].id)
    /\ UNCHANGED <<fatal, libs_, pool_ids_, pools_, domain_map_, unique_, comux, task>>

(* GetPoolId, asked until it answers with an id.                            *)
GetPoolId(u) ==
    /\ use[u].st = "idle" /\ Sent[u].by = NoRequest
    /\ pool_ids_[Sent[u].at][Sent[u].name] # NullId
    /\ SendUse(u, pool_ids_[Sent[u].at][Sent[u].name])
    /\ UNCHANGED <<fatal, libs_, pool_ids_, pools_, domain_map_, unique_, comux, task>>

(* What the query of a part p of a user's task resolves to on the node      *)
(* where it is: nothing, if GetSubDomainId throws.                          *)
Resolved(u, p) ==
    IF Throws(domain_map_[p.node], use[u].id, p.dom) THEN <<>>
    ELSE ResolveDomainQuery(domain_map_[p.node], p.node, use[u].id, p.dom, FALSE)
Dropped(to) == to = <<>>
IsLocal(p, to) == Len(to) = 1 /\ to[1].node = p.node /\ to[1].dom.scope = "local"
Created(n, id, c) == id \in DOMAIN pools_[n] /\ c \in pools_[n][id].created

(* The container is on this node: the task waits in the fail queue until it *)
(* is created, then runs.                                                   *)
PushLocalTask(u, i) ==
    LET p == use[u].parts[i]
        to == Resolved(u, p)
        c == to[1].dom.off
    IN  /\ IsLocal(p, to)
        /\ Created(p.node, use[u].id, c)
        /\ use' = [use EXCEPT ![u].parts = RemoveAt(@, i),
                              ![u].ran = @ (+) SetToBag({<<p.node, c>>})]
        /\ UNCHANGED <<fatal, libs_, pool_ids_, pools_, domain_map_, unique_, comux, task>>

(* Otherwise the task, or a copy of it for each target, is sent on.  It is  *)
(* lost when resolving it throws (the worker's loop catches the exception,  *)
(* and nothing has the task), when there is no target, and when this node   *)
(* or the receiver does not know the pool, which is fatal there.            *)
PushRemoteTask(u, i) ==
    LET p == use[u].parts[i]
        to == Resolved(u, p)
        known == \A n \in {p.node} \cup {to[j].node : j \in DOMAIN to} : use[u].id \in DOMAIN pools_[n]
    IN  /\ ~IsLocal(p, to)
        /\ use' = [use EXCEPT ![u].parts = RemoveAt(@, i) \o (IF known THEN to ELSE <<>>),
                              ![u].lost = @ \/ Dropped(to) \/ ~known]
        /\ UNCHANGED <<fatal, libs_, pool_ids_, pools_, domain_map_, unique_, comux, task>>

-----------------------------------------------------------------------------
CreateStep(t) ==
    \/ FindPool(t)
    \/ BeginCreate(t)
    \/ CreateFails(t)
    \/ CreateInner(t)
    \/ ContainerCreated(t)
    \/ BroadcastEnds(t)

UseStep(u) ==
    \/ UseCreated(u)
    \/ GetPoolId(u)
    \/ \E i \in DOMAIN use[u].parts : PushLocalTask(u, i) \/ PushRemoteTask(u, i)

Step ==
    \/ \E n \in Nodes : RegisterModule(n)
    \/ \E r \in Requests : Create(r)
    \/ \E t \in DOMAIN task : CreateStep(t)
    \/ \E u \in Users : UseStep(u)

(* The process is gone, or everything that was asked for is done.           *)
Done ==
    /\ \/ fatal
       \/ /\ \A r \in Requests : <<r, 0, 0>> \in DOMAIN task
          /\ \A t \in DOMAIN task : task[t].pc = "done"
          /\ \A u \in Users : use[u].st = "sent" /\ use[u].parts = <<>>
    /\ UNCHANGED vars

Next == (~fatal /\ Step) \/ Done

Spec == Init /\ [][Next]_vars

-----------------------------------------------------------------------------
Returned(t) == t[3] = 0 /\ task[t].pc = "done"
ContainersOf(n, id) == 1..GetDomainSize(domain_map_[n], <<id, <<kContainerSet, 0>>>>)
Home(n, id, c) == ResolveDomainQuery(domain_map_[n], n, id, GetDirectHash(kContainerSet, c - 1), TRUE)

(* The nodes that take part in a creation: the one it is sent to, and those *)
(* whose admin containers its affinity names.                               *)
NodesOf(ask) ==
    LET q == ask.affinity
    IN  {ask.at} \cup CASE q.sel = "all" -> Nodes
                        [] q.sel = "range" -> (q.off + 1)..(q.off + q.count)
                        [] q.sel = "hash" -> {(q.off % Hosts) + 1}

(* Two calls of Create that have returned have one id only if they named    *)
(* the same pool, and have one id if moreover they were sent to the same    *)
(* node, however their steps, those of their broadcasts and those of the    *)
(* creations inside them interleave (CreatePool, GetOrCreatePoolId,         *)
(* PoolExists).                                                             *)
OnePoolPerName ==
    \A s, t \in DOMAIN task : Returned(s) /\ Returned(t) =>
        /\ task[s].id = task[t].id => task[s].ask.name = task[t].ask.name
        /\ task[s].ask.name = task[t].ask.name /\ task[s].at = task[t].at => task[s].id = task[t].id

(* All calls for a name are sent to one node; pool_ids_ has the name there  *)
(* only.                                                                    *)
OneNodePerName ==
    \A r, s \in Requests \cup ({Inner[x] : x \in Names} \ {NoRequest}) :
        Asked[r].name = Asked[s].name => Asked[r].at = Asked[s].at

(* When Create returns, also to a caller that did not create the pool, each *)
(* container of the pool has been constructed on its node, and all nodes    *)
(* that know the pool agree where it is, if all calls for a name go to one  *)
(* node (CreatePool, CreateDefaultDomains, GetLocalContainers).             *)
ReadyWhenReturned ==
    \A t \in DOMAIN task : OneNodePerName /\ Returned(t) =>
        LET id == task[t].id
            n == task[t].at
        IN  \A c \in ContainersOf(n, id) :
                /\ Len(Home(n, id, c)) = 1
                /\ Created(Home(n, id, c)[1].node, id, c)
                /\ \A m \in Nodes : id \in DOMAIN pools_[m] => Home(m, id, c) = Home(n, id, c)

(* A task sent to a pool by a caller of Create, from a node that took part  *)
(* in its creation, is not lost on its way, and when it has ended it ran    *)
(* once on every container that it was meant for, although its query is     *)
(* split and resolved again on other nodes (ResolveDomainQuery,             *)
(* PrivateTaskMultiQueue::push).                                            *)
EachTargetOnce ==
    \A u \in Users : use[u].st = "sent" /\ Sent[u].by # NoRequest
                        /\ Sent[u].node \in NodesOf(Asked[Sent[u].by]) =>
        LET n == Sent[u].node
            id == use[u].id
            q == Sent[u].query
            all == ContainersOf(n, id)
            Pick == IF q.scope = "global" THEN all ELSE {(q.off % Cardinality(all)) + 1}
        IN  /\ ~use[u].lost
            /\ use[u].parts = <<>> =>
                    use[u].ran = SetToBag({<<Home(n, id, c)[1].node, c>> : c \in Pick})

(* The pairs <<m, n>> of nodes such that request r may wait for the comux_  *)
(* of n while it keeps that of m: the caller's task keeps its node during   *)
(* the broadcast, and every task keeps its node during the creations that   *)
(* its containers make.  A node that the tree keeps anyway is not waited    *)
(* for.                                                                     *)
KeepsAndWaits(r) ==
    LET ask == Asked[r]
        outer == {ask.at} \X NodesOf(ask)
        in == Asked[Inner[ask.name]]
        inner == IF Inner[ask.name] = NoRequest THEN {}
                 ELSE (NodesOf(ask) \X NodesOf(in)) \cup ({in.at} \X NodesOf(in))
    IN  {e \in outer \cup inner : e[2] \notin {e[1], ask.at}}

(* The nodes can be ranked so that no request waits for a node of lower     *)
(* rank than one it keeps.                                                  *)
NodesAreRanked ==
    \E rank \in [Nodes -> Nodes] :
        \A r \in Requests : \A e \in KeepsAndWaits(r) : rank[e[1]] < rank[e[2]]

CanGoOn(t) ==
    \/ task[t].pc = "sent" /\ CanLock(t)
    \/ task[t].pc = "making" /\ (HasInner(t) /\ InnerOf(t) \in DOMAIN task => task[InnerOf(t)].pc = "done")
    \/ task[t].pc = "waiting" /\ \A c \in CopiesOf(t) : task[c].pc = "done"

(* The trees that hold the comux_ a task of tree r waits for.               *)
BlockedBy(r) ==
    {comux[task[t].at].root : t \in {x \in DOMAIN task : Root(x) = r /\ task[x].pc = "sent" /\ ~CanLock(x)}}

(* No creations that hold comux_s wait for each other: among any of them    *)
(* one can go on, or waits for a creation that is not among them.  This     *)
(* needs the nodes to be taken in one order; then, as every step brings a   *)
(* task nearer to its end, every call of Create returns, wherever it was    *)
(* sent to (CreatePool, comux_).                                            *)
NoCircularWait ==
    NodesAreRanked =>
        \A C \in SUBSET ({comux[n].root : n \in Nodes} \ {NoRequest}) \ {{}} :
            \E r \in C : \/ \E t \in DOMAIN task : Root(t) = r /\ CanGoOn(t)
                        \/ ~(BlockedBy(r) \subseteq C)

(* A task for a pool that is still being created waits for its container    *)
(* ("it's probably going to get created. Put in the failed queue.").        *)
EarlyUseWaits == \A u \in Users : ~use[u].lost
=============================================================================
