----------------------------- MODULE DomainMap -----------------------------
(***************************************************************************)
(* The domain map of a node (rpc.h, RpcContext) and the queries that are    *)
(* resolved with it (chimaera_types.h, DomainQuery).                        *)
(*                                                                          *)
(* A SubDomainId is <<major, minor>>; minor 0 stands for the whole group.   *)
(* A DomainId is <<pool, sub-domain>>.  A domain map is a function from     *)
(* DomainIds to the sequence ids_ of a DomainMapEntry; size_ is its length, *)
(* since nothing in the system contracts a domain.  An entry that           *)
(* domain_map_[...] inserts empty reads like one that is not there.         *)
(***************************************************************************)
EXTENDS Integers, Sequences, SequencesExt

CONSTANTS
    Hosts,          \* number of hosts_; nodes are 1..Hosts
    Neighborhood    \* neighborhood_size_

ASSUME DomainAssumption == Hosts \in Nat \ {0} /\ Neighborhood \in Nat \ {0}

kPhysicalNode == 0
kContainerSet == 1
kLocalContainers == 3

IsPhysical(id) == id[1] = kPhysicalNode

(* DomainQuery: the sub-domain it is about, how far it reaches, and which   *)
(* part it selects (an id, a hash, a range, or all of it).                  *)
Query(scope, sel, sub, off, count) ==
    [scope |-> scope, sel |-> sel, sub |-> sub, off |-> off, count |-> count, leader |-> FALSE]
GetLocalId(sub, id) == Query("local", "id", sub, id, 1)
GetDirectId(sub, id) == Query("direct", "id", sub, id, 1)
GetDirectHash(sub, hash) == Query("direct", "hash", sub, hash, 1)
GetLocalHash(hash) == GetDirectHash(kLocalContainers, hash)
GetGlobal(sub) == Query("global", "all", sub, 0, 0)
GetGlobalBcast == GetGlobal(kContainerSet)
GetRange(sub, off, count) == Query("global", "range", sub, off, count)
ForwardToLeader(q) == [q EXCEPT !.leader = TRUE]

Entry(dm, d) == IF d \in DOMAIN dm THEN dm[d] ELSE <<>>

(* DomainMapEntry::Expand: ids that are there already stay where they are.  *)
Expand(ids, range) ==
    ids \o SelectSeq([i \in 1..range.count |-> <<range.group, range.off + i - 1>>],
                     LAMBDA id : ~Contains(ids, id))

UpdateDomains(dm, ops) ==
    [d \in {ops[i].domain : i \in DOMAIN ops} |->
        FoldLeft(LAMBDA ids, op : Expand(ids, op.range), Entry(dm, d),
                 SelectSeq(ops, LAMBDA op : op.domain = d))] @@ dm

GetDomainSize(dm, d) == Len(Entry(dm, d))

(* GetSubDomainId throws when a hash selects from an entry that is missing  *)
(* or empty; the exception leaves ResolveDomainQuery.                       *)
Throws(dm, pool, q) ==
    /\ q.scope # "local"
    /\ q.leader \/ q.sel = "hash" \/ (q.sel = "range" /\ q.count > 0)
    /\ Entry(dm, <<pool, <<q.sub, 0>>>>) = <<>>

GetSubDomainId(dm, pool, q) ==
    LET major == Entry(dm, <<pool, <<q.sub, 0>>>>)
    IN  CASE q.sel = "id" -> <<q.sub, q.off>>
          [] q.sel = "hash" -> major[(q.off % Len(major)) + 1]
          [] OTHER -> <<q.sub, 0>>

GetDomainId(dm, pool, q) == <<pool, GetSubDomainId(dm, pool, q)>>

RECURSIVE ResolveMinorDomain(_, _, _)
ResolveMinorDomain(dm, pool, q) ==
    LET dom == GetDomainId(dm, pool, q)
        Resolve(id) ==
            IF IsPhysical(id)
            THEN <<[dom |-> GetLocalId(kContainerSet, dom[2][2]), node |-> id[2]]>>
            ELSE ResolveMinorDomain(dm, pool, IF id[2] > 0 THEN GetDirectId(id[1], id[2])
                                                           ELSE GetGlobal(id[1]))
        ids == Entry(dm, dom)
    IN  FlattenSeq([i \in 1..Len(ids) |-> Resolve(ids[i])])

(* Faulty variant of SplitRange: every range starts at the offset of the    *)
(* whole query.                                                             *)
SplitRangeSameOffset(q, off, size, me) ==
    [i \in 1..((size + Neighborhood - 1) \div Neighborhood) |->
        LET o == (i - 1) * Neighborhood
            rem == IF size - o < Neighborhood THEN size - o ELSE Neighborhood
        IN  [dom |-> GetRange(q.sub, off, rem), node |-> me]]

(* A large domain becomes one range query for each neighborhood; node is    *)
(* the same for all of them.                                                *)
SplitRange(q, off, size, me) ==
    LET forward == Hosts \div Neighborhood
    IN  [i \in 1..((size + Neighborhood - 1) \div Neighborhood) |->
            LET o == (i - 1) * Neighborhood
                rem == IF size - o < Neighborhood THEN size - o ELSE Neighborhood
            IN  [dom |-> [GetRange(q.sub, off + o, rem) EXCEPT !.leader = q.leader],
                 node |-> IF forward < 2 THEN me ELSE forward * Neighborhood]]

ResolveMajorDomain(dm, pool, q, full, me) ==
    LET off == IF q.sel = "range" THEN q.off ELSE 0
        size == IF q.sel = "range" THEN q.count ELSE GetDomainSize(dm, GetDomainId(dm, pool, q))
    IN  IF size <= Neighborhood \/ full
        THEN FlattenSeq([i \in 1..size |-> ResolveMinorDomain(dm, pool, GetDirectHash(q.sub, off + i - 1))])
        ELSE SplitRange(q, off, size, me)

(* With kForwardToLeader the query goes, without the flag, to the node of   *)
(* hash 1.                                                                  *)
ResolveDomainQuery(dm, me, pool, q, full) ==
    CASE q.scope = "local" -> <<[dom |-> q, node |-> me]>>
      [] q.scope # "local" /\ q.leader ->
            [ResolveMinorDomain(dm, pool, GetDirectHash(q.sub, 1))
                EXCEPT ![1].dom = [q EXCEPT !.leader = FALSE]]
      [] q.scope = "direct" /\ ~q.leader -> ResolveMinorDomain(dm, pool, q)
      [] q.scope = "global" /\ ~q.leader -> ResolveMajorDomain(dm, pool, q, full, me)

(* The domains of a new pool: containers 1..count over the nodes that the   *)
(* affinity names in the admin pool, in turn.  The container set has one    *)
(* member for each of these nodes.                                          *)
CreateDefaultDomains(dm, me, pool, admin, affinity, count) ==
    LET res == ResolveDomainQuery(dm, me, admin, affinity, TRUE)
        nodes == IF res = <<>> THEN [i \in 1..Hosts |-> i] ELSE [i \in DOMAIN res |-> res[i].node]
        Op(sub, group, off, n) ==
            [domain |-> <<pool, sub>>, range |-> [group |-> group, off |-> off, count |-> n]]
        NodeOf(i) == nodes[((i - 1) % Len(nodes)) + 1]
        Container(i) ==
            <<Op(<<kContainerSet, i>>, kPhysicalNode, NodeOf(i), 1)>>
                \o IF NodeOf(i) = me
                   THEN <<Op(<<kLocalContainers, 1>>, kContainerSet, i, 1)>>
                   ELSE <<>>
    IN  <<Op(<<kContainerSet, 0>>, kContainerSet, 1, Len(nodes)),
          Op(<<kLocalContainers, 0>>, kLocalContainers, 1, 1)>>
            \o FlattenSeq([i \in 1..count |-> Container(i)])

(* The containers of a pool that this node has to create.                   *)
GetLocalContainers(dm, me, pool) ==
    LET Resolved(i) == ResolveDomainQuery(dm, me, pool, GetDirectHash(kContainerSet, i), TRUE)
        Mine(i) == IF Len(Resolved(i)) = 1 /\ Resolved(i)[1].node = me
                   THEN <<Resolved(i)[1].dom.off>>
                   ELSE <<>>
    IN  FlattenSeq([i \in 1..GetDomainSize(dm, <<pool, <<kContainerSet, 0>>>>) |-> Mine(i - 1)])
=============================================================================
