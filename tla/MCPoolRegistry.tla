--------------------------- MODULE MCPoolRegistry ---------------------------
(* PoolRegistry for TLC: three nodes and neighborhoods of two, so that a    *)
(* broadcast to all nodes is split.  Two calls create the pool "a", whose   *)
(* containers create "c" on node 2; both are sent to node 1.  A third, sent *)
(* to node 3, creates "b" on nodes 2 and 3.                                 *)
EXTENDS PoolRegistry

CONSTANTS r1, r2, r3, rc, u1, u2, u3

MCNames == {"a", "b", "c"}
MCRequests == {r1, r2, r3}
Ask(name, affinity, containers, at) ==
    [name |-> name, affinity |-> affinity, containers |-> containers, at |-> at]
MCAsked ==
    (r1 :> Ask("a", GetGlobalBcast, 0, 1)) @@ (r2 :> Ask("a", GetGlobalBcast, 0, 1))
        @@ (r3 :> Ask("b", GetRange(kContainerSet, 1, 2), 2, 3))
        @@ (rc :> Ask("c", GetDirectHash(kContainerSet, 1), 1, 1))
MCInner == [x \in MCNames |-> IF x = "a" THEN rc ELSE NoRequest]

MCUsers == {u1, u2, u3}
To(node, by, name, query) == [node |-> node, by |-> by, name |-> name, at |-> 1, query |-> query]
MCSent ==
    (u1 :> To(3, r2, "a", ForwardToLeader(GetGlobalBcast)))
        @@ (u2 :> To(2, r3, "b", GetDirectHash(kContainerSet, 3)))
        @@ (u3 :> To(1, NoRequest, "a", GetLocalHash(0)))

(* The same, with a client on node 2 that asks for the id of "a".           *)
EarlySent == [u \in MCUsers |-> IF u = u3 THEN To(2, NoRequest, "a", GetDirectHash(kContainerSet, 1)) ELSE MCSent[u]]
=============================================================================
