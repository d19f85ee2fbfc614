--------------------------- MODULE MCRemoteQueue ---------------------------
(***************************************************************************)
(* Three nodes: a task that goes to its own node and a second one, and a    *)
(* flush task that goes from the third node to the second.  The failure of  *)
(* the third node leaves the first task to be completed, unless the second  *)
(* node is about to answer it.                                              *)
(***************************************************************************)
EXTENDS RemoteQueue, TLC

CONSTANTS n0, n1, n2, d0, d1, t, f

MCNodes == {n0, n1, n2}
MCTasks == {t, f}
MCNodeOf == (t :> n0) @@ (f :> n2)
MCDomains == {d0, d1}
MCnode_ == (d0 :> n0) @@ (d1 :> n1)
MCTargets == (t :> {d0, d1}) @@ (f :> {d1})
MCFlushes == {f}
=============================================================================
