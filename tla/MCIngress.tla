----------------------------- MODULE MCIngress -----------------------------
(***************************************************************************)
(* The default configuration's mix of cores in small: two dedicated and    *)
(* two shared workers, and two lists that lack one kind.  Lanes of depth 2 *)
(* hold two tasks of one client.                                           *)
(***************************************************************************)
EXTENDS Ingress

MCCpuLists == {<<2, 0, 1, 2>>, <<0, 1>>, <<0, 0>>}
=============================================================================
