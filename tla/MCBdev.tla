------------------------------- MODULE MCBdev -------------------------------
(* Bdev with slabs of 2 and 3 units on a device of 5 units.  A request of 1 *)
(* is less than the smallest slab, 3 is one slab, 4 is a slab of 3 and a    *)
(* rest of 1 that takes a slab of 2, and of 6, two slabs of 3, the second   *)
(* is refused.  The heap may end within a slab, and two owners are active   *)
(* at a time.                                                               *)
EXTENDS Bdev

MCSlabSizes == <<2, 3>>
=============================================================================
