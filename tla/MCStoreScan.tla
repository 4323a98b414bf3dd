---------------------------- MODULE MCStoreScan ----------------------------
(***************************************************************************)
(* Instances of StoreScan for TLC: three keys, limits around and between   *)
(* them, and letters that leave a key out.                                 *)
(***************************************************************************)
EXTENDS StoreScan

AllStores  == Sorted \cup {"unqlite", "memcached"}
ThreeKeys  == 1 .. 3
AnyLimits  == 0 .. 4
=============================================================================
