----------------------------- MODULE MCExplorer -----------------------------
(***************************************************************************)
(* The servers TLC checks Explorer on.  For the keys, servers of one       *)
(* database: a local store whose deletions never miss and whose flush may  *)
(* leave keys, and redis.  For the mark of the default database, servers   *)
(* without keys: a local store, and redis with three databases, of which   *)
(* the settings name one and a new connection uses another.  SELECT can be *)
(* given a name that redis refuses.                                        *)
(***************************************************************************)
EXTENDS Explorer

CONSTANTS d0, d1, d2, unknown

KeyServers ==
  {Server(FALSE, {d0}, {d0}, d0, {1, 2}, TRUE, "some", {"set", "del", "rename", "flushdb"}),
   Server(TRUE, {d0}, {d0, unknown}, d0, {1, 2}, FALSE, "whole",
          {"push", "del", "rename", "select"})}

DatabaseServers ==
  {Server(FALSE, {d0}, {d0}, d0, {}, TRUE, "each", {}),
   Server(TRUE, {d0, d1, d2}, {d0, d1, d2, unknown}, d1, {}, FALSE, "whole", {"select"})}

AllServers == KeyServers \cup DatabaseServers
=============================================================================
