------------------------------ MODULE MCClient ------------------------------
(***************************************************************************)
(* Instances of Client for TLC.                                            *)
(***************************************************************************)
EXTENDS Client

\* What the user of a local store asks for.
LocalKinds == {"connect", "disconnect", "execute", "loadDatabases", "loadContent",
               "history", "clearDatabase", "watch"}
LocalImplemented == {"clearDatabase"}

\* What the user of a redis server asks for.
RedisKinds == {"connect", "disconnect", "execute", "loadDatabases", "loadContent",
               "serverInfo", "clearHistory", "clearDatabase", "setDefault", "shutdown",
               "export"}
RedisImplemented == OptionalKinds
=============================================================================
