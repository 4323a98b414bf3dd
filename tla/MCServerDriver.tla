--------------------------- MODULE MCServerDriver ---------------------------
(***************************************************************************)
(* Instances of ServerDriver for TLC.                                      *)
(***************************************************************************)
EXTENDS ServerDriver

\* Requests that open, use and close a connection, and a batch that never ends.
LinkKinds == {"connect", "disconnect", "execute", "watch", "loadDatabases"}

\* What the drivers of local stores implement, and what the redis driver does.
LocalImplemented == {"clearDatabase"}
RedisImplemented == OptionalKinds

\* Requests for the run about the signals of a shutdown.
ShutdownKinds == {"connect", "shutdown"}
=============================================================================
