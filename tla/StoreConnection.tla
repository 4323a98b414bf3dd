--------------------------- MODULE StoreConnection ---------------------------
(***************************************************************************)
(* One DBConnection: the native handle that Connection<Traits> owns, the   *)
(* methods of the template CDBConnection and of the eight stores as the    *)
(* calls that StoreMethods lists, and what the client of the connection    *)
(* (the driver, and through it the explorer) is told about keys.  A call   *)
(* can be refused, or fail with the link; over a network it can also be    *)
(* carried out and its answer be lost.  The store has no other client.     *)
(*                                                                         *)
(* Redis answers travel on one stream: stale counts the answers of earlier *)
(* commands that nobody read, and whoever reads next gets those first.     *)
(***************************************************************************)
EXTENDS StoreMethods, Integers, Sequences, FiniteSets

CONSTANTS
  Backends,  \* the stores of this instance
  Keys,      \* names of keys
  Values,    \* what can be stored under them
  MaxAsks    \* bound on the methods called

ASSUME StoreAssumption ==
  /\ Backends \subseteq Stores
  /\ IsFiniteSet(Keys)
  /\ Values # {}

VARIABLES
  store,      \* the type of the connection
  handle,     \* connection_.handle_ is set
  link,       \* the connection behind the handle: "up" or "down"
  isAuth,     \* isAuth_ of redis
  live,       \* native handles that exist
  abandoned,  \* those of them that nothing refers to any more
  stored,     \* the keys of the store
  told,       \* the keys as the client was told of them
  unsure,     \* keys changed by a method that failed or that tells nothing
  op,         \* the method that is running
  probe,      \* the connection of a test or a discovery, in a thread of its own
  stale,      \* answers on the stream that belong to earlier commands
  mismatched, \* an answer was taken for the answer of another command
  asked       \* methods called so far

dataVars == <<stored, told, unsure>>
linkVars == <<handle, link, live, abandoned>>
streamVars == <<stale, mismatched>>
connectionVars == <<store, linkVars, isAuth, dataVars, op, probe, streamVars, asked>>

None == "none"    \* the key is absent
Named == "named"  \* the client knows the name of the key and not its value

Idle == [name |-> "idle", phase |-> "idle", todo |-> <<>>, keys |-> <<>>, target |-> None,
         value |-> None, named |-> {}, touched |-> {}, owed |-> 0, scans |-> 0]

NoProbe == [on |-> FALSE, todo |-> <<>>]

Present == {k \in Keys : stored[k] # None}
Count(b) == IF b THEN 1 ELSE 0

ConnectionInit ==
  /\ store \in Backends
  /\ handle = FALSE /\ link = "down" /\ isAuth = FALSE
  /\ live = 0 /\ abandoned = 0
  /\ stored \in [Keys -> {None, CHOOSE v \in Values : TRUE}]
  /\ told = [k \in Keys |-> None]
  /\ unsure = {k \in Keys : stored[k] # None}
  /\ op = Idle /\ probe = NoProbe
  /\ stale = 0 /\ mismatched = FALSE /\ asked = 0

-----------------------------------------------------------------------------
(* The handle: Connection<Traits>. *)

\* Every handle counts as connected, except that memcached asks its library.
IsConnected == handle /\ (store = "memcached" => link = "up")

\* A method is called while none is running.
Asked ==
  /\ op = Idle
  /\ asked < MaxAsks
  /\ asked' = asked + 1

\* What a new stream, or none, does to what the client knows of the old one.
FreshStream ==
  /\ stale' = 0
  /\ mismatched' = FALSE
  /\ unsure' = IF mismatched THEN Keys ELSE unsure
  /\ UNCHANGED <<stored, told>>

\* After opening, redis authenticates if there is a password, selects the database
\* and counts its keys; a failure leaves the handle open.
GreetRedis(password) ==
  /\ op' = [Idle EXCEPT !.name = "Connect", !.phase = "calls",
              !.todo = (IF password THEN <<"auth">> ELSE <<>>) \o <<"pass", "pass">>]
  /\ isAuth' = (isAuth \/ ~password)

Greet ==
  IF store = "redis" THEN \E password \in BOOLEAN : GreetRedis(password)
  ELSE UNCHANGED <<op, isAuth>>

\* Connect of an open connection opens nothing.
ConnectAgain ==
  /\ Asked
  /\ IsConnected
  /\ Greet
  /\ UNCHANGED <<store, linkVars, dataVars, probe, streamVars>>

\* A handle that is set and does not count as connected is overwritten.
ConnectOpens ==
  /\ Asked
  /\ ~IsConnected
  /\ "open" \in Open[store]
  /\ handle' = TRUE
  /\ link' = "up"
  /\ live' = live + 1
  /\ abandoned' = abandoned + Count(handle)
  /\ Greet
  /\ FreshStream
  /\ UNCHANGED <<store, probe>>

\* The library refuses, or gives up half way and its environment is left behind.
ConnectFails ==
  /\ Asked
  /\ ~IsConnected
  /\ \E outcome \in Open[store] \ {"open"} :
       /\ live' = live + Count(outcome = "left")
       /\ abandoned' = abandoned + Count(outcome = "left")
  /\ UNCHANGED <<store, handle, link, isAuth, dataVars, op, probe, streamVars>>

\* Mutant: the pointer to the freed handle is kept.
FreedKept ==
  /\ link' = "down"
  /\ live' = live - 1
  /\ FreshStream
  /\ UNCHANGED <<handle, abandoned>>

\* The handle is freed and forgotten.
Freed ==
  /\ handle' = FALSE
  /\ link' = "down"
  /\ live' = live - 1
  /\ FreshStream
  /\ UNCHANGED abandoned

\* Disconnect of a connection that is not open does nothing; Quit of every store but
\* redis is Disconnect.
Disconnect ==
  /\ Asked
  /\ IsConnected
  /\ Freed
  /\ UNCHANGED <<store, isAuth, op, probe>>

-----------------------------------------------------------------------------
(* Tests and discoveries use a connection of their own.  Every error frees it. *)

TestCalls == <<"auth">>
ClusterCalls == <<"auth", "pass">>
SentinelCalls == <<"auth", "pass", "pass", "pass">>  \* two masters

\* TestConnection of the other stores is over before it returns: memcached pings, the
\* rest open the store and close it.
TestOpens ==
  /\ Asked
  /\ store # "redis"
  /\ \E outcome \in (IF store = "memcached" THEN {"refused"} ELSE Open[store]) :
       /\ live' = live + Count(outcome = "left")
       /\ abandoned' = abandoned + Count(outcome = "left")
  /\ UNCHANGED <<store, handle, link, isAuth, dataVars, op, probe, streamVars>>

ProbeStarts ==
  /\ Asked
  /\ store = "redis"
  /\ ~probe.on
  /\ \E calls \in {TestCalls, ClusterCalls, SentinelCalls}, password \in BOOLEAN :
       probe' = [on |-> TRUE, todo |-> IF password THEN calls ELSE Tail(calls)]
  /\ live' = live + 1
  /\ UNCHANGED <<store, handle, link, abandoned, isAuth, dataVars, op, streamVars>>

ProbeAnswered ==
  /\ probe.on
  /\ probe.todo # <<>>
  /\ probe' = [probe EXCEPT !.todo = Tail(@)]
  /\ UNCHANGED <<store, linkVars, isAuth, dataVars, op, streamVars, asked>>

ProbeFreed ==
  /\ probe' = NoProbe
  /\ live' = live - 1
  /\ UNCHANGED <<store, handle, link, abandoned, isAuth, dataVars, op, streamVars, asked>>

\* Mutant: the error of an authentication returns without redisFree.
ProbeFailsOpen ==
  /\ probe.on
  /\ probe.todo # <<>>
  /\ probe' = NoProbe
  /\ UNCHANGED <<store, linkVars, isAuth, dataVars, op, streamVars, asked>>

ProbeFails ==
  /\ probe.on
  /\ probe.todo # <<>>
  /\ ProbeFreed

ProbeReturns ==
  /\ probe.on
  /\ probe.todo = <<>>
  /\ ProbeFreed

-----------------------------------------------------------------------------
(* Calling a method: each returns "Not connected" at once unless IsConnected. *)

Start(name, todo, keys, target, value) ==
  /\ Asked
  /\ IsConnected
  /\ op' = [Idle EXCEPT !.name = name, !.phase = "calls", !.todo = todo, !.keys = keys,
                        !.target = target, !.value = value]
  /\ UNCHANGED <<store, linkVars, isAuth, dataVars, probe, streamVars>>

Calls(method) == Impl[store][method]
Has(method) == method \in DOMAIN Impl[store]

Set == \E k \in Keys, v \in Values : Start("Set", Calls("Set"), <<k>>, k, v)
Get == \E k \in Keys : Start("Get", Calls("Get"), <<k>>, k, None)
Rename == \E k, new \in Keys : Start("Rename", Calls("Rename"), <<k>>, new, None)

\* The stores without expiration refuse at once.
SetTTL == \E k \in Keys : Has("SetTTL") /\ Start("SetTTL", Calls("SetTTL"), <<k>>, k, None)

\* One call per key.
Delete ==
  \E keys \in UNION {[1..n -> Keys] : n \in 1..2} :
    /\ Cardinality({keys[i] : i \in DOMAIN keys}) = Len(keys)
    /\ Start("Delete", [i \in DOMAIN keys |-> Head(Calls("Delete"))], keys, None, None)

Select == Start("Select", Calls("Select"), <<>>, None, None)

\* Redis says goodbye first.
Quit == Has("Quit") /\ Start("Quit", Calls("Quit"), <<>>, None, None)

\* LRANGE and its kin are methods of redis only.
Load ==
  /\ store = "redis"
  /\ \E m \in DOMAIN RedisLoads, k \in Keys : Start("Get", RedisLoads[m], <<k>>, k, None)

\* The handler of any other command calls a method that tells the client nothing.
Forward ==
  \E c \in DOMAIN Commands[store] :
    IF Commands[store][c] \in {<<>>, <<"pass">>}
      THEN Start("forward", Commands[store][c], <<>>, None, None)
      ELSE \E k \in Keys, v \in Values : Start("forward", Commands[store][c], <<k>>, k, v)

\* Requests that the driver serves with its connection.
Request ==
  \E r \in DOMAIN Requests[store] : Start(r, Requests[store][r], <<>>, None, None)

-----------------------------------------------------------------------------
(* The calls of the running method. *)

Call == Head(op.todo)
Key == Head(op.keys)

\* Whether the store can do what the call asks.
Accepts ==
  CASE Call = "get" -> store = "redis" \/ stored[Key] # None
    [] Call = "del" -> store = "redis" \/ Inner[store].delFindsAbsent \/ stored[Key] # None
    [] Call = "add" -> stored[Key] = None
    [] Call \in {"change", "expire", "rename"} -> stored[Key] # None
    [] OTHER -> TRUE

Emptied(gone) == [k \in Keys |-> IF k \in gone THEN None ELSE stored[k]]

\* The store after the call.
Results ==
  CASE Call \in {"put", "add", "change"} -> {[stored EXCEPT ![op.target] = op.value]}
    [] Call = "del" -> {Emptied({Key})}
    [] Call = "rename" -> {[Emptied({Key}) EXCEPT ![op.target] = stored[Key]]}
    [] Call = "any" -> {[stored EXCEPT ![Key] = v] : v \in Values \cup {None}}
    [] Call = "erase" -> {stored} \cup {Emptied({k}) : k \in Keys}
    [] Call \in {"flush", "sweep"} -> {Emptied(Keys)}
    [] OTHER -> {stored}

\* The store after a call that reported an error: it did nothing, except that a sweep
\* had come some way.
Remains == IF Call = "sweep" THEN {Emptied(gone) : gone \in SUBSET Keys} ELSE {stored}

\* What the client could have seen of the store after a call whose answer is lost.
Executed == IF link = "up" /\ Accepts THEN Remains \cup Results ELSE Remains

Changed == {k \in Keys : stored'[k] # stored[k]}

\* The keys an answer names: the ones a listing has room for, the one that was deleted.
Naming ==
  CASE Call = "list" -> SUBSET Present
    [] Call = "del" -> {IF stored[Key] # None \/ Inner[store].delFindsAbsent THEN op.named \cup {Key}
                        ELSE op.named}
    [] OTHER -> {op.named}

\* The method goes on with its next call, past an error that it ignores.
Passed ==
  [op EXCEPT !.todo = Tail(@), !.keys = IF op.name = "Delete" THEN Tail(@) ELSE @]

\* Errors that a method ignores: DELETE goes on with the next key, though redis only
\* where there was a reply; nobody looks at the reply of SELECT, nor at the result of
\* the DBkcount that ends Select and the loading of keys.
Tolerates(reply) ==
  \/ op.name = "Delete" /\ (store = "redis" => reply)
  \/ op.name \in {"Select", "databaseInfo", "Connect"}
     /\ Call = "pass" /\ (reply \/ store # "redis" \/ Len(op.todo) = 1)
  \/ op.name = "loadContent" /\ Call = "pass"
  \/ op.name = "Quit" /\ reply

\* The error ends the method, and the client is not told what it had already done.
Ends ==
  /\ op' = Idle
  /\ unsure' = unsure \cup op.touched \cup Changed
  /\ UNCHANGED told

GoesOn ==
  /\ op' = Passed
  /\ unsure' = unsure \cup Changed
  /\ UNCHANGED told

Calling == op.phase = "calls" /\ op.todo # <<>>

\* Whoever reads while stale answers are on the stream reads one of those.
Reading == mismatched' = (mismatched \/ stale > 0) /\ UNCHANGED stale

\* Calls whose answer is read by CliReadReply: INFO, FLUSHDB and what the user typed.
Formatted == store = "redis" /\ (Call = "any" \/ op.name \in {"serverInfo", "clearDatabase"})

\* NOAUTH in an answer that CliReadReply reads takes the authentication back.
AuthRefused == IF Formatted THEN {FALSE, isAuth} ELSE {isAuth /\ Call # "auth"}

CallAnswered ==
  /\ Calling
  /\ store \in Remote => link = "up"
  /\ Accepts
  /\ stored' \in Results
  /\ \E named \in Naming :
       op' = [Passed EXCEPT !.value = IF Call = "get" THEN stored[Key] ELSE @,
                            !.named = named, !.touched = @ \cup Changed]
  /\ isAuth' = (isAuth \/ Call = "auth")
  /\ Reading
  /\ UNCHANGED <<store, linkVars, told, unsure, probe, asked>>

\* An error of the library or of the server: the link is as good as before.
CallRefused ==
  /\ Calling
  /\ store \in Remote => link = "up"
  /\ stored' \in IF stale > 0 THEN Executed ELSE Remains
  /\ IF Tolerates(TRUE) THEN GoesOn ELSE Ends
  /\ isAuth' \in AuthRefused
  /\ Reading
  /\ UNCHANGED <<store, linkVars, probe, asked>>

\* The link is gone, before or after the server did what it was asked.
CallFails ==
  /\ Calling
  /\ store \in Remote
  /\ stored' \in Executed
  /\ link' = "down"
  /\ IF Tolerates(FALSE) THEN GoesOn ELSE Ends
  /\ isAuth' = (isAuth /\ Call # "auth")
  /\ UNCHANGED <<store, handle, live, abandoned, probe, streamVars, asked>>

-----------------------------------------------------------------------------
(* The end of a method: what the template reports to its client. *)

\* Keys whose flush may have kept some: the stores that delete under their cursor, and
\* ssdb, which asks for no keys.
KeepsSome == {"ssdb", "unqlite", "upscaledb"}

\* OnKeyAdded, OnKeyLoaded, OnKeysRemoved, OnKeyRenamed; the answers of the driver.
Told ==
  CASE op.name \in {"Set", "Get"} -> [told EXCEPT ![Key] = op.value]
    [] op.name = "Delete" -> [k \in Keys |-> IF k \in op.named THEN None ELSE told[k]]
    [] op.name = "Rename" -> [[told EXCEPT ![Key] = None] EXCEPT ![op.target] = told[Key]]
    [] op.name = "loadContent" ->
         [k \in Keys |-> IF k \in op.named /\ told[k] = None THEN Named ELSE told[k]]
    [] op.name = "clearDatabase" -> [k \in Keys |-> None]
    [] OTHER -> told

\* The keys that this end leaves the client right about, and in doubt about.
Sure ==
  CASE op.name \in {"Set", "Get"} -> {Key}
    [] op.name = "Delete" -> op.named
    [] op.name = "Rename" -> {Key, op.target}
    [] op.name = "loadContent" -> {k \in op.named : told[k] = None}
    [] op.name = "clearDatabase" -> Keys
    [] OTHER -> {}

Doubt ==
  CASE op.name = "Rename" /\ Key \in unsure -> {op.target}
    [] op.name = "forward" -> op.touched
    [] op.name = "clearDatabase" /\ store \in KeepsSome -> Keys
    [] OTHER -> {}

Returns ==
  /\ op.phase = "calls"
  /\ op.name # "Quit"
  /\ op.todo = <<>>
  /\ told' = Told
  /\ unsure' = (unsure \ Sure) \cup Doubt
  /\ op' = Idle
  /\ UNCHANGED <<store, linkVars, isAuth, stored, probe, streamVars, asked>>

\* Quit of redis frees the context after the reply.
QuitReturns ==
  /\ op.phase = "calls"
  /\ op.name = "Quit"
  /\ op.todo = <<>>
  /\ Freed
  /\ op' = Idle
  /\ UNCHANGED <<store, isAuth, probe, asked>>

Ask ==
  \/ ConnectAgain \/ ConnectOpens \/ ConnectFails \/ Disconnect
  \/ TestOpens \/ ProbeStarts
  \/ Set \/ Get \/ Rename \/ SetTTL \/ Delete \/ Select \/ Quit \/ Load \/ Forward \/ Request

Step == CallAnswered \/ CallRefused \/ CallFails \/ Returns \/ QuitReturns

ProbeStep == ProbeAnswered \/ ProbeFails \/ ProbeReturns

-----------------------------------------------------------------------------
(* Properties. *)

\* Whatever fails on the way (a call in the middle of a rename by copy, one key of a
\* DELETE, the answer of a command that was carried out), what the client was told
\* about a key is what is stored under it, for every key except those that a method
\* ending in an error or telling nothing has touched since.
ToldExact ==
  op = Idle /\ ~mismatched =>
    \A k \in Keys \ unsure :
      told[k] = stored[k] \/ (told[k] = Named /\ stored[k] # None)

\* Every native handle is the connection's or the running test's, or is one of those
\* left behind by a failed open of lmdb and upscaledb or a reconnect of memcached;
\* and freeing happens once.
HandlesFreed == live = abandoned + Count(handle) + Count(probe.on)
=============================================================================
