-------------------------- MODULE ConnectionProofs --------------------------
(***************************************************************************)
(* Proofs about RedisLink, and with it StoreConnection, for any keys,      *)
(* values and lists of modes: what becomes of native handles, of the       *)
(* answers on the stream of redis, and what the client knows of the keys.  *)
(***************************************************************************)
EXTENDS RedisLink, FiniteSetTheorems, SequenceTheorems, TLAPS

-----------------------------------------------------------------------------
(* Inductive invariants. *)

\* A method only runs on a handle, which is why Quit frees one that exists.
HandleInv ==
  /\ handle \in BOOLEAN /\ probe \in [on : BOOLEAN, todo : {probe.todo}]
  /\ live \in Nat /\ abandoned \in Nat
  /\ op # Idle => handle
  /\ HandlesFreed

\* What a running mode has still to read.
ModeShape ==
  /\ rest \in Seq(DOMAIN FirstPhase)
  /\ op.phase \in {"replies", "types", "sizes"} => op.owed > 0
  /\ op.phase = "count" => op.owed = 0

\* The phases of the modes, which only redis has.
ModePhases == {"list", "replies", "count", "total", "batch", "types", "sizes", "cursor", "ping",
               "info", "asking", "first", "sync", "lines"}

\* Answers nobody asked for come only from a redis server, on an open handle; while
\* nothing has gone astray there are none except for a mode that listens, or behind a
\* link that is gone.
StreamInv ==
  /\ feed \/ stale > 0 \/ astray # "none" \/ mismatched => handle /\ store = "redis"
  /\ op.phase \in ModePhases => store = "redis"
  /\ astray = "none" /\ link = "up" /\ (feed \/ stale > 0) => op.phase = "lines"
  /\ StreamKept

\* While no command was left out, the answers to come are those of the next commands.
PipeInv ==
  /\ op.phase = "replies" /\ ~pipe.skipped =>
       pipe.sent = pipe.filed + 1 .. pipe.filed + op.owed
  /\ FiledRight

\* The fields of the running method.
OpTyped ==
  op \in [name : {op.name}, phase : {op.phase}, todo : {op.todo}, keys : {op.keys},
          target : Keys \cup {None}, value : Values \cup {None},
          named : SUBSET Keys, touched : SUBSET Keys, owed : Nat, scans : 0..MaxScans]

\* Methods that leave the keys alone.
Quiet == {"Connect", "Select", "Quit", "serverInfo", "databaseInfo"}

\* The calls each method has still to make, and the keys they are about.
MethodShape ==
  \/ /\ op.name = "Set" /\ op.todo \in {<<"put">>, <<>>}
     /\ op.target \in Keys /\ op.keys = <<op.target>>
  \/ /\ op.name = "Get" /\ op.todo \in {<<"get">>, <<>>}
     /\ op.target \in Keys /\ op.keys = <<op.target>>
  \/ /\ op.name = "SetTTL" /\ op.todo \in {<<"get", "put">>, <<"put">>, <<"expire">>, <<>>}
     /\ op.target \in Keys /\ op.keys = <<op.target>>
  \/ /\ op.name = "Rename"
     /\ op.todo \in {<<"get", "del", "put">>, <<"del", "put">>, <<"put">>, <<"rename">>, <<>>}
     /\ op.target \in Keys /\ \E k \in Keys : op.keys = <<k>>
  \/ /\ op.name = "Delete" /\ op.todo \in Seq({"del"})
     /\ op.keys \in Seq(Keys) /\ Len(op.keys) = Len(op.todo)
  \/ /\ op.name = "forward"
     /\ \/ op.target \in Keys /\ op.keys = <<op.target>>
        \/ op.todo \in {<<>>, <<"pass">>}
  \/ /\ op.name \in Quiet
     /\ op.todo \in {<<>>, <<"pass">>, <<"pass", "pass">>, <<"auth", "pass", "pass">>}
  \/ /\ op.name = "loadContent" /\ op.todo \in {<<"list", "pass">>, <<"pass">>, <<>>}
  \/ /\ op.name = "clearDatabase"
     /\ \/ op.todo \in {<<"sweep">>, <<"flush">>, <<>>}
        \/ store \in KeepsSome /\ op.todo \in {<<"erase", "erase">>, <<"erase">>, <<"pass">>}

ShapeInv == OpTyped /\ (op.phase = "calls" => MethodShape)

\* What the client was told of k is what is stored.
Agrees(k) == told[k] = stored[k] \/ (told[k] = Named /\ stored[k] # None)

\* A key on its way to another name: its value is gone from the old one before it is
\* under the new one, and the client, if it was right about it, still is.
Carries(v) == Key \notin unsure => told[Key] = v \/ (told[Key] = Named /\ v # None)

RenameProgress ==
  /\ op.todo \in {<<"get", "del", "put">>, <<"del", "put">>, <<"rename">>} => op.touched = {}
  /\ op.todo = <<"del", "put">> => op.value = stored[Key]
  /\ op.todo = <<"put">> => op.touched \subseteq {Key} /\ stored[Key] = None /\ Carries(op.value)
  /\ op.todo = <<>> => op.touched \subseteq {Key, op.target}
  /\ op.todo = <<>> /\ op.target # Key => stored[Key] = None
  /\ op.todo = <<>> => Carries(stored[op.target])

\* How far the running method has come, by name.
Progress ==
  /\ op.phase # "calls" \/ op.name = "loadContent" =>
       op.touched = {} /\ \A k \in op.named : stored[k] # None
  /\ op.phase = "calls" =>
       /\ op.name \in Quiet \cup {"Get", "SetTTL"} => op.touched = {}
       /\ op.name = "Set" => op.touched \subseteq {Key} /\ (op.todo = <<>> => op.value = stored[Key])
       /\ op.name = "Get" /\ op.todo = <<>> => op.value = stored[Key]
       /\ op.name = "SetTTL" /\ op.todo = <<"put">> => op.value = stored[Key]
       /\ op.name = "Delete" =>
            op.touched \subseteq op.named /\ \A k \in op.named : stored[k] = None
       /\ op.name = "clearDatabase" /\ op.todo = <<>> /\ store \notin KeepsSome =>
            \A k \in Keys : stored[k] = None
       /\ op.name = "Rename" => RenameProgress

\* Where the client may be wrong: the keys it was left in doubt about, and those that
\* the running method has changed so far.
TellInv == ~mismatched => (\A k \in Keys \ (unsure \cup op.touched) : Agrees(k)) /\ Progress

-----------------------------------------------------------------------------
(* What the actions have in common. *)

\* A mode touches neither the handle nor the keys, and forgets the authentication at
\* most.
LEMMA ModeFrame ==
  ASSUME ModeStep
  PROVE  /\ op.phase \in ModePhases
         /\ UNCHANGED <<store, handle, live, abandoned, stored, probe, asked, interrupted>>
         /\ isAuth' \in {FALSE, isAuth}
<1> DEFINE Frame == UNCHANGED <<store, handle, live, abandoned, stored, probe, asked, interrupted>>
<1>1. ASSUME NEW phase \in ModePhases, At(phase)
      PROVE  op.phase \in ModePhases /\ Frame
  BY <1>1 DEF At
<1>2. PhaseFails => op.phase \in ModePhases
  BY DEF PhaseFails, RefusedPhases, StrictPhases, ModePhases
<1>3. op.phase \in ModePhases /\ Frame
  <2> HIDE DEF Frame
  <2> QED
    BY <1>1, <1>2
    DEF ModeStep, ScanListed, PipelineReply, PipelineStops, KeysCounted, KeysTotalled, BatchScanned,
        TypeRead, TypesStop, SizeRead, CursorMoved, Ping, PingFails, StatHead, StatReply, StatRetries,
        FirstReply, Synced, TransferFails, LineRead, SlaveLeaves, PhaseFails, ModePhases, In
<1>4. isAuth' \in {FALSE, isAuth}
  BY DEF ModeStep, ScanListed, PipelineReply, PipelineStops, KeysCounted, KeysTotalled, BatchScanned,
         TypeRead, TypesStop, SizeRead, CursorMoved, Ping, PingFails, StatHead, StatReply, StatRetries,
         FirstReply, Synced, TransferFails, LineRead, SlaveLeaves, PhaseFails, In, Refused
<1> QED
  BY <1>3, <1>4

\* The methods that begin with Start.
Methods == Set \/ Get \/ Rename \/ SetTTL \/ Delete \/ Select \/ Quit \/ Load \/ Forward \/ Request

\* Every method starts with its list of calls.
LEMMA MethodStarts ==
  ASSUME Methods
  PROVE  \E name, todo, keys, target, value : Start(name, todo, keys, target, value)
  BY DEF Methods, Set, Get, Rename, SetTTL, Delete, Select, Quit, Load, Forward, Request

\* A method leaves everything but itself alone when it starts.
LEMMA StartFrame ==
  ASSUME Methods
  PROVE  /\ op = Idle /\ IsConnected /\ op'.phase = "calls" /\ op' # Idle
         /\ UNCHANGED <<store, linkVars, isAuth, dataVars, probe, streamVars>>
<1>1. PICK name, todo, keys, target, value : Start(name, todo, keys, target, value)
  BY MethodStarts
<1>2. op'.phase = "calls"
  BY <1>1 DEF Start, Idle
<1>3. Idle.phase = "idle"
  BY DEF Idle
<1> QED
  BY <1>1, <1>2, <1>3 DEF Start, Asked

\* A call leaves the handle alone.
LEMMA CallFrame ==
  ASSUME CallAnswered \/ CallRefused \/ CallFails
  PROVE  /\ op.phase = "calls" /\ op.todo # <<>>
         /\ UNCHANGED <<store, handle, live, abandoned, probe, asked, stale, told>>
  BY DEF CallAnswered, CallRefused, CallFails, Calling, linkVars, streamVars, Reading, Ends, GoesOn

-----------------------------------------------------------------------------
(* Handles. *)

\* A handle counts for one.
LEMMA Counts == Count(TRUE) = 1 /\ Count(FALSE) = 0 /\ \A b \in BOOLEAN : Count(b) \in {0, 1}
  BY DEF Count

\* At the beginning there is no handle.
LEMMA InitHandles == LinkInit => HandleInv
<1> SUFFICES ASSUME LinkInit PROVE HandleInv
  OBVIOUS
<1>1. probe \in [on : BOOLEAN, todo : {probe.todo}] /\ probe.on = FALSE
  BY DEF LinkInit, ConnectionInit, NoProbe
<1>2. handle = FALSE /\ live = 0 /\ abandoned = 0 /\ op = Idle
  BY DEF LinkInit, ConnectionInit
<1>3. 0 = 0 + 0 + 0
  OBVIOUS
<1>4. HandlesFreed
  BY <1>1, <1>2, <1>3, Counts, Zenon DEF HandlesFreed
<1> QED
  BY <1>1, <1>2, <1>4 DEF HandleInv

\* The balance of handles, in numbers.
LEMMA Balance ==
  ASSUME HandleInv
  PROVE  \E h, p \in {0, 1} : h = Count(handle) /\ p = Count(probe.on) /\ live = abandoned + h + p
<1>1. Count(handle) \in {0, 1} /\ Count(probe.on) \in {0, 1}
  BY Counts DEF HandleInv
<1> QED
  BY <1>1, Zenon DEF HandleInv, HandlesFreed

\* Freeing an existing handle.
LEMMA FreedOnce ==
  ASSUME HandleInv, handle, Freed, op' = Idle, probe' = probe
  PROVE  HandleInv'
<1>1. handle = TRUE /\ handle' = FALSE /\ live' = live - 1 /\ abandoned' = abandoned
  BY DEF Freed, HandleInv
<1>2. PICK h, p \in {0, 1} : h = Count(handle) /\ p = Count(probe.on) /\ live = abandoned + h + p
  BY Balance
<1>3. h = 1
  BY <1>1, <1>2, Counts
<1>a. live = abandoned + 1 + p /\ abandoned \in Nat /\ live \in Nat
  BY <1>2, <1>3 DEF HandleInv
<1>4. live' = abandoned' + 0 + p /\ live' \in Nat
  BY <1>1, <1>a
<1>5. HandlesFreed'
  BY <1>1, <1>2, <1>4, Counts, Zenon DEF HandlesFreed
<1> QED
  BY <1>1, <1>4, <1>5 DEF HandleInv

\* Every step keeps the handles counted.
LEMMA HandleStep == HandleInv /\ [LinkNext]_linkAllVars => HandleInv'
<1> SUFFICES ASSUME HandleInv, [LinkNext]_linkAllVars PROVE HandleInv'
  OBVIOUS
<1>0. Idle.phase = "idle"
  BY DEF Idle
<1>1. CASE Methods
  BY <1>1, StartFrame DEF HandleInv, HandlesFreed, linkVars, IsConnected
<1>2. CASE ConnectAgain \/ ConnectOpens
  <2>1. IsConnected => handle
    BY DEF IsConnected
  <2>2. CASE ConnectAgain
    BY <2>1, <2>2 DEF ConnectAgain, HandleInv, HandlesFreed, linkVars
  <2>3. CASE ConnectOpens
    BY <2>3 DEF ConnectOpens, HandleInv, HandlesFreed, Count
  <2> QED
    BY <1>2, <2>2, <2>3
<1>3. CASE ConnectFails \/ TestOpens
  BY <1>3 DEF ConnectFails, TestOpens, HandleInv, HandlesFreed, Count
<1>4. CASE Disconnect
  BY <1>4, FreedOnce DEF Disconnect, IsConnected, Asked
<1>5. CASE ProbeStarts
  <2>1. probe'.on = TRUE /\ probe.on = FALSE /\ probe' \in [on : BOOLEAN, todo : {probe'.todo}]
    BY <1>5 DEF ProbeStarts, HandleInv
  <2>2. PICK h, p \in {0, 1} : h = Count(handle) /\ p = Count(probe.on) /\ live = abandoned + h + p
    BY Balance
  <2>3. p = 0
    BY <2>1, <2>2, Counts
  <2>4. UNCHANGED <<handle, abandoned, op>> /\ live' = abandoned + h + 1 /\ live' \in Nat
    BY <1>5, <2>2, <2>3 DEF ProbeStarts, HandleInv
  <2>5. HandlesFreed'
    BY <2>1, <2>2, <2>4, Counts, Zenon DEF HandlesFreed
  <2> QED
    BY <2>1, <2>4, <2>5 DEF HandleInv
<1>6. CASE ProbeAnswered
  <2>1. probe'.on = probe.on /\ probe' \in [on : BOOLEAN, todo : {probe'.todo}]
    BY <1>6 DEF ProbeAnswered, HandleInv
  <2> QED
    BY <1>6, <2>1 DEF ProbeAnswered, HandleInv, HandlesFreed, linkVars
<1>7. CASE ProbeFails \/ ProbeReturns
  <2>1. probe'.on = FALSE /\ probe.on = TRUE /\ probe' \in [on : BOOLEAN, todo : {probe'.todo}]
    <3>1. probe.on /\ probe.on \in BOOLEAN /\ probe' = NoProbe
      BY <1>7 DEF ProbeFails, ProbeReturns, ProbeFreed, HandleInv
    <3>2. NoProbe.on = FALSE /\ NoProbe \in [on : BOOLEAN, todo : {NoProbe.todo}]
      BY DEF NoProbe
    <3> QED
      BY <3>1, <3>2
  <2>2. PICK h, p \in {0, 1} : h = Count(handle) /\ p = Count(probe.on) /\ live = abandoned + h + p
    BY Balance
  <2>3. p = 1
    BY <2>1, <2>2, Counts
  <2>4. UNCHANGED <<handle, abandoned, op>> /\ live' = abandoned + h + 0 /\ live' \in Nat
    BY <1>7, <2>2, <2>3 DEF ProbeFails, ProbeReturns, ProbeFreed, HandleInv
  <2>5. HandlesFreed'
    BY <2>1, <2>2, <2>4, Counts, Zenon DEF HandlesFreed
  <2> QED
    BY <2>1, <2>4, <2>5 DEF HandleInv
<1>8. CASE CallAnswered \/ CallRefused \/ CallFails
  <2>1. op # Idle
    BY <1>0, <1>8, CallFrame
  <2> QED
    BY <1>8, <2>1, CallFrame DEF HandleInv, HandlesFreed
<1>9. CASE Returns
  BY <1>9 DEF Returns, HandleInv, HandlesFreed, linkVars
<1>10. CASE QuitReturns
  <2>1. op # Idle
    BY <1>0, <1>10 DEF QuitReturns
  <2> QED
    BY <1>10, <2>1, FreedOnce DEF QuitReturns, HandleInv
<1>11. CASE Interrupt \/ Push \/ UNCHANGED linkAllVars
  BY <1>11 DEF Interrupt, Push, linkAllVars, connectionVars, linkVars, HandleInv, HandlesFreed
<1>12. CASE Modes \/ LoadContent \/ Listen
  BY <1>12 DEF Modes, LoadContent, Listen, AskMode, IsConnected, HandleInv, HandlesFreed, linkVars
<1>13. CASE ModeStep
  <2>1. op # Idle
    BY <1>0, <1>13, ModeFrame DEF ModePhases
  <2> QED
    BY <1>13, <2>1, ModeFrame DEF HandleInv, HandlesFreed
<1> QED
  BY <1>1, <1>2, <1>3, <1>4, <1>5, <1>6, <1>7, <1>8, <1>9, <1>10, <1>11, <1>12, <1>13
  DEF LinkNext, LinkAsk, LinkStep, LinkProbe, Ask, Step, ProbeStep, Methods

\* Every native handle is the connection's or the running test's, or is one of those
\* left behind by a failed open or a reconnect of memcached: whatever calls, links and
\* probes fail in between, no handle is freed twice and no other is lost.
THEOREM HandlesAlwaysFreed == LinkSpec => []HandlesFreed
<1>1. HandleInv => HandlesFreed
  BY DEF HandleInv
<1> QED
  BY <1>1, InitHandles, HandleStep, PTL DEF LinkSpec

-----------------------------------------------------------------------------
(* The tables of methods. *)

\* The eight stores.
LEMMA TheStores == Stores = {"redis", "memcached", "ssdb", "rocksdb", "leveldb", "lmdb", "unqlite",
                             "upscaledb"}
  BY DEF Stores, Remote

\* The tables of all stores but redis and memcached are the same.
LEMMA PlainImpl ==
  ASSUME NEW s \in Stores \ {"redis", "memcached"}
  PROVE  Impl[s] = ByCopy
  BY TheStores
  DEF Impl, SsdbImpl, LeveldbImpl, RocksdbImpl, LmdbImpl, UnqliteImpl, UpscaledbImpl

\* The calls that make up each method of each store.
LEMMA ImplFacts ==
  ASSUME NEW s \in Stores
  PROVE  /\ Impl[s]["Set"] = <<"put">> /\ Impl[s]["Get"] = <<"get">>
         /\ Impl[s]["Rename"] \in {<<"get", "del", "put">>, <<"rename">>}
         /\ Impl[s]["Delete"] = <<"del">>
         /\ Impl[s]["Select"] \in {<<"pass">>, <<"pass", "pass">>}
         /\ "SetTTL" \in DOMAIN Impl[s] => Impl[s]["SetTTL"] \in {<<"get", "put">>, <<"expire">>}
         /\ "Quit" \in DOMAIN Impl[s] => Impl[s]["Quit"] = <<"pass">>
<1>1. CASE s \in Stores \ {"redis", "memcached"}
  <2>1. DOMAIN ByCopy = {"Set", "Get", "Delete", "Rename", "Select"}
    BY DEF ByCopy
  <2>2. /\ ByCopy["Set"] = <<"put">> /\ ByCopy["Get"] = <<"get">> /\ ByCopy["Delete"] = <<"del">>
        /\ ByCopy["Rename"] = <<"get", "del", "put">> /\ ByCopy["Select"] = <<"pass">>
    BY DEF ByCopy, RenameByCopy
  <2> QED
    BY <1>1, <2>1, <2>2, PlainImpl
<1>2. CASE s = "memcached"
  <2> DEFINE t == [SetTTL |-> <<"get", "put">>]
  <2>1. Impl[s] = Joined(ByCopy, t)
    BY <1>2 DEF Impl, MemcachedImpl
  <2>2. /\ DOMAIN ByCopy = {"Set", "Get", "Delete", "Rename", "Select"}
        /\ DOMAIN t = {"SetTTL"} /\ t["SetTTL"] = <<"get", "put">>
    BY DEF ByCopy
  <2>3. /\ ByCopy["Set"] = <<"put">> /\ ByCopy["Get"] = <<"get">> /\ ByCopy["Delete"] = <<"del">>
        /\ ByCopy["Rename"] = <<"get", "del", "put">> /\ ByCopy["Select"] = <<"pass">>
    BY DEF ByCopy, RenameByCopy
  <2> HIDE DEF t
  <2>4. /\ DOMAIN Impl[s] = DOMAIN ByCopy \cup DOMAIN t
        /\ \A m \in DOMAIN ByCopy : Impl[s][m] = ByCopy[m]
        /\ \A m \in DOMAIN t \ DOMAIN ByCopy : Impl[s][m] = t[m]
    BY <2>1 DEF Joined
  <2> QED
    BY <2>2, <2>3, <2>4
<1>3. CASE s = "redis"
  <2> DEFINE t == [Delete |-> <<"del">>, Select |-> <<"pass", "pass">>, Quit |-> <<"pass">>]
  <2>1. Impl[s] = Joined(RedisKeyImpl, t)
    BY <1>3 DEF Impl, RedisImpl
  <2>2. /\ DOMAIN RedisKeyImpl = {"Set", "Get", "Rename", "SetTTL"}
        /\ DOMAIN t = {"Delete", "Select", "Quit"}
        /\ t["Delete"] = <<"del">> /\ t["Select"] = <<"pass", "pass">> /\ t["Quit"] = <<"pass">>
    BY DEF RedisKeyImpl
  <2>3. /\ RedisKeyImpl["Set"] = <<"put">> /\ RedisKeyImpl["Get"] = <<"get">>
        /\ RedisKeyImpl["Rename"] = <<"rename">> /\ RedisKeyImpl["SetTTL"] = <<"expire">>
    BY DEF RedisKeyImpl
  <2> HIDE DEF t
  <2>4. /\ DOMAIN Impl[s] = DOMAIN RedisKeyImpl \cup DOMAIN t
        /\ \A m \in DOMAIN RedisKeyImpl : Impl[s][m] = RedisKeyImpl[m]
        /\ \A m \in DOMAIN t \ DOMAIN RedisKeyImpl : Impl[s][m] = t[m]
    BY <2>1 DEF Joined
  <2> QED
    BY <2>2, <2>3, <2>4
<1> QED
  BY <1>1, <1>2, <1>3

\* Redis loads a value of any type with one call.
LEMMA LoadFacts == \A m \in DOMAIN RedisLoads : RedisLoads[m] = <<"get">>
<1>1. /\ \A m \in DOMAIN RedisLists : RedisLists[m] = <<"get">>
      /\ \A m \in DOMAIN RedisPairs : RedisPairs[m] = <<"get">>
  BY DEF RedisLists, RedisPairs
<1> QED
  <2>1. /\ DOMAIN RedisLoads = DOMAIN RedisLists \cup DOMAIN RedisPairs
        /\ \A m \in DOMAIN RedisLists : RedisLoads[m] = RedisLists[m]
        /\ \A m \in DOMAIN RedisPairs \ DOMAIN RedisLists : RedisLoads[m] = RedisPairs[m]
    BY DEF RedisLoads, Joined
  <2> QED
    BY <1>1, <2>1

\* Clearing empties the database, except in the stores that keep some keys.
Clears(s, todo) ==
  \/ todo \in {<<"sweep">>, <<"flush">>}
  \/ s \in KeepsSome /\ todo \in {<<"erase", "erase">>, <<"pass">>}

\* The calls behind each request of a driver.
LEMMA RequestFacts ==
  ASSUME NEW s \in Stores, NEW r \in DOMAIN Requests[s]
  PROVE  \/ /\ r \in {"serverInfo", "databaseInfo"}
            /\ Requests[s][r] \in {<<"pass">>, <<"pass", "pass">>}
         \/ r = "loadContent" /\ Requests[s][r] = <<"list", "pass">>
         \/ r = "clearDatabase" /\ Clears(s, Requests[s][r])
<1>1. /\ DOMAIN LocalRequests = {"serverInfo", "databaseInfo", "loadContent"}
      /\ LocalRequests["serverInfo"] = <<"pass">> /\ LocalRequests["databaseInfo"] = <<"pass">>
      /\ LocalRequests["loadContent"] = <<"list", "pass">>
  BY DEF LocalRequests
<1>2. ASSUME NEW todo, Clears(s, todo), Requests[s] = Joined(LocalRequests, [clearDatabase |-> todo])
      PROVE  \/ /\ r \in {"serverInfo", "databaseInfo"}
                /\ Requests[s][r] \in {<<"pass">>, <<"pass", "pass">>}
             \/ r = "loadContent" /\ Requests[s][r] = <<"list", "pass">>
             \/ r = "clearDatabase" /\ Clears(s, Requests[s][r])
  <2> DEFINE t == [clearDatabase |-> todo]
  <2>1. DOMAIN t = {"clearDatabase"} /\ t["clearDatabase"] = todo /\ Requests[s] = Joined(LocalRequests, t)
    BY <1>2
  <2> HIDE DEF t
  <2>2. /\ DOMAIN Requests[s] = DOMAIN LocalRequests \cup DOMAIN t
        /\ \A m \in DOMAIN LocalRequests : Requests[s][m] = LocalRequests[m]
        /\ \A m \in DOMAIN t \ DOMAIN LocalRequests : Requests[s][m] = t[m]
    BY <2>1 DEF Joined
  <2> QED
    BY <1>1, <1>2, <2>1, <2>2
<1>3. CASE s = "redis"
  <2>1. Requests[s] = RedisDriver
    BY <1>3 DEF Requests
  <2>2. /\ DOMAIN RedisDriver = {"serverInfo", "databaseInfo", "clearDatabase"}
        /\ RedisDriver["serverInfo"] = <<"pass">> /\ RedisDriver["databaseInfo"] = <<"pass", "pass">>
        /\ RedisDriver["clearDatabase"] = <<"flush">>
    BY DEF RedisDriver
  <2> QED
    BY <2>1, <2>2 DEF Clears
<1>4. CASE s = "memcached"
  BY <1>1, <1>4 DEF Requests, MemcachedDriver
<1>5. CASE s \in {"rocksdb", "leveldb", "lmdb", "unqlite", "upscaledb", "ssdb"}
  <2>1. /\ RocksdbFlush.Flushdb = <<"sweep">> /\ LeveldbFlush.Flushdb = <<"sweep">>
        /\ LmdbFlush.Flushdb = <<"flush">> /\ SsdbFlush.Flushdb = <<"pass">>
        /\ UnqliteFlush.Flushdb = <<"erase", "erase">> /\ UpscaledbFlush.Flushdb = <<"erase", "erase">>
    BY DEF RocksdbFlush, LeveldbFlush, LmdbFlush, SsdbFlush, UnqliteFlush, UpscaledbFlush
  <2>2. PICK todo : Clears(s, todo) /\ Requests[s] = Joined(LocalRequests, [clearDatabase |-> todo])
    BY <1>5, <2>1
    DEF Requests, RocksdbDriver, LeveldbDriver, LmdbDriver, UnqliteDriver, UpscaledbDriver, SsdbDriver,
        Clears, KeepsSome
  <2> QED
    BY <1>2, <2>2
<1> QED
  BY <1>3, <1>4, <1>5, TheStores

-----------------------------------------------------------------------------
(* The shape of the running method. *)

\* No method running has the fields of a method.
LEMMA IdleTyped == Idle \in [name : {"idle"}, phase : {"idle"}, todo : {<<>>}, keys : {<<>>},
                             target : Keys \cup {None}, value : Values \cup {None},
                             named : SUBSET Keys, touched : SUBSET Keys, owed : Nat, scans : 0..MaxScans]
                   /\ Idle.named = {} /\ Idle.touched = {} /\ Idle.owed = 0
  BY LinkAssumption DEF Idle

\* A method that has just begun has done nothing.
Begins ==
  /\ op'.phase = "calls" /\ op'.touched = {} /\ op'.named = {}
  /\ op'.name \in {"Set", "Get", "Rename", "clearDatabase"} => op'.todo # <<>>
  /\ op'.name \in {"Rename", "SetTTL"} => op'.todo \notin {<<"put">>, <<"del", "put">>}

\* What a method starts with.
LEMMA StartFields ==
  ASSUME NEW name, NEW todo, NEW keys, NEW target \in Keys \cup {None},
         NEW value \in Values \cup {None}, Start(name, todo, keys, target, value)
  PROVE  /\ op'.name = name /\ op'.phase = "calls" /\ op'.todo = todo /\ op'.keys = keys
         /\ op'.target = target /\ op'.touched = {} /\ op'.named = {}
         /\ OpTyped' /\ store' = store
<1>1. op' = [Idle EXCEPT !.name = name, !.phase = "calls", !.todo = todo, !.keys = keys,
                        !.target = target, !.value = value] /\ store' = store
  BY DEF Start
<1>2. op' = [name |-> name, phase |-> "calls", todo |-> todo, keys |-> keys, target |-> target,
             value |-> value, named |-> {}, touched |-> {}, owed |-> 0, scans |-> 0]
  BY <1>1 DEF Idle
<1>3. /\ op'.name = name /\ op'.phase = "calls" /\ op'.todo = todo /\ op'.keys = keys
      /\ op'.target = target /\ op'.touched = {} /\ op'.named = {}
  BY <1>2
<1>4. op' \in [name : {name}, phase : {"calls"}, todo : {todo}, keys : {keys},
               target : Keys \cup {None}, value : Values \cup {None},
               named : SUBSET Keys, touched : SUBSET Keys, owed : Nat, scans : 0..MaxScans]
  BY <1>2, LinkAssumption
<1> QED
  BY <1>1, <1>3, <1>4, Zenon DEF OpTyped

\* Every method starts with the calls its shape allows.
LEMMA StartShapes ==
  ASSUME store \in Backends, Methods
  PROVE  ShapeInv' /\ Begins
<1>0. store \in Stores
  BY StoreAssumption
<1>1. CASE Set
  <2>1. PICK k \in Keys, v \in Values : Start("Set", Calls("Set"), <<k>>, k, v)
    BY <1>1 DEF Set
  <2> QED
    <3>1. Calls("Set") = <<"put">> /\ k \in Keys \cup {None} /\ v \in Values \cup {None}
      BY <1>0, ImplFacts DEF Calls
    <3>2. /\ op'.name = "Set" /\ op'.phase = "calls" /\ op'.todo = Calls("Set") /\ op'.keys = <<k>>
          /\ op'.target = k /\ op'.touched = {} /\ op'.named = {} /\ OpTyped'
      BY <2>1, <3>1, StartFields, Zenon
    <3> QED
      BY <3>1, <3>2 DEF ShapeInv, MethodShape, Begins
<1>2. CASE Get \/ Load
  <2>1. PICK k \in Keys : Start("Get", <<"get">>, <<k>>, k, None)
    BY <1>0, <1>2, ImplFacts, LoadFacts DEF Get, Load, Calls
  <2>2. k \in Keys \cup {None} /\ None \in Values \cup {None}
    OBVIOUS
  <2>3. /\ op'.name = "Get" /\ op'.phase = "calls" /\ op'.todo = <<"get">> /\ op'.keys = <<k>>
        /\ op'.target = k /\ op'.touched = {} /\ op'.named = {} /\ OpTyped'
    BY <2>1, <2>2, StartFields, Zenon
  <2> QED
    BY <2>3 DEF ShapeInv, MethodShape, Begins
<1>3. CASE Rename
  <2>1. PICK k \in Keys, new \in Keys : Start("Rename", Calls("Rename"), <<k>>, new, None)
    BY <1>3 DEF Rename
  <2>2. Calls("Rename") \in {<<"get", "del", "put">>, <<"rename">>}
    BY <1>0, ImplFacts DEF Calls
  <2>3. new \in Keys \cup {None} /\ None \in Values \cup {None}
    OBVIOUS
  <2>4. /\ op'.name = "Rename" /\ op'.phase = "calls" /\ op'.todo = Calls("Rename")
        /\ op'.keys = <<k>> /\ op'.target = new /\ op'.touched = {} /\ op'.named = {} /\ OpTyped'
    BY <2>1, <2>3, StartFields, Zenon
  <2> QED
    BY <2>2, <2>4 DEF ShapeInv, MethodShape, Begins
<1>4. CASE SetTTL
  <2>1. PICK k \in Keys : Has("SetTTL") /\ Start("SetTTL", Calls("SetTTL"), <<k>>, k, None)
    BY <1>4 DEF SetTTL
  <2>2. Calls("SetTTL") \in {<<"get", "put">>, <<"expire">>}
    BY <1>0, <2>1, ImplFacts DEF Calls, Has
  <2>3. k \in Keys \cup {None} /\ None \in Values \cup {None}
    OBVIOUS
  <2>4. /\ op'.name = "SetTTL" /\ op'.phase = "calls" /\ op'.todo = Calls("SetTTL")
        /\ op'.keys = <<k>> /\ op'.target = k /\ op'.touched = {} /\ op'.named = {} /\ OpTyped'
    BY <2>1, <2>3, StartFields, Zenon
  <2> QED
    BY <2>2, <2>4 DEF ShapeInv, MethodShape, Begins
<1>5. CASE Delete
  <2>1. PICK keys \in UNION {[1..n -> Keys] : n \in 1..2} :
          Start("Delete", [i \in DOMAIN keys |-> Head(Calls("Delete"))], keys, None, None)
    BY <1>5 DEF Delete
  <2>2. Head(Calls("Delete")) = "del"
    BY <1>0, ImplFacts DEF Calls
  <2> DEFINE todo == [i \in DOMAIN keys |-> Head(Calls("Delete"))]
  <2>3. todo \in Seq({"del"}) /\ keys \in Seq(Keys) /\ Len(keys) = Len(todo)
    <3>1. PICK n \in 1..2 : keys \in [1..n -> Keys]
      OBVIOUS
    <3> QED
      BY <2>2, <3>1
  <2>4. Start("Delete", todo, keys, None, None)
    BY <2>1
  <2> HIDE DEF todo
  <2> QED
    BY <2>3, <2>4, StartFields DEF ShapeInv, MethodShape, Begins
<1>6. CASE Select \/ Quit
  <2>1. PICK name \in {"Select", "Quit"} : Start(name, Calls(name), <<>>, None, None) /\ (name = "Quit" => Has("Quit"))
    BY <1>6 DEF Select, Quit
  <2>2. Calls(name) \in {<<"pass">>, <<"pass", "pass">>}
    BY <1>0, <2>1, ImplFacts DEF Calls, Has
  <2> QED
    BY <2>1, <2>2, StartFields DEF ShapeInv, MethodShape, Begins, Quiet
<1>7. CASE Forward
  <2>1. PICK c \in DOMAIN Commands[store] :
          IF Commands[store][c] \in {<<>>, <<"pass">>}
            THEN Start("forward", Commands[store][c], <<>>, None, None)
            ELSE \E k \in Keys, v \in Values : Start("forward", Commands[store][c], <<k>>, k, v)
    BY <1>7 DEF Forward
  <2>2. CASE Commands[store][c] \in {<<>>, <<"pass">>}
    BY <2>1, <2>2, StartFields DEF ShapeInv, MethodShape, Begins
  <2>3. CASE Commands[store][c] \notin {<<>>, <<"pass">>}
    <3>1. PICK k \in Keys, v \in Values : Start("forward", Commands[store][c], <<k>>, k, v)
      BY <2>1, <2>3
    <3> QED
      BY <3>1, StartFields DEF ShapeInv, MethodShape, Begins
  <2> QED
    BY <2>2, <2>3
<1>8. CASE Request
  <2>1. PICK r \in DOMAIN Requests[store] : Start(r, Requests[store][r], <<>>, None, None)
    BY <1>8 DEF Request
  <2> DEFINE todo == Requests[store][r]
  <2>2. \/ r \in {"serverInfo", "databaseInfo"} /\ todo \in {<<"pass">>, <<"pass", "pass">>}
        \/ r = "loadContent" /\ todo = <<"list", "pass">>
        \/ r = "clearDatabase" /\ Clears(store, todo)
    BY <1>0, RequestFacts
  <2>3. Start(r, todo, <<>>, None, None)
    BY <2>1
  <2> HIDE DEF todo
  <2>4. /\ op'.name = r /\ op'.phase = "calls" /\ op'.todo = todo
        /\ op'.touched = {} /\ op'.named = {} /\ OpTyped' /\ store' = store
    BY <2>3, StartFields
  <2> QED
    BY <2>2, <2>4 DEF ShapeInv, MethodShape, Begins, Quiet, Clears
<1> QED
  BY <1>1, <1>2, <1>3, <1>4, <1>5, <1>6, <1>7, <1>8 DEF Methods

\* The rest of a list of calls.
LEMMA Tails ==
  /\ \A a : Tail(<<a>>) = <<>> /\ Head(<<a>>) = a
  /\ \A a, b : Tail(<<a, b>>) = <<b>> /\ Head(<<a, b>>) = a
  /\ \A a, b, c : Tail(<<a, b, c>>) = <<b, c>> /\ Head(<<a, b, c>>) = a
  OBVIOUS

\* A method that is past its next call is still in shape.
LEMMA ShapeGoesOn ==
  ASSUME MethodShape, op.todo # <<>>, store' = store, op'.name = op.name, op'.target = op.target,
         op'.todo = Tail(op.todo), op'.keys = IF op.name = "Delete" THEN Tail(op.keys) ELSE op.keys
  PROVE  MethodShape'
<1>1. CASE op.name = "Delete"
  <2>1. /\ op.todo \in Seq({"del"}) /\ op.keys \in Seq(Keys) /\ Len(op.keys) = Len(op.todo)
    BY <1>1 DEF MethodShape, Quiet
  <2>2. Tail(op.todo) \in Seq({"del"}) /\ Tail(op.keys) \in Seq(Keys) /\ Len(Tail(op.keys)) = Len(Tail(op.todo))
    BY <2>1
  <2>3. op'.name = "Delete" /\ op'.todo = Tail(op.todo) /\ op'.keys = Tail(op.keys)
    BY <1>1
  <2>4. /\ op'.name = "Delete" /\ op'.todo \in Seq({"del"})
        /\ op'.keys \in Seq(Keys) /\ Len(op'.keys) = Len(op'.todo)
    BY <2>2, <2>3, Zenon
  <2> QED
    BY <2>4 DEF MethodShape
<1>2. CASE op.name # "Delete"
  <2>1. op'.keys = op.keys
    BY <1>2
  <2>2. CASE op.name \in {"Set", "Get"}
    <3>1. op.target \in Keys /\ op.keys = <<op.target>> /\ op.todo \in {<<"put">>, <<"get">>}
      BY <2>2 DEF MethodShape, Quiet
    <3>2. op'.todo = <<>>
      BY <3>1, Tails
    <3> QED
      BY <2>1, <2>2, <3>1, <3>2 DEF MethodShape
  <2>3. CASE op.name = "SetTTL"
    <3>1. /\ op.target \in Keys /\ op.keys = <<op.target>>
          /\ op.todo \in {<<"get", "put">>, <<"put">>, <<"expire">>}
      BY <2>3 DEF MethodShape, Quiet
    <3>2. op'.todo \in {<<"put">>, <<>>}
      BY <3>1, Tails
    <3> QED
      BY <2>1, <2>3, <3>1, <3>2 DEF MethodShape
  <2>4. CASE op.name = "Rename"
    <3>1. /\ op.target \in Keys /\ \E k \in Keys : op.keys = <<k>>
          /\ op.todo \in {<<"get", "del", "put">>, <<"del", "put">>, <<"put">>, <<"rename">>}
      BY <2>4 DEF MethodShape, Quiet
    <3>2. op'.todo \in {<<"del", "put">>, <<"put">>, <<>>}
      <4>1. Tail(<<"get", "del", "put">>) = <<"del", "put">>
        OBVIOUS
      <4> QED
        BY <3>1, <4>1, Tails, Zenon
    <3>3. /\ op'.name = "Rename" /\ op'.target \in Keys /\ \E k \in Keys : op'.keys = <<k>>
          /\ op'.todo \in {<<"get", "del", "put">>, <<"del", "put">>, <<"put">>, <<"rename">>, <<>>}
      <4>1. op'.name = "Rename" /\ op'.target \in Keys /\ \E k \in Keys : op'.keys = <<k>>
        BY <2>1, <2>4, <3>1, Zenon
      <4> QED
        BY <3>2, <4>1, Zenon
    <3> QED
      BY <3>3, Zenon DEF MethodShape
  <2>5. CASE op.name = "forward"
    <3>1. (op.target \in Keys /\ op.keys = <<op.target>>) \/ op.todo = <<"pass">>
      BY <2>5 DEF MethodShape, Quiet
    <3>2. (op.target \in Keys /\ op.keys = <<op.target>>) \/ op'.todo = <<>>
      BY <3>1, Tails
    <3> QED
      BY <2>1, <2>5, <3>2 DEF MethodShape
  <2>6. CASE op.name \in Quiet
    <3>1. op.todo \in {<<"pass">>, <<"pass", "pass">>, <<"auth", "pass", "pass">>}
      BY <2>6 DEF MethodShape, Quiet
    <3>2. op'.todo \in {<<>>, <<"pass">>, <<"pass", "pass">>}
      <4>1. Tail(<<"auth", "pass", "pass">>) = <<"pass", "pass">>
        OBVIOUS
      <4> QED
        BY <3>1, <4>1, Tails, Zenon
    <3>3. /\ op'.name \in Quiet
          /\ op'.todo \in {<<>>, <<"pass">>, <<"pass", "pass">>, <<"auth", "pass", "pass">>}
      BY <2>6, <3>2, Zenon
    <3> QED
      BY <3>3, Zenon DEF MethodShape
  <2>7. CASE op.name = "loadContent"
    <3>1. op.todo \in {<<"list", "pass">>, <<"pass">>}
      BY <2>7 DEF MethodShape, Quiet
    <3>2. op'.todo \in {<<"pass">>, <<>>}
      BY <3>1, Tails
    <3> QED
      BY <2>7, <3>2 DEF MethodShape
  <2>8. CASE op.name = "clearDatabase"
    <3>1. \/ op.todo \in {<<"sweep">>, <<"flush">>}
          \/ store \in KeepsSome /\ op.todo \in {<<"erase", "erase">>, <<"erase">>, <<"pass">>}
      BY <2>8 DEF MethodShape, Quiet
    <3>2. op'.todo = <<>> \/ (store' \in KeepsSome /\ op'.todo = <<"erase">>)
      BY <3>1, Tails
    <3> QED
      BY <2>8, <3>2 DEF MethodShape
  <2> QED
    BY <1>2, <2>2, <2>3, <2>4, <2>5, <2>6, <2>7, <2>8 DEF MethodShape
<1> QED
  BY <1>1, <1>2

\* The calls that are about a key have one.
LEMMA CallAbout ==
  ASSUME MethodShape, op.todo # <<>>
  PROVE  /\ Call \notin {"pass", "auth", "list", "sweep", "flush", "erase"} => Key \in Keys
         /\ Call \in {"put", "add", "change", "rename"} => op.target \in Keys
         /\ op.name = "Delete" => Call = "del" /\ Key \in Keys
<1>1. CASE op.name = "Delete"
  <2>1. /\ op.todo \in Seq({"del"}) /\ op.keys \in Seq(Keys) /\ Len(op.keys) = Len(op.todo)
    BY <1>1 DEF MethodShape, Quiet
  <2>2. Head(op.todo) = "del" /\ Head(op.keys) \in Keys
    BY <2>1
  <2> QED
    BY <2>2 DEF Call, Key
<1>2. CASE op.name # "Delete"
  <2>1. CASE op.name = "forward"
    BY <2>1, Tails DEF MethodShape, Quiet, Call, Key
  <2>2. CASE op.name # "forward"
    BY <1>2, <2>2, Tails DEF MethodShape, Quiet, Call, Key
  <2> QED
    BY <2>1, <2>2
<1> QED
  BY <1>1, <1>2

\* What a call can leave in the store.
StoredTyped == stored \in [Keys -> Values \cup {None}]

\* Removing keys removes those keys.
LEMMA EmptiedTyped ==
  ASSUME StoredTyped, NEW gone
  PROVE  /\ Emptied(gone) \in [Keys -> Values \cup {None}]
         /\ \A k \in Keys : Emptied(gone)[k] = IF k \in gone THEN None ELSE stored[k]
  BY DEF StoredTyped, Emptied

\* Whatever a call does, the store holds values under keys.
LEMMA ResultsTyped ==
  ASSUME StoredTyped, OpTyped, MethodShape, op.todo # <<>>
  PROVE  \A s \in Results \cup Remains : s \in [Keys -> Values \cup {None}]
<1>0. op.value \in Values \cup {None}
  BY DEF OpTyped
<1>1. ASSUME NEW s \in Remains PROVE s \in [Keys -> Values \cup {None}]
  BY <1>1, EmptiedTyped DEF Remains, StoredTyped
<1>2. ASSUME NEW s \in Results PROVE s \in [Keys -> Values \cup {None}]
  <2>1. CASE Call \in {"put", "add", "change"}
    <3>1. op.target \in Keys
      BY <2>1, CallAbout
    <3>2. s = [stored EXCEPT ![op.target] = op.value]
      BY <1>2, <2>1 DEF Results
    <3> QED
      BY <1>0, <3>1, <3>2 DEF StoredTyped
  <2>2. CASE Call = "del"
    BY <1>2, <2>2, EmptiedTyped DEF Results
  <2>3. CASE Call = "rename"
    <3>1. Key \in Keys /\ op.target \in Keys
      BY <2>3, CallAbout
    <3>2. s = [Emptied({Key}) EXCEPT ![op.target] = stored[Key]]
      BY <1>2, <2>3 DEF Results
    <3> QED
      BY <3>1, <3>2, EmptiedTyped DEF StoredTyped
  <2>4. CASE Call = "any"
    BY <1>2, <2>4, CallAbout DEF Results, StoredTyped
  <2>5. CASE Call = "erase"
    <3>1. Results = {stored} \cup {Emptied({k}) : k \in Keys}
      BY <2>5 DEF Results
    <3>2. s = stored \/ \E k \in Keys : s = Emptied({k})
      BY <1>2, <3>1
    <3>3. \A k \in Keys : Emptied({k}) \in [Keys -> Values \cup {None}]
      BY EmptiedTyped
    <3> QED
      BY <3>2, <3>3 DEF StoredTyped
  <2>6. CASE Call \in {"flush", "sweep"}
    BY <1>2, <2>6, EmptiedTyped DEF Results
  <2>7. CASE Call \notin {"put", "add", "change", "del", "rename", "any", "erase", "flush", "sweep"}
    BY <1>2, <2>7 DEF Results, StoredTyped
  <2> QED
    BY <2>1, <2>2, <2>3, <2>4, <2>5, <2>6, <2>7
<1> QED
  BY <1>1, <1>2

\* The keys an answer names.
LEMMA NamingTyped ==
  ASSUME OpTyped, MethodShape, op.todo # <<>>, NEW named \in Naming
  PROVE  named \subseteq Keys
<1>1. op.named \subseteq Keys
  BY DEF OpTyped
<1>2. CASE Call = "list"
  BY <1>2 DEF Naming, Present
<1>3. CASE Call = "del"
  BY <1>1, <1>3, CallAbout DEF Naming
<1>4. CASE Call \notin {"list", "del"}
  BY <1>1, <1>4 DEF Naming
<1> QED
  BY <1>2, <1>3, <1>4

\* What the running method is after an answer.
LEMMA AnswerFields ==
  ASSUME StoredTyped, ShapeInv, CallAnswered
  PROVE  /\ op'.name = op.name /\ op'.phase = "calls" /\ op'.target = op.target
         /\ op'.todo = Tail(op.todo)
         /\ op'.keys = IF op.name = "Delete" THEN Tail(op.keys) ELSE op.keys
         /\ op'.value = IF Call = "get" THEN stored[Key] ELSE op.value
         /\ op'.named \in Naming /\ op'.touched = op.touched \cup Changed
         /\ op'.owed = op.owed /\ OpTyped'
<1>1. PICK named \in Naming :
        op' = [Passed EXCEPT !.value = IF Call = "get" THEN stored[Key] ELSE @,
                             !.named = named, !.touched = @ \cup Changed]
  BY DEF CallAnswered
<1>2. op.phase = "calls" /\ op.todo # <<>> /\ OpTyped /\ MethodShape
  BY DEF CallAnswered, Calling, ShapeInv
<1> DEFINE value == IF Call = "get" THEN stored[Key] ELSE op.value
           keys == IF op.name = "Delete" THEN Tail(op.keys) ELSE op.keys
<1>3. value \in Values \cup {None}
  BY <1>2, CallAbout DEF OpTyped, StoredTyped
<1>4. named \subseteq Keys /\ Changed \subseteq Keys
  BY <1>2, NamingTyped DEF Changed
<1>5. op' = [name |-> op.name, phase |-> op.phase, todo |-> Tail(op.todo), keys |-> keys,
             target |-> op.target, value |-> value, named |-> named, touched |-> op.touched \cup Changed,
             owed |-> op.owed, scans |-> op.scans]
  BY <1>1, <1>2 DEF Passed, OpTyped
<1> HIDE DEF value, keys
<1>6. /\ op'.name = op.name /\ op'.phase = "calls" /\ op'.target = op.target
      /\ op'.todo = Tail(op.todo) /\ op'.keys = keys /\ op'.value = value
      /\ op'.named = named /\ op'.touched = op.touched \cup Changed
      /\ op'.owed = op.owed /\ op'.scans = op.scans
  BY <1>2, <1>5
<1>7. op' \in [name : {op'.name}, phase : {op'.phase}, todo : {op'.todo}, keys : {op'.keys},
               target : Keys \cup {None}, value : Values \cup {None},
               named : SUBSET Keys, touched : SUBSET Keys, owed : Nat, scans : 0..MaxScans]
  <2>1. /\ op.target \in Keys \cup {None} /\ op.touched \subseteq Keys /\ op.owed \in Nat
        /\ op.scans \in 0..MaxScans
    BY <1>2 DEF OpTyped
  <2> QED
    BY <1>3, <1>4, <1>5, <1>6, <2>1
<1> QED
  BY <1>6, <1>7 DEF value, keys, OpTyped

\* What it is past an error that it ignores.
LEMMA PassedFields ==
  ASSUME ShapeInv, Calling, op' = Passed
  PROVE  /\ op'.name = op.name /\ op'.phase = "calls" /\ op'.target = op.target
         /\ op'.todo = Tail(op.todo)
         /\ op'.keys = IF op.name = "Delete" THEN Tail(op.keys) ELSE op.keys
         /\ op'.value = op.value /\ op'.named = op.named /\ op'.touched = op.touched
         /\ op'.owed = op.owed /\ OpTyped'
<1>2. op.phase = "calls" /\ op.todo # <<>> /\ OpTyped
  BY DEF Calling, ShapeInv
<1> DEFINE keys == IF op.name = "Delete" THEN Tail(op.keys) ELSE op.keys
<1>5. op' = [name |-> op.name, phase |-> op.phase, todo |-> Tail(op.todo), keys |-> keys,
             target |-> op.target, value |-> op.value, named |-> op.named, touched |-> op.touched,
             owed |-> op.owed, scans |-> op.scans]
  BY <1>2 DEF Passed, OpTyped
<1> HIDE DEF keys
<1>6. /\ op'.name = op.name /\ op'.phase = "calls" /\ op'.target = op.target
      /\ op'.todo = Tail(op.todo) /\ op'.keys = keys /\ op'.value = op.value
      /\ op'.named = op.named /\ op'.touched = op.touched
      /\ op'.owed = op.owed /\ op'.scans = op.scans
  BY <1>2, <1>5
<1>7. op' \in [name : {op'.name}, phase : {op'.phase}, todo : {op'.todo}, keys : {op'.keys},
               target : Keys \cup {None}, value : Values \cup {None},
               named : SUBSET Keys, touched : SUBSET Keys, owed : Nat, scans : 0..MaxScans]
  <2>1. /\ op.target \in Keys \cup {None} /\ op.touched \subseteq Keys /\ op.owed \in Nat
        /\ op.scans \in 0..MaxScans /\ op.value \in Values \cup {None} /\ op.named \subseteq Keys
    BY <1>2 DEF OpTyped
  <2> QED
    BY <1>5, <1>6, <2>1
<1> QED
  BY <1>6, <1>7 DEF keys, OpTyped

-----------------------------------------------------------------------------
(* The shape of a mode. *)

FirstPhases == {"ping", "sync", "total", "info", "cursor", "list", "first"}

\* A mode that has not read anything, or no method.
Fresh ==
  /\ op'.phase \in FirstPhases \cup {"idle"} /\ (op'.phase = "idle" <=> op' = Idle)
  /\ op'.named = {} /\ op'.touched = {} /\ op'.owed = 0
  /\ OpTyped'

\* A mode that begins has read nothing.
LEMMA BegunFields ==
  ASSUME NEW name \in DOMAIN FirstPhase, op' = Begun(name)
  PROVE  Fresh
<1>1. FirstPhase[name] \in FirstPhases
  BY DEF FirstPhase, FirstPhases
<1>2. op' = [name |-> name, phase |-> FirstPhase[name], todo |-> <<>>, keys |-> <<>>, target |-> None,
             value |-> None, named |-> {}, touched |-> {}, owed |-> 0, scans |-> MaxScans]
  BY DEF Begun, Idle
<1>3. /\ op'.phase = FirstPhase[name] /\ op'.named = {} /\ op'.touched = {} /\ op'.owed = 0
      /\ op' \in [name : {op'.name}, phase : {op'.phase}, todo : {op'.todo}, keys : {op'.keys},
                  target : Keys \cup {None}, value : Values \cup {None},
                  named : SUBSET Keys, touched : SUBSET Keys, owed : Nat, scans : 0..MaxScans]
  BY <1>2, LinkAssumption
<1>4. op'.phase # "idle" /\ op' # Idle
  BY <1>1, <1>3 DEF FirstPhases, Idle
<1> QED
  BY <1>1, <1>3, <1>4 DEF Fresh, OpTyped

\* Nor has one that has ended.
LEMMA IdleFresh == op' = Idle => Fresh
<1> SUFFICES ASSUME op' = Idle PROVE Fresh
  OBVIOUS
<1>1. /\ op'.name = "idle" /\ op'.phase = "idle" /\ op'.todo = <<>> /\ op'.keys = <<>>
      /\ op'.named = {} /\ op'.touched = {} /\ op'.owed = 0
  BY DEF Idle
<1>2. OpTyped'
  BY <1>1, IdleTyped DEF OpTyped
<1> QED
  BY <1>1, <1>2 DEF Fresh

\* Nor has the next mode of the list, when one is left.
LEMMA LeftFresh ==
  ASSUME Left, ModeShape
  PROVE  Fresh /\ rest' \in Seq(DOMAIN FirstPhase)
<1>1. CASE rest = <<>>
  BY <1>1, IdleFresh DEF Left, ModeShape
<1>2. CASE rest # <<>>
  <2>1. Head(rest) \in DOMAIN FirstPhase /\ Tail(rest) \in Seq(DOMAIN FirstPhase)
    BY <1>2 DEF ModeShape
  <2>2. op' = Begun(Head(rest)) /\ rest' = Tail(rest)
    BY <1>2 DEF Left
  <2> QED
    BY <2>1, <2>2, BegunFields
<1> QED
  BY <1>1, <1>2

\* The step of a mode within itself.
Moves(phase, named, owed, scans) ==
  /\ op' = [op EXCEPT !.phase = phase, !.named = named, !.owed = owed, !.scans = scans]
  /\ rest' = rest

\* What a mode that moves on changes of itself.
LEMMA MovedFields ==
  ASSUME OpTyped, NEW phase, NEW named \in SUBSET Keys, NEW owed \in Nat, NEW scans \in 0..MaxScans,
         Moves(phase, named, owed, scans)
  PROVE  /\ op'.phase = phase /\ op'.named = named /\ op'.owed = owed /\ op'.name = op.name
         /\ op'.touched = op.touched /\ OpTyped' /\ rest' = rest
<1>1. op' = [name |-> op.name, phase |-> phase, todo |-> op.todo, keys |-> op.keys, target |-> op.target,
             value |-> op.value, named |-> named, touched |-> op.touched, owed |-> owed, scans |-> scans]
  BY DEF Moves, OpTyped
<1>2. op.target \in Keys \cup {None} /\ op.value \in Values \cup {None} /\ op.touched \subseteq Keys
  BY DEF OpTyped
<1>3. /\ op'.phase = phase /\ op'.named = named /\ op'.owed = owed /\ op'.name = op.name
      /\ op'.touched = op.touched
      /\ op' \in [name : {op'.name}, phase : {op'.phase}, todo : {op'.todo}, keys : {op'.keys},
                  target : Keys \cup {None}, value : Values \cup {None},
                  named : SUBSET Keys, touched : SUBSET Keys, owed : Nat, scans : 0..MaxScans]
  BY <1>1, <1>2
<1> QED
  BY <1>3 DEF OpTyped, Moves

\* What a mode owes when it moves on.
Owes(phase, owed) ==
  /\ phase \in ModePhases
  /\ phase \in {"replies", "types", "sizes"} => owed > 0
  /\ phase = "count" => owed = 0

\* The keys of an answer are finitely many, and at least one if there is one.
LEMMA KeysSized ==
  ASSUME NEW named \in SUBSET Present
  PROVE  named \in SUBSET Keys /\ Cardinality(named) \in Nat /\ (named # {} => Cardinality(named) > 0)
<1>1. named \subseteq Keys
  BY DEF Present
<1>2. IsFiniteSet(named)
  BY <1>1, StoreAssumption, FS_Subset
<1> QED
  BY <1>1, <1>2, FS_CardinalityType, FS_EmptySet

\* The commands sent for n keys are finitely many, and two for every key if none is left
\* out.
LEMMA SentSized ==
  ASSUME NEW n \in Nat, NEW unsplit
  PROVE  /\ Sent(n, unsplit) \subseteq Nat /\ Cardinality(Sent(n, unsplit)) \in Nat
         /\ Sent(n, unsplit) # {} => Cardinality(Sent(n, unsplit)) > 0
         /\ Sent(n, unsplit) = {} => Cardinality(Sent(n, unsplit)) = 0
         /\ unsplit = {} => Sent(n, unsplit) = 1 .. Cardinality(Sent(n, unsplit))
<1>1. \A x : x \in Sent(n, unsplit) <=>
              \E i \in 1 .. n : i \notin unsplit /\ (x = 2 * i - 1 \/ x = 2 * i)
  BY DEF Sent
<1>2. Sent(n, unsplit) \subseteq 1 .. 2 * n /\ 2 * n \in Nat
  BY <1>1
<1>3. IsFiniteSet(1 .. 2 * n) /\ Cardinality(1 .. 2 * n) = 2 * n
  <2>1. 1 \in Int /\ 2 * n \in Int /\ (1 > 2 * n => 2 * n = 0)
    OBVIOUS
  <2> QED
    BY <2>1, FS_Interval
<1>4. IsFiniteSet(Sent(n, unsplit))
  BY <1>2, <1>3, FS_Subset
<1>5. ASSUME unsplit = {} PROVE Sent(n, unsplit) = 1 .. 2 * n
  <2>1. ASSUME NEW x \in 1 .. 2 * n PROVE x \in Sent(n, unsplit)
    <3>1. PICK i \in Nat : x = 2 * i - 1 \/ x = 2 * i
      <4>1. (x + 1) \div 2 \in Nat /\ (x = 2 * ((x + 1) \div 2) - 1 \/ x = 2 * ((x + 1) \div 2))
        OBVIOUS
      <4> QED
        BY <4>1
    <3>2. i \in 1 .. n
      BY <3>1
    <3> QED
      BY <1>1, <1>5, <3>1, <3>2
  <2> QED
    BY <1>2, <2>1
<1> QED
  BY <1>2, <1>3, <1>4, <1>5, FS_CardinalityType, FS_EmptySet

\* A round of SCAN that is over ends the mode or begins another round.
LEMMA RoundMoves ==
  ASSUME OpTyped, NEW phase \in {"batch", "cursor"}, RoundOver(phase)
  PROVE  \/ Left
         \/ \E scans \in 0..MaxScans : Moves(phase, op.named, 0, scans)
<1>1. CASE Left
  BY <1>1
<1>2. CASE op.scans > 0 /\ op' = [op EXCEPT !.phase = phase, !.scans = @ - 1, !.owed = 0] /\ UNCHANGED rest
  <2>1. op.scans - 1 \in 0..MaxScans
    BY <1>2, LinkAssumption DEF OpTyped
  <2>2. Moves(phase, op.named, 0, op.scans - 1)
    BY <1>2 DEF Moves, OpTyped
  <2> QED
    BY <2>1, <2>2
<1> QED
  BY <1>1, <1>2 DEF RoundOver

\* It names keys only when it has listed them.
ModeMoved ==
  \E phase \in ModePhases, named \in SUBSET Keys, owed \in Nat, scans \in 0..MaxScans :
    /\ Moves(phase, named, owed, scans)
    /\ Owes(phase, owed)
    /\ named = op.named \/ named \subseteq Present

\* A mode leaves, or moves on.
LEMMA ModeMoves ==
  ASSUME OpTyped, ModeShape, ModeStep
  PROVE  Left \/ ModeMoved
<1>0. /\ op.named \in SUBSET Keys /\ op.owed \in Nat /\ op.scans \in 0..MaxScans
      /\ op.phase \in ModePhases /\ Owes(op.phase, op.owed)
  BY ModeFrame DEF OpTyped, ModeShape, Owes
<1>1. ASSUME NEW phase \in ModePhases, NEW owed \in Nat, Owes(phase, owed),
             op' = [op EXCEPT !.phase = phase, !.owed = owed], rest' = rest
      PROVE  Left \/ ModeMoved
  <2>1. Moves(phase, op.named, owed, op.scans)
    BY <1>1 DEF Moves, OpTyped
  <2> QED
    BY <1>0, <1>1, <2>1 DEF ModeMoved
<1>2. CASE op' = op /\ rest' = rest
  <2>1. Moves(op.phase, op.named, op.owed, op.scans)
    BY <1>2 DEF Moves, OpTyped
  <2> QED
    BY <1>0, <2>1 DEF ModeMoved
<1>3. ASSUME NEW phase \in {"batch", "cursor"}, RoundOver(phase)
      PROVE  Left \/ ModeMoved
  <2>1. Owes(phase, 0) /\ phase \in ModePhases
    BY <1>3 DEF Owes, ModePhases
  <2> QED
    BY <1>0, <1>3, <2>1, RoundMoves DEF ModeMoved
<1>4. ASSUME NEW phase \in ModePhases \ {"replies", "types", "sizes", "count"},
             op' = [op EXCEPT !.phase = phase], rest' = rest
      PROVE  Left \/ ModeMoved
  <2>1. op' = [op EXCEPT !.phase = phase, !.owed = op.owed] /\ Owes(phase, op.owed)
    BY <1>4 DEF OpTyped, Owes
  <2> QED
    BY <1>0, <1>1, <1>4, <2>1
<1>a. ASSUME op.owed > 1, op' = [op EXCEPT !.owed = @ - 1], rest' = rest
      PROVE  ModeMoved
  <2>1. Moves(op.phase, op.named, op.owed - 1, op.scans)
    BY <1>a DEF Moves, OpTyped
  <2>2. op.owed - 1 \in Nat /\ op.owed - 1 > 0
    BY <1>0, <1>a
  <2>3. op.phase # "count"
    BY <1>a DEF ModeShape
  <2>4. Owes(op.phase, op.owed - 1)
    BY <1>0, <2>2, <2>3 DEF Owes
  <2> QED
    BY <1>0, <2>1, <2>2, <2>4 DEF ModeMoved
<1>5. CASE ScanListed
  <2>1. PICK named \in SUBSET Present :
          IF named = {} THEN Left /\ UNCHANGED pipe
          ELSE \E unsplit \in SUBSET (1 .. Cardinality(named)) :
                 LET sent == Sent(Cardinality(named), unsplit)
                 IN /\ op' = [op EXCEPT !.phase = IF sent = {} THEN "count" ELSE "replies",
                                        !.named = named, !.owed = Cardinality(sent)]
                    /\ pipe' = [NoPipe EXCEPT !.sent = sent, !.skipped = (unsplit # {})]
                    /\ UNCHANGED rest
    BY <1>5 DEF ScanListed
  <2>2. CASE named # {}
    <3>1. Cardinality(named) \in Nat /\ named \in SUBSET Keys
      BY KeysSized
    <3>2. PICK sent, phase :
            /\ Cardinality(sent) \in Nat
            /\ sent # {} => phase = "replies" /\ Cardinality(sent) > 0
            /\ sent = {} => phase = "count" /\ Cardinality(sent) = 0
            /\ op' = [op EXCEPT !.phase = phase, !.named = named, !.owed = Cardinality(sent)]
            /\ rest' = rest
      BY <2>1, <2>2, <3>1, SentSized
    <3>3. Moves(phase, named, Cardinality(sent), op.scans)
      BY <3>2 DEF Moves, OpTyped
    <3>4. Owes(phase, Cardinality(sent)) /\ phase \in ModePhases
      BY <3>2 DEF Owes, ModePhases
    <3> QED
      BY <1>0, <3>1, <3>2, <3>3, <3>4 DEF ModeMoved
  <2> QED
    BY <2>1, <2>2
<1>6. CASE PipelineReply
  <2>1. op.phase = "replies" /\ op.owed > 0 /\ rest' = rest
    BY <1>6 DEF PipelineReply, At, ModeShape
  <2>2. CASE op.owed > 1
    BY <1>6, <1>a, <2>1, <2>2 DEF PipelineReply
  <2>3. CASE ~(op.owed > 1)
    <3>1. op' = [op EXCEPT !.phase = "count", !.owed = 0]
      BY <1>6, <2>3 DEF PipelineReply
    <3>2. Owes("count", 0) /\ "count" \in ModePhases
      BY DEF Owes, ModePhases
    <3> QED
      BY <1>1, <2>1, <3>1, <3>2
  <2> QED
    BY <2>2, <2>3
<1>7. CASE PipelineStops \/ KeysCounted \/ TypesStop \/ SlaveLeaves \/ PhaseFails \/ PingFails
           \/ TransferFails
  BY <1>7
  DEF PipelineStops, KeysCounted, TypesStop, SlaveLeaves, PhaseFails, PingFails, TransferFails, LeftOwing
<1>8. CASE KeysTotalled \/ FirstReply \/ StatHead \/ StatReply \/ Synced
  <2>1. {"batch", "lines", "asking", "info"} \subseteq ModePhases \ {"replies", "types", "sizes", "count"}
    BY DEF ModePhases
  <2>2. Left \/ \E phase \in {"batch", "lines", "asking", "info"} :
                  op' = [op EXCEPT !.phase = phase] /\ rest' = rest
    BY <1>8 DEF KeysTotalled, FirstReply, StatHead, StatReply, Synced
  <2> QED
    BY <1>4, <2>1, <2>2
<1>9. CASE BatchScanned
  <2>1. PICK named \in SUBSET Present :
          IF named = {} THEN RoundOver("batch")
          ELSE op' = [op EXCEPT !.phase = "types", !.owed = Cardinality(named)] /\ UNCHANGED rest
    BY <1>9 DEF BatchScanned
  <2>2. CASE named # {}
    <3>1. Owes("types", Cardinality(named)) /\ Cardinality(named) \in Nat /\ "types" \in ModePhases
      BY <2>2, KeysSized DEF Owes, ModePhases
    <3> QED
      BY <1>1, <2>1, <2>2, <3>1
  <2> QED
    BY <1>3, <2>1, <2>2
<1>10. CASE TypeRead
  <2>2. CASE op.owed > 1 /\ op' = [op EXCEPT !.owed = @ - 1] /\ UNCHANGED rest
    BY <1>a, <2>2
  <2>3. ASSUME NEW sent \in 1..Cardinality(Present),
               op' = [op EXCEPT !.phase = "sizes", !.owed = sent], rest' = rest
        PROVE  Left \/ ModeMoved
    <3>1. Cardinality(Present) \in Nat
      BY KeysSized
    <3>2. sent \in Nat /\ Owes("sizes", sent) /\ "sizes" \in ModePhases
      BY <3>1 DEF Owes, ModePhases
    <3> QED
      BY <1>1, <2>3, <3>2
  <2> QED
    BY <1>3, <1>10, <2>2, <2>3 DEF TypeRead
<1>11. CASE SizeRead
  <2>2. CASE op.owed > 1 /\ op' = [op EXCEPT !.owed = @ - 1] /\ UNCHANGED rest
    BY <1>a, <2>2
  <2> QED
    BY <1>3, <1>11, <2>2 DEF SizeRead
<1>12. CASE CursorMoved
  BY <1>3, <1>12 DEF CursorMoved
<1>13. CASE Ping \/ StatRetries \/ LineRead
  BY <1>2, <1>13 DEF Ping, StatRetries, LineRead
<1> QED
  BY <1>5, <1>6, <1>7, <1>8, <1>9, <1>10, <1>11, <1>12, <1>13 DEF ModeStep

-----------------------------------------------------------------------------
(* Types. *)

LinkInv == TypeOK /\ HandleInv /\ ShapeInv /\ ModeShape

PipeTyped == pipe \in [sent : SUBSET Nat, filed : Nat, skipped : BOOLEAN, misfiled : BOOLEAN]

\* The fields of a pipeline.
LEMMA PipeFields ==
  ASSUME NEW sent \in SUBSET Nat, NEW filed \in Nat, NEW skipped \in BOOLEAN, NEW misfiled \in BOOLEAN
  PROVE  [sent |-> sent, filed |-> filed, skipped |-> skipped, misfiled |-> misfiled]
           \in [sent : SUBSET Nat, filed : Nat, skipped : BOOLEAN, misfiled : BOOLEAN]
  OBVIOUS

\* No pipeline has the type of one.
LEMMA NoPipeTyped ==
  NoPipe \in [sent : SUBSET Nat, filed : Nat, skipped : BOOLEAN, misfiled : BOOLEAN]
  BY DEF NoPipe

\* The types and shapes hold at the beginning.
LEMMA InitLink == LinkInit => LinkInv
<1> SUFFICES ASSUME LinkInit PROVE LinkInv
  OBVIOUS
<1>1. op = Idle /\ rest = <<>>
  BY DEF LinkInit, ConnectionInit
<1>2. /\ op.name = "idle" /\ op.phase = "idle" /\ op.todo = <<>> /\ op.keys = <<>>
      /\ op.owed = 0 /\ op.scans = 0
  BY <1>1 DEF Idle
<1>3. OpTyped
  BY <1>1, <1>2, IdleTyped DEF OpTyped
<1>4. (CHOOSE v \in Values : TRUE) \in Values
  BY StoreAssumption
<1>5. /\ store \in Backends /\ handle = FALSE /\ isAuth = FALSE /\ link = "down" /\ live = 0
      /\ abandoned = 0 /\ stored \in [Keys -> {None, CHOOSE v \in Values : TRUE}]
      /\ told = [k \in Keys |-> None] /\ unsure \subseteq Keys /\ stale = 0 /\ mismatched = FALSE
      /\ astray = "none" /\ feed = FALSE /\ interrupted = FALSE /\ crashed = FALSE
      /\ pipe = NoPipe
  BY DEF LinkInit, ConnectionInit
<1>6. TypeOK
  <2>1. stored \in [Keys -> Values \cup {None}]
    BY <1>4, <1>5
  <2>2. told \in [Keys -> Values \cup {None, Named}]
    BY <1>5
  <2>3. stale \in 0..MaxStale /\ op.owed \in Nat /\ op.scans \in 0..MaxScans
    BY <1>2, <1>5, LinkAssumption
  <2> QED
    BY <1>5, <2>1, <2>2, <2>3, NoPipeTyped DEF TypeOK, PipeTyped
<1> QED
  BY <1>1, <1>2, <1>3, <1>6, InitHandles DEF LinkInv, ShapeInv, ModeShape

\* Connecting begins with the greeting of redis, and with nothing elsewhere.
LEMMA GreetShapes ==
  ASSUME Greet, op = Idle, store' = store
  PROVE  \/ op' = Idle
         \/ /\ ShapeInv' /\ op'.phase = "calls" /\ op'.name = "Connect"
            /\ op'.touched = {} /\ op'.named = {}
<1>1. CASE store # "redis"
  BY <1>1 DEF Greet
<1>2. CASE store = "redis"
  <2>1. PICK password \in BOOLEAN : GreetRedis(password)
    BY <1>2 DEF Greet
  <2> DEFINE todo == (IF password THEN <<"auth">> ELSE <<>>) \o <<"pass", "pass">>
  <2>2. todo \in {<<"pass", "pass">>, <<"auth", "pass", "pass">>}
    <3>1. <<"auth">> \o <<"pass", "pass">> = <<"auth", "pass", "pass">>
      <4> DEFINE S == {"auth", "pass"}
                 u == <<"auth">>
                 v == <<"pass", "pass">>
                 s == u \o v
                 t == <<"auth", "pass", "pass">>
      <4>1. u \in Seq(S) /\ Len(u) = 1 /\ u[1] = "auth"
        OBVIOUS
      <4>2. v \in Seq(S) /\ Len(v) = 2 /\ v[1] = "pass" /\ v[2] = "pass"
        OBVIOUS
      <4>3. t \in Seq(S) /\ Len(t) = 3 /\ t[1] = "auth" /\ t[2] = "pass" /\ t[3] = "pass"
        OBVIOUS
      <4> HIDE DEF S, u, v, t
      <4>4. s \in Seq(S) /\ Len(s) = 3 /\ s[1] = "auth" /\ s[2] = "pass" /\ s[3] = "pass"
        <5>1. /\ s \in Seq(S) /\ Len(s) = 3
              /\ \A i \in 1..3 : s[i] = IF i <= 1 THEN u[i] ELSE v[i - 1]
          BY <4>1, <4>2, ConcatProperties
        <5> QED
          BY <4>1, <4>2, <5>1
      <4> HIDE DEF s
      <4>5. \A i \in 1..3 : s[i] = t[i]
        BY <4>3, <4>4
      <4>6. s = t
        BY <4>3, <4>4, <4>5
      <4> QED
        BY <4>6 DEF s, t, u, v
    <3>2. <<>> \o <<"pass", "pass">> = <<"pass", "pass">>
      OBVIOUS
    <3>3. todo \in {<<"auth">> \o <<"pass", "pass">>, <<>> \o <<"pass", "pass">>}
      BY Zenon
    <3> QED
      BY <3>1, <3>2, <3>3, Zenon
  <2>3. op' = [Idle EXCEPT !.name = "Connect", !.phase = "calls", !.todo = todo]
    BY <2>1 DEF GreetRedis
  <2> HIDE DEF todo
  <2>4. op' = [name |-> "Connect", phase |-> "calls", todo |-> todo, keys |-> <<>>, target |-> None,
               value |-> None, named |-> {}, touched |-> {}, owed |-> 0, scans |-> 0]
    BY <2>3 DEF Idle
  <2>5. /\ op'.name = "Connect" /\ op'.phase = "calls" /\ op'.todo = todo
        /\ op'.touched = {} /\ op'.named = {}
        /\ op' \in [name : {op'.name}, phase : {op'.phase}, todo : {op'.todo}, keys : {op'.keys},
                    target : Keys \cup {None}, value : Values \cup {None},
                    named : SUBSET Keys, touched : SUBSET Keys, owed : Nat, scans : 0..MaxScans]
    BY <2>4, LinkAssumption
  <2>6. /\ op'.name \in Quiet
        /\ op'.todo \in {<<>>, <<"pass">>, <<"pass", "pass">>, <<"auth", "pass", "pass">>}
    <3>1. "Connect" \in Quiet
      BY DEF Quiet
    <3> QED
      BY <2>2, <2>5, <3>1, Zenon
  <2>7. MethodShape'
    BY <2>6, Zenon DEF MethodShape
  <2> QED
    BY <2>5, <2>7, Zenon DEF ShapeInv, OpTyped
<1> QED
  BY <1>1, <1>2

\* Nothing of the running method changes.
LEMMA ShapeKept ==
  ASSUME ShapeInv, ModeShape, UNCHANGED <<op, rest, store>>
  PROVE  ShapeInv' /\ ModeShape'
  BY DEF ShapeInv, ModeShape, OpTyped, MethodShape

\* A mode that begins has the shape of its first phase.
LEMMA FreshShape ==
  ASSUME Fresh, rest' \in Seq(DOMAIN FirstPhase)
  PROVE  ShapeInv' /\ ModeShape'
  BY DEF Fresh, FirstPhases, ShapeInv, ModeShape

\* A method that makes calls is in no mode.
LEMMA CallsShape ==
  ASSUME ModeShape, op'.phase = "calls", rest' = rest
  PROVE  ModeShape'
  BY DEF ModeShape

\* The frame of all steps.
LEMMA StoreFixed == [LinkNext]_linkAllVars => store' = store
<1> SUFFICES ASSUME [LinkNext]_linkAllVars PROVE store' = store
  OBVIOUS
<1>1. CASE Methods
  BY <1>1, StartFrame
<1>2. CASE ConnectAgain \/ ConnectOpens \/ ConnectFails \/ Disconnect \/ TestOpens \/ ProbeStarts
  BY <1>2 DEF ConnectAgain, ConnectOpens, ConnectFails, Disconnect, TestOpens, ProbeStarts
<1>3. CASE Step
  BY <1>3 DEF Step, CallAnswered, CallRefused, CallFails, Returns, QuitReturns
<1>4. CASE ProbeStep
  BY <1>4 DEF ProbeStep, ProbeAnswered, ProbeFails, ProbeReturns, ProbeFreed
<1>5. CASE Interrupt \/ Push \/ Modes \/ LoadContent \/ Listen \/ UNCHANGED linkAllVars
  BY <1>5 DEF Interrupt, Push, Modes, LoadContent, Listen, AskMode, linkAllVars, connectionVars
<1>6. CASE ModeStep
  BY <1>6, ModeFrame
<1> QED
  BY <1>1, <1>2, <1>3, <1>4, <1>5, <1>6 DEF LinkNext, LinkAsk, LinkStep, LinkProbe, Ask, Methods

\* A mode begins.
LEMMA ModeBegins ==
  ASSUME ModeShape, Modes \/ LoadContent \/ Listen
  PROVE  Fresh /\ rest' \in Seq(DOMAIN FirstPhase)
<1>1. CASE Modes
  <2>1. PICK list \in ModeLists : op' = Begun(Head(list)) /\ rest' = Tail(list)
    BY <1>1 DEF Modes
  <2>2. list \in Seq(DOMAIN FirstPhase) /\ list # <<>>
    BY LinkAssumption
  <2>3. Head(list) \in DOMAIN FirstPhase /\ Tail(list) \in Seq(DOMAIN FirstPhase)
    BY <2>2
  <2> QED
    BY <2>1, <2>3, BegunFields
<1>2. CASE LoadContent \/ Listen
  <2>1. {"loadContent", "monitor", "subscribe"} \subseteq DOMAIN FirstPhase
    BY DEF FirstPhase
  <2>2. PICK name \in {"loadContent", "monitor", "subscribe"} : op' = Begun(name)
    BY <1>2 DEF LoadContent, Listen
  <2>3. rest' = rest
    BY <1>2 DEF LoadContent, Listen
  <2> QED
    BY <2>1, <2>2, <2>3, BegunFields DEF ModeShape
<1> QED
  BY <1>1, <1>2

\* Every step keeps methods and modes in shape.
LEMMA ShapeStep == LinkInv /\ [LinkNext]_linkAllVars => ShapeInv' /\ ModeShape'
<1> SUFFICES ASSUME LinkInv, [LinkNext]_linkAllVars PROVE ShapeInv' /\ ModeShape'
  OBVIOUS
<1>0. /\ ShapeInv /\ ModeShape /\ StoredTyped /\ OpTyped /\ store \in Backends /\ store' = store
      /\ rest \in Seq(DOMAIN FirstPhase)
  BY StoreFixed DEF LinkInv, TypeOK, ShapeInv, StoredTyped, ModeShape
<1>1. CASE Methods /\ rest' = rest
  BY <1>0, <1>1, StartShapes, StartFrame, CallsShape
<1>2. CASE (ConnectAgain \/ ConnectOpens) /\ rest' = rest
  <2>1. Greet /\ op = Idle
    BY <1>2 DEF ConnectAgain, ConnectOpens, Asked
  <2> QED
    BY <1>0, <1>2, <2>1, GreetShapes, IdleFresh, FreshShape, CallsShape
<1>3. CASE op' = op /\ rest' = rest
  BY <1>0, <1>3, ShapeKept
<1>4. CASE CallAnswered /\ rest' = rest
  <2>1. op.phase = "calls" /\ op.todo # <<>> /\ MethodShape
    BY <1>0, <1>4 DEF CallAnswered, Calling, ShapeInv
  <2>2. MethodShape'
    BY <1>0, <1>4, <2>1, AnswerFields, ShapeGoesOn
  <2> QED
    BY <1>0, <1>4, <2>2, AnswerFields, CallsShape DEF ShapeInv
<1>5. CASE op' = Passed /\ Calling /\ rest' = rest
  <2>1. op.phase = "calls" /\ op.todo # <<>> /\ MethodShape
    BY <1>0, <1>5 DEF Calling, ShapeInv
  <2>2. MethodShape'
    BY <1>0, <1>5, <2>1, PassedFields, ShapeGoesOn
  <2> QED
    BY <1>0, <1>5, <2>2, PassedFields, CallsShape DEF ShapeInv
<1>6. CASE op' = Idle /\ rest' = rest
  BY <1>0, <1>6, IdleFresh, FreshShape
<1>7. CASE Modes \/ LoadContent \/ Listen
  BY <1>0, <1>7, ModeBegins, FreshShape
<1>8. CASE ModeStep
  <2>1. CASE Left
    BY <1>0, <2>1, LeftFresh, FreshShape
  <2>2. CASE ModeMoved
    <3>1. PICK phase \in ModePhases, named \in SUBSET Keys, owed \in Nat, scans \in 0..MaxScans :
            Moves(phase, named, owed, scans) /\ Owes(phase, owed)
      BY <2>2 DEF ModeMoved
    <3>2. op'.phase = phase /\ op'.owed = owed /\ OpTyped' /\ rest' = rest
      BY <1>0, <3>1, MovedFields
    <3>3. phase # "calls"
      BY DEF ModePhases
    <3> QED
      BY <1>0, <3>1, <3>2, <3>3 DEF ShapeInv, ModeShape, Owes
  <2> QED
    BY <1>0, <1>8, <2>1, <2>2, ModeMoves
<1>9. CASE LinkAsk
  BY <1>1, <1>2, <1>3, <1>9
  DEF LinkAsk, Ask, ConnectFails, Disconnect, TestOpens, ProbeStarts, Methods
<1>10. CASE LinkStep
  BY <1>4, <1>5, <1>6, <1>10
  DEF LinkStep, Step, CallRefused, CallFails, Returns, QuitReturns, Ends, GoesOn
<1>11. CASE LinkProbe \/ Interrupt \/ Push \/ UNCHANGED linkAllVars
  BY <1>3, <1>11
  DEF LinkProbe, ProbeStep, ProbeAnswered, ProbeFails, ProbeReturns, ProbeFreed, Interrupt, Push,
      linkAllVars, connectionVars
<1> QED
  BY <1>7, <1>8, <1>9, <1>10, <1>11 DEF LinkNext

ToldTyped == told \in [Keys -> Values \cup {None, Named}]

\* The keys of a method that has made all its calls.
LEMMA KeysAbout ==
  ASSUME MethodShape
  PROVE  /\ op.name \in {"Set", "Get", "SetTTL"} => op.target \in Keys /\ Key = op.target
         /\ op.name = "Rename" => op.target \in Keys /\ Key \in Keys
  BY DEF MethodShape, Quiet, Key

\* What a method tells is about keys and their values.
LEMMA ToldResult ==
  ASSUME ToldTyped, OpTyped, MethodShape
  PROVE  Told \in [Keys -> Values \cup {None, Named}]
<1>1. CASE op.name \in {"Set", "Get"}
  <2>1. Key \in Keys /\ op.value \in Values \cup {None, Named}
    BY <1>1, KeysAbout DEF OpTyped
  <2>2. Told = [told EXCEPT ![Key] = op.value]
    BY <1>1 DEF Told
  <2> QED
    BY <2>1, <2>2 DEF ToldTyped
<1>2. CASE op.name = "Rename"
  <2>1. Key \in Keys /\ op.target \in Keys /\ told[Key] \in Values \cup {None, Named}
    BY <1>2, KeysAbout DEF ToldTyped
  <2>2. Told = [[told EXCEPT ![Key] = None] EXCEPT ![op.target] = told[Key]]
    BY <1>2 DEF Told
  <2> QED
    BY <2>1, <2>2 DEF ToldTyped
<1>3. CASE op.name = "Delete"
  BY <1>3 DEF Told, ToldTyped
<1>4. CASE op.name = "loadContent"
  BY <1>4 DEF Told, ToldTyped
<1>5. CASE op.name = "clearDatabase"
  BY <1>5 DEF Told
<1>6. CASE op.name \notin {"Set", "Get", "Rename", "Delete", "loadContent", "clearDatabase"}
  BY <1>6 DEF Told, ToldTyped
<1> QED
  BY <1>1, <1>2, <1>3, <1>4, <1>5, <1>6

DataTyped == StoredTyped /\ ToldTyped /\ unsure \subseteq Keys

\* So is what is told in the other steps.
LEMMA ToldKeys ==
  ASSUME ToldTyped, unsure \subseteq Keys, Untold \/ KeysTold
  PROVE  ToldTyped' /\ unsure' \subseteq Keys
<1>1. CASE Untold
  BY <1>1 DEF Untold, ToldTyped
<1>2. CASE KeysTold
  BY <1>2 DEF KeysTold, ToldTyped
<1> QED
  BY <1>1, <1>2

\* Every step keeps the types of what is stored and told.
LEMMA DataStep == LinkInv /\ [LinkNext]_linkAllVars => DataTyped'
<1> SUFFICES ASSUME LinkInv, [LinkNext]_linkAllVars PROVE DataTyped'
  OBVIOUS
<1>0. StoredTyped /\ ToldTyped /\ unsure \subseteq Keys /\ OpTyped /\ ShapeInv
  BY DEF LinkInv, TypeOK, StoredTyped, ToldTyped, ShapeInv
<1>1. CASE UNCHANGED dataVars
  BY <1>0, <1>1 DEF dataVars, DataTyped, StoredTyped, ToldTyped
<1>2. CASE FreshStream
  BY <1>0, <1>2 DEF FreshStream, DataTyped, StoredTyped, ToldTyped
<1>3. CASE CallAnswered \/ CallRefused \/ CallFails
  <2>1. op.phase = "calls" /\ op.todo # <<>> /\ MethodShape
    BY <1>0, <1>3, CallFrame DEF ShapeInv
  <2>2. stored' \in Results \cup Remains
    BY <1>3 DEF CallAnswered, CallRefused, CallFails, Executed
  <2>3. StoredTyped'
    BY <1>0, <2>1, <2>2, ResultsTyped DEF StoredTyped
  <2>4. told' = told /\ unsure' \subseteq unsure \cup op.touched \cup Changed
    BY <1>3 DEF CallAnswered, CallRefused, CallFails, Ends, GoesOn
  <2>5. op.touched \subseteq Keys /\ Changed \subseteq Keys
    BY <1>0 DEF OpTyped, Changed
  <2> QED
    BY <1>0, <2>3, <2>4, <2>5 DEF DataTyped, ToldTyped
<1>4. CASE Returns
  <2>1. MethodShape
    BY <1>0, <1>4 DEF Returns, ShapeInv
  <2>2. told' = Told /\ unsure' = (unsure \ Sure) \cup Doubt /\ stored' = stored
    BY <1>4 DEF Returns
  <2>3. Doubt \subseteq Keys
    <3>1. op.touched \subseteq Keys
      BY <1>0 DEF OpTyped
    <3>2. op.name = "Rename" => op.target \in Keys
      BY <2>1, KeysAbout
    <3> QED
      BY <3>1, <3>2 DEF Doubt
  <2> QED
    BY <1>0, <2>1, <2>2, <2>3, ToldResult DEF DataTyped, ToldTyped, StoredTyped
<1>5. CASE ModeStep
  <2>1. stored' = stored
    BY <1>5, ModeFrame
  <2>2. Untold \/ KeysTold
    BY <1>5
    DEF ModeStep, ScanListed, PipelineReply, PipelineStops, KeysCounted, KeysTotalled, BatchScanned,
        TypeRead, TypesStop, SizeRead, CursorMoved, Ping, PingFails, StatHead, StatReply, StatRetries,
        FirstReply, Synced, TransferFails, LineRead, SlaveLeaves, PhaseFails
  <2> QED
    BY <1>0, <2>1, <2>2, ToldKeys DEF DataTyped, StoredTyped
<1>6. CASE LinkAsk
  <2>1. CASE Methods
    BY <1>1, <2>1, StartFrame
  <2> QED
    BY <1>1, <1>2, <1>6, <2>1
    DEF LinkAsk, Ask, Methods, ConnectAgain, ConnectOpens, ConnectFails, Disconnect, TestOpens,
        ProbeStarts, Freed
<1>7. CASE LinkStep
  BY <1>2, <1>3, <1>4, <1>7 DEF LinkStep, Step, QuitReturns, Freed
<1>8. CASE LinkProbe \/ Interrupt \/ Push \/ Modes \/ LoadContent \/ Listen \/ UNCHANGED linkAllVars
  BY <1>1, <1>8
  DEF LinkProbe, ProbeStep, ProbeAnswered, ProbeFails, ProbeReturns, ProbeFreed, Interrupt, Push,
      Modes, LoadContent, Listen, AskMode, linkAllVars, connectionVars
<1> QED
  BY <1>5, <1>6, <1>7, <1>8 DEF LinkNext

\* The flags of the link and of the stream.
FlagsTyped ==
  /\ isAuth \in BOOLEAN /\ link \in {"up", "down"}
  /\ mismatched \in BOOLEAN /\ feed \in BOOLEAN /\ interrupted \in BOOLEAN /\ crashed \in BOOLEAN

\* Every step keeps the types of the handle and the link.
LEMMA FlagsStep == LinkInv /\ [LinkNext]_linkAllVars => FlagsTyped'
<1> SUFFICES ASSUME LinkInv, [LinkNext]_linkAllVars PROVE FlagsTyped'
  OBVIOUS
<1>0. FlagsTyped /\ handle' \in BOOLEAN /\ stale \in Nat
  BY HandleStep DEF LinkInv, TypeOK, FlagsTyped, HandleInv
<1>1. CASE Methods /\ LinkAsk
  <2>1. UNCHANGED <<linkVars, isAuth, streamVars>>
    BY <1>1, StartFrame
  <2> QED
    BY <1>0, <1>1, <2>1 DEF LinkAsk, FlagsTyped, linkVars, streamVars
<1>2. CASE (ConnectAgain \/ ConnectOpens) /\ LinkAsk
  <2>1. isAuth' \in BOOLEAN
    BY <1>0, <1>2 DEF ConnectAgain, ConnectOpens, Greet, GreetRedis, FlagsTyped
  <2>2. link' \in {"up", "down"} /\ mismatched' \in BOOLEAN
    BY <1>0, <1>2 DEF ConnectAgain, ConnectOpens, FreshStream, FlagsTyped, linkVars, streamVars
  <2>3. feed' = (feed /\ handle') /\ interrupted' = FALSE /\ crashed' = crashed
    BY <1>2 DEF LinkAsk
  <2> QED
    BY <1>0, <2>1, <2>2, <2>3 DEF FlagsTyped
<1>3. CASE (ConnectFails \/ Disconnect \/ TestOpens \/ ProbeStarts) /\ LinkAsk
  BY <1>0, <1>3
  DEF ConnectFails, Disconnect, TestOpens, ProbeStarts, Freed, FreshStream, LinkAsk, FlagsTyped,
      streamVars
<1>4. CASE LinkStep
  <2>1. isAuth' \in BOOLEAN
    BY <1>0, <1>4
    DEF LinkStep, Step, CallAnswered, CallRefused, CallFails, Returns, QuitReturns, AuthRefused,
        FlagsTyped
  <2>2. mismatched' \in BOOLEAN /\ link' \in {"up", "down"}
    BY <1>0, <1>4
    DEF LinkStep, Step, CallAnswered, CallRefused, CallFails, Returns, QuitReturns, Reading, Freed,
        FreshStream, FlagsTyped, linkVars, streamVars
  <2> QED
    BY <1>0, <1>4, <2>1, <2>2 DEF LinkStep, FlagsTyped
<1>5. CASE LinkProbe
  BY <1>0, <1>5
  DEF LinkProbe, ProbeStep, ProbeAnswered, ProbeFails, ProbeReturns, ProbeFreed, FlagsTyped, linkVars,
      streamVars
<1>6. CASE Interrupt \/ Push \/ Modes \/ LoadContent \/ Listen \/ UNCHANGED linkAllVars
  BY <1>0, <1>6
  DEF Interrupt, Push, Modes, LoadContent, Listen, AskMode, linkAllVars, connectionVars, FlagsTyped,
      linkVars, streamVars
<1>7. CASE ModeStep
  <2>1. isAuth' \in {FALSE, isAuth} /\ UNCHANGED interrupted
    BY <1>7, ModeFrame
  <2>2. link' = link \/ link' = "down"
    BY <1>7
    DEF ModeStep, ScanListed, PipelineReply, PipelineStops, KeysCounted, KeysTotalled, BatchScanned,
        TypeRead, TypesStop, SizeRead, CursorMoved, Ping, PingFails, StatHead, StatReply, StatRetries,
        FirstReply, Synced, TransferFails, LineRead, SlaveLeaves, PhaseFails, Refused, Read, LinkUp,
        LinkLost
  <2>3. mismatched' = mismatched \/ mismatched' = (mismatched \/ stale > 0)
    BY <1>7
    DEF ModeStep, ScanListed, PipelineReply, PipelineStops, KeysCounted, KeysTotalled, BatchScanned,
        TypeRead, TypesStop, SizeRead, CursorMoved, Ping, PingFails, StatHead, StatReply, StatRetries,
        FirstReply, Synced, TransferFails, LineRead, SlaveLeaves, PhaseFails, Refused, Read,
        streamVars
  <2>4. feed' \in {feed, TRUE} /\ crashed' \in {crashed, Present = {}}
    BY <1>7
    DEF ModeStep, ScanListed, PipelineReply, PipelineStops, KeysCounted, KeysTotalled, BatchScanned,
        TypeRead, TypesStop, SizeRead, CursorMoved, Ping, PingFails, StatHead, StatReply, StatRetries,
        FirstReply, Synced, TransferFails, LineRead, SlaveLeaves, PhaseFails, Harmless
  <2> QED
    BY <1>0, <2>1, <2>2, <2>3, <2>4 DEF FlagsTyped
<1> QED
  BY <1>1, <1>2, <1>3, <1>4, <1>5, <1>6, <1>7 DEF LinkNext, LinkAsk, Ask, Methods

\* The answers on the stream.
StreamTyped == stale \in 0..MaxStale /\ astray \in {"none", "pipeline", "types", "feed"}

\* Leaving answers behind keeps the types of the stream.
LEMMA OwingTyped ==
  ASSUME StreamTyped, NEW reason \in {"none", "pipeline", "types", "feed"}, NEW owed \in Nat,
         LeftOwing(reason, owed)
  PROVE  StreamTyped'
  BY LinkAssumption DEF LeftOwing, StreamTyped

\* So does every step.
LEMMA StreamTypes == LinkInv /\ [LinkNext]_linkAllVars => StreamTyped'
<1> SUFFICES ASSUME LinkInv, [LinkNext]_linkAllVars PROVE StreamTyped'
  OBVIOUS
<1>0. StreamTyped /\ ModeShape /\ op.owed \in Nat /\ MaxStale \in Nat /\ stale \in Nat
  BY LinkAssumption DEF LinkInv, TypeOK, StreamTyped
<1>1. CASE stale' \in {stale, 0} /\ astray' \in {astray, "none", "feed"}
  BY <1>0, <1>1 DEF StreamTyped
<1>2. CASE LinkAsk
  <2>1. stale' \in {stale, 0}
    <3>1. CASE Methods
      BY <3>1, StartFrame DEF streamVars
    <3> QED
      BY <1>2, <3>1
      DEF LinkAsk, Ask, Methods, ConnectAgain, ConnectOpens, ConnectFails, Disconnect, TestOpens,
          ProbeStarts, Freed, FreshStream, streamVars
  <2> QED
    BY <1>1, <1>2, <2>1 DEF LinkAsk
<1>3. CASE LinkStep
  <2>1. stale' \in {stale, 0}
    BY <1>3
    DEF LinkStep, Step, CallAnswered, CallRefused, CallFails, Returns, QuitReturns, Reading, Freed,
        FreshStream, streamVars
  <2> QED
    BY <1>1, <1>3, <2>1 DEF LinkStep
<1>4. CASE LinkProbe \/ Interrupt \/ Modes \/ LoadContent \/ Listen \/ UNCHANGED linkAllVars
  BY <1>1, <1>4
  DEF LinkProbe, ProbeStep, ProbeAnswered, ProbeFails, ProbeReturns, ProbeFreed, Interrupt, Modes,
      LoadContent, Listen, AskMode, linkAllVars, connectionVars, streamVars
<1>5. CASE Push
  BY <1>0, <1>5 DEF Push, StreamTyped
<1>6. CASE PipelineStops \/ KeysCounted \/ TypesStop \/ TransferFails
  <2>1. op.phase \in {"replies", "types"} => op.owed - 1 \in Nat
    BY <1>0 DEF ModeShape
  <2>2. CASE InPlace
    BY <1>1, <2>2 DEF InPlace
  <2>3. CASE ~InPlace
    BY <1>0, <1>6, <2>1, <2>3, OwingTyped
    DEF PipelineStops, KeysCounted, TypesStop, TransferFails, In, At
  <2> QED
    BY <2>2, <2>3
<1>7. CASE LineRead
  BY <1>0, <1>7 DEF LineRead, StreamTyped
<1>8. CASE ModeStep /\ ~(PipelineStops \/ KeysCounted \/ TypesStop \/ TransferFails \/ LineRead)
  BY <1>1, <1>8
  DEF ModeStep, ScanListed, PipelineReply, KeysTotalled, BatchScanned, TypeRead, SizeRead, CursorMoved,
      Ping, PingFails, StatHead, StatReply, StatRetries, FirstReply, Synced, SlaveLeaves, PhaseFails,
      InPlace, streamVars
<1> QED
  BY <1>2, <1>3, <1>4, <1>5, <1>6, <1>7, <1>8 DEF LinkNext

\* What the loading of keys does to the pipeline: a listing begins one or leaves it.
LEMMA ListedPipe ==
  ASSUME OpTyped, ModeShape, ScanListed
  PROVE  \/ pipe' = pipe /\ op'.phase # "replies"
         \/ /\ pipe'.sent \in SUBSET Nat /\ op'.owed \in Nat
            /\ ~pipe'.skipped => pipe'.sent = 1 .. op'.owed
            /\ pipe' = [sent |-> pipe'.sent, filed |-> 0, skipped |-> pipe'.skipped, misfiled |-> FALSE]
            /\ pipe'.skipped \in BOOLEAN
<1>1. PICK named \in SUBSET Present :
        IF named = {} THEN Left /\ UNCHANGED pipe
        ELSE \E unsplit \in SUBSET (1 .. Cardinality(named)) :
               LET sent == Sent(Cardinality(named), unsplit)
               IN /\ op' = [op EXCEPT !.phase = IF sent = {} THEN "count" ELSE "replies",
                                      !.named = named, !.owed = Cardinality(sent)]
                  /\ pipe' = [NoPipe EXCEPT !.sent = sent, !.skipped = (unsplit # {})]
                  /\ UNCHANGED rest
  BY DEF ScanListed
<1>2. CASE named = {}
  BY <1>1, <1>2, LeftFresh DEF Fresh, FirstPhases
<1>3. CASE named # {}
  <2>1. Cardinality(named) \in Nat
    BY KeysSized
  <2>2. PICK sent \in SUBSET Nat, skipped \in BOOLEAN :
          /\ Cardinality(sent) \in Nat
          /\ ~skipped => sent = 1 .. Cardinality(sent)
          /\ op' = [op EXCEPT !.phase = IF sent = {} THEN "count" ELSE "replies",
                              !.named = named, !.owed = Cardinality(sent)]
          /\ pipe' = [NoPipe EXCEPT !.sent = sent, !.skipped = skipped]
    <3>1. PICK unsplit \in SUBSET (1 .. Cardinality(named)) :
            /\ op' = [op EXCEPT !.phase = IF Sent(Cardinality(named), unsplit) = {} THEN "count"
                                          ELSE "replies",
                                !.named = named, !.owed = Cardinality(Sent(Cardinality(named), unsplit))]
            /\ pipe' = [NoPipe EXCEPT !.sent = Sent(Cardinality(named), unsplit),
                                      !.skipped = (unsplit # {})]
      BY <1>1, <1>3
    <3>2. PICK sent : sent = Sent(Cardinality(named), unsplit)
      OBVIOUS
    <3>3. PICK skipped \in BOOLEAN : skipped = (unsplit # {})
      OBVIOUS
    <3>4. sent \in SUBSET Nat /\ Cardinality(sent) \in Nat /\ (unsplit = {} => sent = 1 .. Cardinality(sent))
      BY <2>1, <3>2, SentSized
    <3>5. ~skipped => unsplit = {}
      BY <3>3
    <3>6. pipe' = [NoPipe EXCEPT !.sent = sent, !.skipped = skipped]
      BY <3>1, <3>2, <3>3, Zenon
    <3>7. op' = [op EXCEPT !.phase = IF sent = {} THEN "count" ELSE "replies",
                           !.named = named, !.owed = Cardinality(sent)]
      BY <3>1, <3>2, Zenon
    <3>8. ~skipped => sent = 1 .. Cardinality(sent)
      BY <3>4, <3>5
    <3> QED
      BY <3>3, <3>4, <3>6, <3>7, <3>8, Zenon
  <2>3. op'.owed = Cardinality(sent)
    BY <2>2 DEF OpTyped
  <2>4. pipe' = [sent |-> sent, filed |-> 0, skipped |-> skipped, misfiled |-> FALSE]
    BY <2>2 DEF NoPipe
  <2> QED
    BY <2>2, <2>3, <2>4
<1> QED
  BY <1>2, <1>3

\* No other step of a mode begins one.
LEMMA OtherPipes ==
  ASSUME OpTyped, ModeShape, ModeStep, ~ScanListed, ~PipelineReply
  PROVE  op'.phase # "replies" /\ pipe' \in {pipe, NoPipe}
<1>1. pipe' \in {pipe, NoPipe}
  BY DEF ModeStep, PipelineStops, KeysCounted, KeysTotalled, BatchScanned, TypeRead, TypesStop, SizeRead,
         CursorMoved, Ping, PingFails, StatHead, StatReply, StatRetries, FirstReply, Synced,
         TransferFails, LineRead, SlaveLeaves, PhaseFails, In
<1>2. CASE Left
  BY <1>1, <1>2, LeftFresh DEF Fresh, FirstPhases
<1>3. CASE op'.phase = op.phase /\ op.phase # "replies"
  BY <1>1, <1>3
<1>4. ASSUME NEW phase \in {"batch", "types", "sizes", "cursor", "asking", "info", "lines"},
             op'.phase = phase
      PROVE  op'.phase # "replies"
  BY <1>4
<1>5. ASSUME NEW phase \in {"batch", "cursor"}, RoundOver(phase), ~Left
      PROVE  op'.phase # "replies"
  BY <1>5 DEF RoundOver, OpTyped
<1>6. CASE KeysTotalled \/ FirstReply \/ StatHead \/ StatReply \/ Synced
  BY <1>1, <1>2, <1>6 DEF KeysTotalled, FirstReply, StatHead, StatReply, Synced, OpTyped
<1>7. CASE BatchScanned \/ CursorMoved
  BY <1>1, <1>2, <1>5, <1>7 DEF BatchScanned, CursorMoved, OpTyped
<1>8. CASE TypeRead \/ SizeRead
  <2>1. op.phase # "replies"
    BY <1>8 DEF TypeRead, SizeRead, In, At
  <2>2. CASE op' = [op EXCEPT !.owed = @ - 1]
    BY <1>1, <2>1, <2>2 DEF OpTyped
  <2>3. CASE \E sent \in 1..Cardinality(Present) : op' = [op EXCEPT !.phase = "sizes", !.owed = sent]
    BY <1>1, <2>3 DEF OpTyped
  <2> QED
    BY <1>1, <1>2, <1>5, <1>8, <2>2, <2>3 DEF TypeRead, SizeRead
<1>9. CASE Ping \/ StatRetries \/ LineRead
  BY <1>2, <1>3, <1>9 DEF Ping, StatRetries, LineRead, In, At
<1>10. CASE PipelineStops \/ KeysCounted \/ TypesStop \/ TransferFails \/ SlaveLeaves \/ PhaseFails
            \/ PingFails
  BY <1>2, <1>10
  DEF PipelineStops, KeysCounted, TypesStop, TransferFails, SlaveLeaves, PhaseFails, PingFails, LeftOwing
<1> QED
  BY <1>6, <1>7, <1>8, <1>9, <1>10 DEF ModeStep

\* Outside the modes no pipeline runs.
LEMMA PipeFrame ==
  ASSUME LinkInv, [LinkNext]_linkAllVars, ~ModeStep
  PROVE  pipe' = pipe /\ (op'.phase = "replies" => op' = op)
<1>0. /\ ShapeInv /\ StoredTyped /\ ModeShape /\ Idle.phase # "replies"
  BY DEF LinkInv, TypeOK, StoredTyped, Idle
<1>1. CASE LinkAsk
  <2>1. CASE Methods
    BY <1>1, <2>1, StartFrame DEF LinkAsk
  <2>2. CASE ConnectAgain \/ ConnectOpens
    <3>1. op = Idle /\ Greet /\ store' = store
      BY <2>2 DEF ConnectAgain, ConnectOpens, Asked
    <3> QED
      BY <1>0, <1>1, <3>1, GreetShapes DEF LinkAsk
  <2>3. CASE ConnectFails \/ TestOpens \/ ProbeStarts \/ Disconnect
    BY <1>1, <2>3 DEF LinkAsk, ConnectFails, TestOpens, ProbeStarts, Disconnect, Asked
  <2> QED
    BY <1>1, <2>1, <2>2, <2>3 DEF LinkAsk, Ask, Methods
<1>2. CASE LinkStep
  <2>1. CASE CallAnswered \/ CallRefused \/ CallFails
    BY <1>0, <1>2, <2>1, AnswerFields, PassedFields
    DEF LinkStep, CallAnswered, CallRefused, CallFails, Ends, GoesOn
  <2> QED
    BY <1>0, <1>2, <2>1 DEF LinkStep, Step, Returns, QuitReturns
<1>3. CASE LinkProbe \/ Interrupt \/ Push \/ UNCHANGED linkAllVars
  BY <1>3
  DEF LinkProbe, ProbeStep, ProbeAnswered, ProbeFails, ProbeReturns, ProbeFreed, Interrupt, Push,
      linkAllVars, connectionVars
<1>4. CASE Modes \/ LoadContent \/ Listen
  <2>1. pipe' = pipe
    BY <1>4 DEF Modes, LoadContent, Listen, AskMode
  <2> QED
    BY <1>0, <1>4, <2>1, ModeBegins DEF Fresh, FirstPhases
<1> QED
  BY <1>1, <1>2, <1>3, <1>4 DEF LinkNext

\* Every step keeps the type of the pipeline.
LEMMA PipeTypes == LinkInv /\ [LinkNext]_linkAllVars => PipeTyped'
<1> SUFFICES ASSUME LinkInv, [LinkNext]_linkAllVars PROVE PipeTyped'
  OBVIOUS
<1>0. PipeTyped /\ OpTyped /\ ModeShape
  BY DEF LinkInv, TypeOK, PipeTyped, ShapeInv
<1>1. CASE pipe' \in {pipe, NoPipe}
  BY <1>0, <1>1, NoPipeTyped, Zenon DEF PipeTyped
<1>2. CASE ScanListed
  <2>1. CASE /\ pipe'.sent \in SUBSET Nat /\ pipe'.skipped \in BOOLEAN
             /\ pipe' = [sent |-> pipe'.sent, filed |-> 0, skipped |-> pipe'.skipped, misfiled |-> FALSE]
    <3>1. PICK sent \in SUBSET Nat, skipped \in BOOLEAN : sent = pipe'.sent /\ skipped = pipe'.skipped
      BY <2>1, Zenon
    <3>2. pipe' = [sent |-> sent, filed |-> 0, skipped |-> skipped, misfiled |-> FALSE]
      BY <2>1, <3>1, Zenon
    <3>3. 0 \in Nat /\ FALSE \in BOOLEAN
      OBVIOUS
    <3> QED
      BY <3>2, <3>3, PipeFields, Zenon DEF PipeTyped
  <2> QED
    BY <1>0, <1>1, <1>2, <2>1, ListedPipe, Zenon
<1>3. CASE PipelineReply
  <2>1. PICK x : x = Min(pipe.sent)
    OBVIOUS
  <2>2. pipe' = [pipe EXCEPT !.sent = @ \ {x}, !.filed = @ + 1,
                             !.misfiled = @ \/ x # pipe.filed + 1]
    BY <1>3, <2>1 DEF PipelineReply, Filed
  <2>3. PICK misfiled \in BOOLEAN : misfiled = (pipe.misfiled \/ x # pipe.filed + 1)
    OBVIOUS
  <2>4. pipe' = [pipe EXCEPT !.sent = @ \ {x}, !.filed = @ + 1, !.misfiled = misfiled]
    BY <2>2, <2>3, Zenon
  <2>5. pipe.filed + 1 \in Nat /\ pipe.sent \ {x} \in SUBSET Nat
    BY <1>0 DEF PipeTyped
  <2> QED
    BY <1>0, <2>4, <2>5 DEF PipeTyped
<1> QED
  BY <1>0, <1>1, <1>2, <1>3, OtherPipes, PipeFrame

\* Every step keeps all types and shapes.
LEMMA LinkTypeStep == LinkInv /\ [LinkNext]_linkAllVars => LinkInv'
<1> SUFFICES ASSUME LinkInv, [LinkNext]_linkAllVars PROVE LinkInv'
  OBVIOUS
<1>1. HandleInv' /\ ShapeInv' /\ ModeShape' /\ DataTyped' /\ FlagsTyped' /\ StreamTyped'
      /\ PipeTyped'
  BY HandleStep, ShapeStep, DataStep, FlagsStep, StreamTypes, PipeTypes DEF LinkInv
<1>2. store' \in Backends
  BY StoreFixed DEF LinkInv, TypeOK
<1>3. op'.owed \in Nat /\ op'.scans \in 0..MaxScans
  BY <1>1 DEF ShapeInv, OpTyped
<1>4. TypeOK'
  BY <1>1, <1>2, <1>3
  DEF TypeOK, HandleInv, DataTyped, StoredTyped, ToldTyped, FlagsTyped, StreamTyped, PipeTyped
<1> QED
  BY <1>1, <1>4 DEF LinkInv

\* All variables of a connection keep their types, in every store and for any keys,
\* values and lists of modes.
THEOREM LinkTypeCorrect == LinkSpec => []TypeOK
<1>1. LinkInv => TypeOK
  BY DEF LinkInv
<1> QED
  BY <1>1, InitLink, LinkTypeStep, PTL DEF LinkSpec

-----------------------------------------------------------------------------
(* The stream of answers. *)

\* Nothing is on the stream of a method that does not listen, while nothing has gone
\* astray.
LEMMA StreamClear ==
  ASSUME StreamInv, TypeOK, link = "up", astray = "none", op.phase # "lines"
  PROVE  feed = FALSE /\ stale = 0 /\ mismatched = FALSE
  BY LinkAssumption DEF StreamInv, TypeOK, StreamKept

\* A step that only ends or begins a method, or reads for one that does not listen,
\* with the link as it was.
LEMMA StreamRead ==
  ASSUME StreamInv, TypeOK, op.phase # "lines", UNCHANGED <<store, link, handle, stale, astray>>,
         feed' = feed, handle \/ mismatched' = mismatched,
         op'.phase \in ModePhases => store = "redis",
         mismatched' = mismatched \/ (mismatched' = (mismatched \/ stale > 0)
                                      /\ (store \in Remote => link = "up"))
  PROVE  StreamInv'
<1>1. store' = "redis" => store' \in Remote
  BY DEF Remote
<1>2. stale \in Nat /\ mismatched \in BOOLEAN
  BY LinkAssumption DEF TypeOK
<1>3. CASE link = "up" /\ astray = "none"
  <2>1. feed = FALSE /\ stale = 0 /\ mismatched = FALSE
    BY <1>3, StreamClear
  <2> QED
    BY <1>3, <2>1 DEF StreamInv, StreamKept
<1>4. CASE ~(link = "up" /\ astray = "none")
  BY <1>1, <1>2, <1>4 DEF StreamInv, StreamKept
<1> QED
  BY <1>3, <1>4

\* Losing the link.
LEMMA StreamLost ==
  ASSUME StreamInv, UNCHANGED <<store, handle, stale, astray, mismatched, feed>>, link' # "up",
         op'.phase \in ModePhases => store = "redis"
  PROVE  StreamInv'
  BY DEF StreamInv, StreamKept

\* A handle that is gone takes its stream with it.
LEMMA StreamFreed ==
  ASSUME handle' = FALSE, stale' = 0, mismatched' = FALSE, feed' = FALSE, astray' = "none",
         op'.phase \notin ModePhases
  PROVE  StreamInv'
  BY DEF StreamInv, StreamKept

\* Leaving with answers unread is noted, and only that changes the stream.
LEMMA OwingNoted ==
  ASSUME NEW reason \in {"pipeline", "types"}, NEW owed \in Nat, stale \in 0..MaxStale,
         LeftOwing(reason, owed)
  PROVE  \/ owed = 0 /\ UNCHANGED <<stale, astray>>
         \/ astray' # "none"
  BY LinkAssumption DEF LeftOwing

\* The modes leave a stream that is in step, or say why it is not.
LEMMA StreamModes ==
  ASSUME StreamInv, LinkInv, ModeStep
  PROVE  StreamInv'
<1>0. /\ TypeOK /\ ModeShape /\ OpTyped /\ HandleInv /\ op.phase \in ModePhases
      /\ store = "redis" /\ store' = store /\ handle' = handle
  BY ModeFrame DEF LinkInv, ShapeInv, StreamInv
<1>1. handle
  <2>1. op # Idle
    BY <1>0 DEF Idle, ModePhases
  <2> QED
    BY <1>0, <2>1 DEF HandleInv
<1>2. stale \in 0..MaxStale /\ MaxStale \in Nat /\ op.owed \in Nat
  BY <1>0, LinkAssumption DEF TypeOK
<1>3. ASSUME op.phase # "lines", LinkUp, mismatched' = mismatched \/ Read, InPlace, feed' = feed
      PROVE  StreamInv'
  BY <1>0, <1>1, <1>3, StreamRead DEF LinkUp, Read, InPlace
<1>4. CASE LinkLost /\ InPlace /\ mismatched' = mismatched /\ feed' = feed
  BY <1>0, <1>4, StreamLost DEF LinkLost, InPlace
<1>5. ASSUME op.phase # "lines", Read, feed' = feed, NEW reason \in {"pipeline", "types"},
             NEW owed \in Nat, LeftOwing(reason, owed)
      PROVE  StreamInv'
  <2>1. CASE owed = 0 /\ UNCHANGED <<stale, astray>>
    BY <1>3, <1>5, <2>1 DEF Read, InPlace
  <2>2. CASE astray' # "none"
    BY <1>0, <1>1, <2>2 DEF StreamInv, StreamKept
  <2> QED
    BY <1>2, <1>5, <2>1, <2>2, OwingNoted
<1>6. CASE ScanListed \/ PipelineReply \/ KeysTotalled \/ BatchScanned \/ TypeRead \/ SizeRead
           \/ CursorMoved \/ StatReply
  BY <1>3, <1>6
  DEF ScanListed, PipelineReply, KeysTotalled, BatchScanned, TypeRead, SizeRead, CursorMoved, StatReply,
      In, At, Read, Harmless
<1>7. CASE PipelineStops \/ TypesStop
  <2>1. op.owed - 1 \in Nat /\ op.phase # "lines" /\ feed' = feed
    BY <1>0, <1>2, <1>7 DEF PipelineStops, TypesStop, In, At, ModeShape, Harmless
  <2> QED
    BY <1>4, <1>5, <1>7, <2>1 DEF PipelineStops, TypesStop, Refused
<1>8. CASE KeysCounted
  <2>1. op.owed = 0 /\ op.phase # "lines" /\ feed' = feed
    BY <1>0, <1>8 DEF KeysCounted, At, ModeShape, Harmless
  <2>2. InPlace
    BY <1>2, <1>8, <2>1 DEF KeysCounted, LeftOwing, InPlace
  <2> QED
    BY <1>3, <1>4, <1>8, <2>1, <2>2 DEF KeysCounted, Read
<1>9. CASE Ping \/ StatHead
  <2>1. op.phase # "lines" /\ feed' = feed /\ InPlace /\ (mismatched' = mismatched \/ Read)
        /\ (link' = link \/ LinkUp)
    BY <1>9 DEF Ping, StatHead, In, At, Harmless, Read
  <2>2. CASE Read
    BY <1>3, <2>1, <2>2 DEF Read
  <2>3. CASE mismatched' = mismatched /\ link' = link
    BY <1>0, <2>1, <2>3, StreamRead DEF InPlace
  <2> QED
    BY <2>1, <2>2, <2>3 DEF Read, LinkUp
<1>10. CASE StatRetries \/ PingFails
  BY <1>4, <1>10 DEF StatRetries, PingFails, Harmless
<1>11. CASE PhaseFails
  BY <1>3, <1>4, <1>11 DEF PhaseFails, RefusedPhases, Refused, Harmless, Read
<1>12. CASE FirstReply \/ (Synced /\ op.name = "slave")
  <2>1. op.phase # "lines" /\ Read /\ InPlace /\ op' = [op EXCEPT !.phase = "lines"]
    BY <1>12 DEF FirstReply, Synced, In, At, InPlace
  <2>2. op'.phase = "lines"
    BY <1>0, <2>1 DEF OpTyped
  <2>3. mismatched' => astray' # "none"
    <3>1. CASE astray = "none"
      <4>1. link = "up" /\ mismatched' = (mismatched \/ stale > 0)
        BY <2>1 DEF Read, LinkUp
      <4>2. stale = 0 /\ mismatched = FALSE
        BY <1>0, <2>1, <3>1, <4>1, StreamClear
      <4>3. ~(stale > 0)
        BY <4>2
      <4> QED
        BY <4>1, <4>2, <4>3
    <3>2. CASE astray # "none"
      BY <2>1, <3>2 DEF InPlace
    <3> QED
      BY <3>1, <3>2
  <2> QED
    BY <1>0, <1>1, <2>2, <2>3 DEF StreamInv, StreamKept
<1>13. CASE astray' = "feed"
  BY <1>0, <1>1, <1>13 DEF StreamInv, StreamKept
<1>14. CASE LineRead /\ op' = op /\ astray' = astray
  <2>1. mismatched' = mismatched /\ op.phase = "lines"
    BY <1>14 DEF LineRead, In, At
  <2> QED
    BY <1>0, <1>1, <1>14, <2>1 DEF StreamInv, StreamKept
<1>15. CASE TransferFails
  <2>1. astray' = IF 1 > 0 THEN "feed" ELSE astray
    BY <1>15 DEF TransferFails, LeftOwing
  <2> QED
    BY <1>13, <2>1
<1> QED
  BY <1>6, <1>7, <1>8, <1>9, <1>10, <1>11, <1>12, <1>13, <1>14, <1>15
  DEF ModeStep, Synced, LineRead, SlaveLeaves

\* At the beginning nothing is on the stream.
LEMMA InitStream == LinkInit => StreamInv
<1> SUFFICES ASSUME LinkInit PROVE StreamInv
  OBVIOUS
<1>1. op.phase = "idle"
  BY DEF LinkInit, ConnectionInit, Idle
<1>2. stale = 0 /\ mismatched = FALSE /\ feed = FALSE /\ astray = "none"
  BY DEF LinkInit, ConnectionInit
<1> QED
  BY <1>1, <1>2 DEF StreamInv, StreamKept, ModePhases

\* Every step keeps the stream in step.
LEMMA StreamStep == LinkInv /\ StreamInv /\ [LinkNext]_linkAllVars => StreamInv'
<1> SUFFICES ASSUME LinkInv, StreamInv, [LinkNext]_linkAllVars PROVE StreamInv'
  OBVIOUS
<1>0. TypeOK /\ HandleInv /\ ShapeInv /\ StoredTyped /\ ModeShape
  BY DEF LinkInv, TypeOK, StoredTyped
<1>a. Idle.phase \notin ModePhases /\ Idle.phase # "lines" /\ "calls" \notin ModePhases
      /\ "lines" \in ModePhases
  BY DEF Idle, ModePhases
<1>b. feed \in BOOLEAN /\ mismatched \in BOOLEAN /\ handle \in BOOLEAN /\ stale \in Nat
  BY <1>0, LinkAssumption DEF TypeOK
<1>c. feed => handle
  BY DEF StreamInv
<1>1. CASE UNCHANGED <<store, handle, link, stale, mismatched, feed, astray, op>>
  BY <1>1 DEF StreamInv, StreamKept
<1>2. CASE Methods /\ LinkAsk
  <2>1. /\ op = Idle /\ op'.phase = "calls"
        /\ UNCHANGED <<store, handle, link, stale, mismatched>>
    BY <1>2, StartFrame DEF linkVars, streamVars
  <2>2. feed' = feed /\ astray' = astray
    BY <1>2, <1>b, <1>c, <2>1 DEF LinkAsk, StreamInv
  <2> QED
    BY <1>0, <1>a, <2>1, <2>2, StreamRead
<1>3. CASE ConnectAgain /\ LinkAsk
  <2>1. /\ op = Idle /\ Greet /\ UNCHANGED <<store, handle, link, stale, mismatched>>
    BY <1>3 DEF ConnectAgain, Asked, linkVars, streamVars
  <2>2. feed' = feed /\ astray' = astray
    BY <1>3, <1>b, <1>c, <2>1 DEF LinkAsk, StreamInv
  <2>3. op'.phase \notin ModePhases
    BY <1>a, <2>1, GreetShapes
  <2> QED
    BY <1>0, <1>a, <2>1, <2>2, <2>3, StreamRead
<1>4. CASE ConnectOpens /\ LinkAsk
  <2>1. /\ op = Idle /\ Greet /\ store' = store /\ ~IsConnected /\ handle' = TRUE
        /\ stale' = 0 /\ mismatched' = FALSE
    BY <1>4 DEF ConnectOpens, Asked, FreshStream
  <2>2. feed = FALSE
    BY <1>b, <2>1 DEF IsConnected, StreamInv
  <2>3. feed' = FALSE /\ astray' = astray
    BY <1>4, <2>1, <2>2 DEF LinkAsk
  <2>4. op'.phase \notin ModePhases
    BY <1>a, <2>1, GreetShapes
  <2> QED
    BY <2>1, <2>3, <2>4 DEF StreamInv, StreamKept
<1>5. CASE Freed /\ op'.phase \notin ModePhases /\ feed' = (feed /\ handle')
           /\ astray' = (IF handle' THEN astray ELSE "none")
  BY <1>5, StreamFreed DEF Freed, FreshStream
<1>6. CASE Disconnect /\ LinkAsk
  BY <1>5, <1>6, <1>a DEF Disconnect, LinkAsk, Asked
<1>7. CASE (ConnectFails \/ TestOpens \/ ProbeStarts) /\ LinkAsk
  <2>1. UNCHANGED <<store, handle, link, stale, mismatched, op>>
    BY <1>7 DEF ConnectFails, TestOpens, ProbeStarts, streamVars
  <2>2. feed' = feed /\ astray' = astray
    BY <1>7, <1>b, <1>c, <2>1 DEF LinkAsk, StreamInv
  <2> QED
    BY <1>1, <2>1, <2>2
<1>8. CASE (CallAnswered \/ CallRefused \/ CallFails) /\ LinkStep
  <2>1. op.phase = "calls" /\ store' = store /\ handle' = handle /\ stale' = stale
    BY <1>8, CallFrame
  <2>2. handle = TRUE
    BY <1>0, <1>b, <2>1 DEF HandleInv, Idle
  <2>3. feed' = feed /\ astray' = astray
    BY <1>8, <1>b, <2>1, <2>2 DEF LinkStep
  <2>4. op'.phase \notin ModePhases
    BY <1>0, <1>8, <1>a, AnswerFields, PassedFields
    DEF CallAnswered, CallRefused, CallFails, Ends, GoesOn
  <2>5. CASE CallFails
    BY <2>1, <2>3, <2>4, <2>5, StreamLost DEF CallFails, streamVars
  <2>6. CASE CallAnswered \/ CallRefused
    <3>1. link' = link /\ mismatched' = (mismatched \/ stale > 0) /\ (store \in Remote => link = "up")
      BY <2>6 DEF CallAnswered, CallRefused, Reading, linkVars
    <3> QED
      BY <1>0, <1>a, <2>1, <2>2, <2>3, <2>4, <3>1, StreamRead
  <2> QED
    BY <1>8, <2>5, <2>6
<1>9. CASE Returns /\ LinkStep
  <2>1. op.phase = "calls" /\ op' = Idle /\ UNCHANGED <<store, handle, link, stale, mismatched>>
    BY <1>9 DEF Returns, linkVars, streamVars
  <2>2. feed' = feed /\ astray' = astray
    BY <1>9, <1>b, <1>c, <2>1 DEF LinkStep, StreamInv
  <2> QED
    BY <1>0, <1>a, <2>1, <2>2, StreamRead
<1>10. CASE QuitReturns /\ LinkStep
  BY <1>5, <1>10, <1>a DEF QuitReturns, LinkStep
<1>11. CASE LinkProbe \/ Interrupt \/ UNCHANGED linkAllVars
  BY <1>1, <1>11
  DEF LinkProbe, ProbeStep, ProbeAnswered, ProbeFails, ProbeReturns, ProbeFreed, Interrupt,
      linkAllVars, connectionVars, linkVars, streamVars
<1>12. CASE Push
  <2>1. feed /\ UNCHANGED <<store, handle, link, op, mismatched, feed, astray>>
    BY <1>12 DEF Push, linkVars
  <2> QED
    BY <2>1 DEF StreamInv, StreamKept
<1>13. CASE Modes \/ LoadContent \/ Listen
  <2>1. /\ op = Idle /\ store = "redis"
        /\ UNCHANGED <<store, handle, link, stale, mismatched, feed, astray>>
    BY <1>13 DEF Modes, LoadContent, Listen, AskMode, Asked, linkVars, streamVars
  <2> QED
    BY <1>0, <1>a, <2>1, StreamRead
<1>14. CASE ModeStep
  BY <1>14, StreamModes
<1> QED
  BY <1>2, <1>3, <1>4, <1>6, <1>7, <1>8, <1>9, <1>10, <1>11, <1>12, <1>13, <1>14
  DEF LinkNext, LinkAsk, LinkStep, Ask, Step, Methods

\* At the beginning there is no pipeline.
LEMMA InitPipe == LinkInit => PipeInv
  BY DEF LinkInit, ConnectionInit, Idle, NoPipe, PipeInv, FiledRight

\* While no command was left out, the answer to the first command sent is the next to
\* be filed.
LEMMA FiledInOrder ==
  ASSUME PipeTyped, PipeInv, Filed, op.phase = "replies", op.owed \in Nat, op.owed > 0
  PROVE  /\ pipe'.skipped = pipe.skipped
         /\ ~pipe.skipped => /\ ~pipe'.misfiled
                             /\ pipe'.sent = pipe'.filed + 1 .. pipe'.filed + (op.owed - 1)
<1>1. PICK x : x = Min(pipe.sent)
  OBVIOUS
<1>2. pipe' = [pipe EXCEPT !.sent = @ \ {x}, !.filed = @ + 1,
                           !.misfiled = @ \/ x # pipe.filed + 1]
  BY <1>1 DEF Filed
<1>3. /\ pipe'.skipped = pipe.skipped /\ pipe'.sent = pipe.sent \ {x} /\ pipe'.filed = pipe.filed + 1
      /\ pipe'.misfiled = (pipe.misfiled \/ x # pipe.filed + 1) /\ pipe.filed \in Nat
  BY <1>2 DEF PipeTyped
<1>4. ASSUME ~pipe.skipped PROVE pipe.sent = pipe.filed + 1 .. pipe.filed + op.owed /\ ~pipe.misfiled
  BY <1>4 DEF PipeInv, FiledRight
<1>5. ASSUME ~pipe.skipped PROVE x = pipe.filed + 1
  <2>1. PICK first : first = pipe.filed + 1
    OBVIOUS
  <2>2. first \in pipe.sent /\ \A y \in pipe.sent : first <= y
    BY <1>3, <1>4, <1>5, <2>1
  <2>3. x \in pipe.sent /\ \A y \in pipe.sent : x <= y
    BY <1>1, <2>2 DEF Min
  <2>4. x <= first /\ first <= x /\ x \in Nat /\ first \in Nat
    BY <1>3, <2>1, <2>2, <2>3 DEF PipeTyped
  <2> QED
    BY <2>1, <2>4
<1>6. ASSUME ~pipe.skipped PROVE pipe'.sent = pipe'.filed + 1 .. pipe'.filed + (op.owed - 1)
  BY <1>3, <1>4, <1>5, <1>6
<1> QED
  BY <1>3, <1>4, <1>5, <1>6

\* Every step files its answer under the command it answers, while none was left out.
LEMMA PipeStep == LinkInv /\ PipeInv /\ [LinkNext]_linkAllVars => PipeInv'
<1> SUFFICES ASSUME LinkInv, PipeInv, [LinkNext]_linkAllVars PROVE PipeInv'
  OBVIOUS
<1>0. PipeTyped /\ OpTyped /\ ModeShape /\ op.owed \in Nat
  BY DEF LinkInv, TypeOK, PipeTyped, ShapeInv
<1>1. CASE pipe' \in {pipe, NoPipe} /\ op'.phase # "replies"
  BY <1>1 DEF PipeInv, FiledRight, NoPipe
<1>2. CASE pipe' = pipe /\ op' = op
  BY <1>2 DEF PipeInv, FiledRight
<1>3. CASE ScanListed
  <2>1. CASE /\ pipe'.sent \in SUBSET Nat /\ op'.owed \in Nat
             /\ ~pipe'.skipped => pipe'.sent = 1 .. op'.owed
             /\ pipe' = [sent |-> pipe'.sent, filed |-> 0, skipped |-> pipe'.skipped, misfiled |-> FALSE]
             /\ pipe'.skipped \in BOOLEAN
    <3>1. pipe'.filed = 0 /\ pipe'.misfiled = FALSE
      BY <2>1
    <3> QED
      BY <2>1, <3>1 DEF PipeInv, FiledRight
  <2> QED
    BY <1>0, <1>1, <1>3, <2>1, ListedPipe
<1>4. CASE PipelineReply
  <2>1. Filed /\ op.phase = "replies" /\ op.owed > 0
    BY <1>0, <1>4 DEF PipelineReply, At, ModeShape
  <2>2. /\ pipe'.skipped = pipe.skipped
        /\ ~pipe.skipped => /\ ~pipe'.misfiled
                            /\ pipe'.sent = pipe'.filed + 1 .. pipe'.filed + (op.owed - 1)
    BY <1>0, <2>1, FiledInOrder
  <2>3. op'.phase = "replies" => op'.owed = op.owed - 1
    BY <1>0, <1>4 DEF PipelineReply, OpTyped
  <2> QED
    BY <2>2, <2>3 DEF PipeInv, FiledRight
<1> QED
  BY <1>0, <1>1, <1>2, <1>3, <1>4, OtherPipes, PipeFrame

\* Every answer of a redis server is read by the command it answers and filed under it,
\* for any mix of commands, pipelines, modes and lost links.  Excluded, and only these:
\* a pipeline or a batch of types stopped early, the server was left sending, or a
\* command of the running pipeline was left out because it could not be split.
THEOREM StreamInStep == LinkSpec => []InStep
<1>1. StreamInv /\ PipeInv => InStep
  BY DEF StreamInv, PipeInv, InStep
<1> QED
  BY <1>1, InitLink, LinkTypeStep, InitStream, StreamStep, InitPipe, PipeStep, PTL DEF LinkSpec

-----------------------------------------------------------------------------
(* What the client was told. *)

AgreesOutside == \A k \in Keys \ (unsure \cup op.touched) : Agrees(k)

\* No method, or one that has done nothing yet, has come nowhere.
LEMMA FreshProgress == Fresh => Progress'
<1> SUFFICES ASSUME Fresh PROVE Progress'
  OBVIOUS
<1>1. op'.phase # "calls" /\ op'.touched = {} /\ op'.named = {}
  BY DEF Fresh, FirstPhases
<1> QED
  BY <1>1 DEF Progress

\* A method that begins has touched nothing yet.
LEMMA BeginsProgress == Begins => Progress'
<1> SUFFICES ASSUME Begins PROVE Progress'
  OBVIOUS
<1>1. op'.name = "Rename" => RenameProgress'
  BY DEF Begins, RenameProgress
<1> QED
  BY <1>1 DEF Begins, Progress, Quiet

\* The data is as it was, and the running method has done nothing.
LEMMA TellKept ==
  ASSUME TellInv, UNCHANGED dataVars, mismatched' = mismatched, op.touched = {}, op'.touched = {},
         Progress'
  PROVE  TellInv'
  BY DEF TellInv, Agrees, dataVars

\* A new stream: if the old one was out of step, nothing the client knows is sure.
LEMMA TellFresh ==
  ASSUME TellInv, FreshStream, mismatched \in BOOLEAN, unsure \subseteq Keys,
         ~mismatched => op.touched = {}, op'.touched = {}, Progress'
  PROVE  TellInv'
<1>1. CASE mismatched
  BY <1>1 DEF FreshStream, TellInv
<1>2. CASE ~mismatched
  BY <1>2 DEF FreshStream, TellInv, Agrees
<1> QED
  BY <1>1, <1>2

\* The store after the calls of the methods that report what they did.
LEMMA CallResults ==
  ASSUME stored' \in Results
  PROVE  /\ Call \in {"get", "expire", "pass", "list", "auth"} => stored' = stored
         /\ Call = "put" => stored' = [stored EXCEPT ![op.target] = op.value]
         /\ Call = "del" => stored' = Emptied({Key})
         /\ Call = "rename" => stored' = [Emptied({Key}) EXCEPT ![op.target] = stored[Key]]
         /\ Call \in {"flush", "sweep"} => stored' = Emptied(Keys)
  BY DEF Results

\* The keys that no step of this call changed are still right.
LEMMA AgreesAnswered ==
  ASSUME AgreesOutside, told' = told, unsure' = unsure, op'.touched = op.touched \cup Changed
  PROVE  AgreesOutside'
<1> SUFFICES ASSUME NEW k \in Keys, k \notin unsure', k \notin op'.touched PROVE Agrees(k)'
  BY DEF AgreesOutside
<1>1. stored'[k] = stored[k] /\ Agrees(k)
  BY DEF AgreesOutside, Changed
<1> QED
  BY <1>1 DEF Agrees

\* A refused call makes unsure what it may have changed.
LEMMA AgreesRefused ==
  ASSUME AgreesOutside, told' = told,
         \/ unsure' = unsure \cup op.touched \cup Changed
         \/ unsure' = unsure \cup Changed /\ op'.touched = op.touched
  PROVE  AgreesOutside'
<1> SUFFICES ASSUME NEW k \in Keys, k \notin unsure', k \notin op'.touched PROVE Agrees(k)'
  BY DEF AgreesOutside
<1>1. stored'[k] = stored[k] /\ Agrees(k)
  BY DEF AgreesOutside, Changed
<1> QED
  BY <1>1 DEF Agrees

\* An error that a method ignores.
LEMMA ProgressPassed ==
  ASSUME StoredTyped, ShapeInv, Progress, Calling, op' = Passed, stored' \in Results \cup Remains,
         Tolerates(TRUE) \/ Tolerates(FALSE)
  PROVE  Progress'
<1>1. /\ op'.phase = "calls" /\ op'.name = op.name /\ op'.touched = op.touched /\ op'.named = op.named
  BY PassedFields
<1>2. op.phase = "calls" /\ op.todo # <<>> /\ MethodShape
  BY DEF Calling, ShapeInv
<1>3. op.name \in {"Delete", "Select", "databaseInfo", "Connect", "loadContent", "Quit"}
  BY DEF Tolerates
<1>4. CASE op.name = "Delete"
  <2>1. Call = "del" /\ Key \in Keys
    BY <1>2, <1>4, CallAbout
  <2>2. stored' = stored \/ stored' = Emptied({Key})
    BY <2>1, CallResults DEF Remains
  <2>3. op.named \subseteq Keys
    BY DEF ShapeInv, OpTyped
  <2>4. op.touched \subseteq op.named /\ \A k \in op.named : stored[k] = None
    BY <1>2, <1>4 DEF Progress
  <2>5. \A k \in op.named : stored'[k] = None
    BY <2>2, <2>3, <2>4, EmptiedTyped
  <2> QED
    BY <1>1, <1>4, <2>4, <2>5 DEF Progress, Quiet
<1>5. CASE op.name = "loadContent"
  <2>1. stored' = stored
    BY <1>5, CallResults DEF Tolerates, Remains
  <2> QED
    BY <1>1, <1>2, <1>5, <2>1 DEF Progress, Quiet
<1>6. CASE op.name \in Quiet
  BY <1>1, <1>2, <1>6 DEF Progress, Quiet
<1> QED
  BY <1>3, <1>4, <1>5, <1>6 DEF Quiet

\* An answer: the method is one call further.
LEMMA ProgressAnswered ==
  ASSUME StoredTyped, ShapeInv, Progress, AgreesOutside, CallAnswered
  PROVE  Progress'
<1>1. /\ op'.phase = "calls" /\ op'.name = op.name /\ op'.target = op.target
      /\ op'.todo = Tail(op.todo) /\ op'.touched = op.touched \cup Changed /\ op'.named \in Naming
      /\ op'.keys = (IF op.name = "Delete" THEN Tail(op.keys) ELSE op.keys)
      /\ op'.value = (IF Call = "get" THEN stored[Key] ELSE op.value)
  BY AnswerFields
<1>2. op.phase = "calls" /\ op.todo # <<>> /\ MethodShape /\ stored' \in Results /\ store' = store
      /\ told' = told /\ unsure' = unsure
  BY DEF CallAnswered, Calling, ShapeInv
<1>3. op.name # "Delete" => Key' = Key
  BY <1>1 DEF Key
<1>4. stored' = stored => Changed = {}
  BY DEF Changed
<1>5. CASE op.name \in Quiet
  <2>1. Call \in {"pass", "auth"}
    <3>1. op.todo \in {<<"pass">>, <<"pass", "pass">>, <<"auth", "pass", "pass">>}
      BY <1>2, <1>5 DEF MethodShape, Quiet
    <3> QED
      BY <3>1, Tails DEF Call
  <2>2. op'.touched = {}
    BY <1>1, <1>2, <1>4, <1>5, <2>1, CallResults DEF Progress
  <2> QED
    BY <1>1, <1>5, <2>2 DEF Progress, Quiet
<1>6. CASE op.name = "forward"
  BY <1>1, <1>6 DEF Progress, Quiet
<1>7. CASE op.name = "loadContent"
  <2>1. Call \in {"list", "pass"}
    <3>1. op.todo \in {<<"list", "pass">>, <<"pass">>}
      BY <1>2, <1>7 DEF MethodShape, Quiet
    <3> QED
      BY <3>1, Tails DEF Call
  <2>2. stored' = stored
    BY <1>2, <2>1, CallResults
  <2>3. op.touched = {} /\ \A k \in op.named : stored[k] # None
    BY <1>7 DEF Progress
  <2>4. op'.named = op.named \/ op'.named \subseteq Present
    BY <1>1, <2>1 DEF Naming
  <2>5. \A k \in op'.named : stored'[k] # None
    BY <2>2, <2>3, <2>4 DEF Present
  <2> QED
    BY <1>1, <1>4, <1>7, <2>2, <2>3, <2>5 DEF Progress, Quiet
<1>8. CASE op.name = "Get"
  <2>1. op.todo = <<"get">>
    BY <1>2, <1>8 DEF MethodShape, Quiet
  <2>2. Call = "get" /\ op'.todo = <<>>
    BY <1>1, <2>1, Tails DEF Call
  <2>3. stored' = stored /\ op'.value = stored'[Key'] /\ op'.touched = {}
    BY <1>1, <1>2, <1>3, <1>4, <1>8, <2>2, CallResults DEF Progress, Quiet
  <2> QED
    BY <1>1, <1>8, <2>3 DEF Progress, Quiet
<1>9. CASE op.name = "SetTTL"
  <2>1. op.todo \in {<<"get", "put">>, <<"put">>, <<"expire">>} /\ op.target = Key /\ Key \in Keys
    BY <1>2, <1>9, KeysAbout DEF MethodShape, Quiet
  <2>2. op.touched = {}
    BY <1>2, <1>9 DEF Progress, Quiet
  <2>3. CASE op.todo = <<"get", "put">>
    <3>1. Call = "get"
      BY <2>3, Tails DEF Call
    <3>2. stored' = stored /\ op'.value = stored'[Key'] /\ op'.touched = {}
      BY <1>1, <1>2, <1>3, <1>4, <1>9, <2>2, <3>1, CallResults
    <3> QED
      BY <1>1, <1>9, <3>2 DEF Progress, Quiet
  <2>4. CASE op.todo = <<"put">>
    <3>1. Call = "put" /\ op'.todo = <<>>
      BY <1>1, <2>4, Tails DEF Call
    <3>2. op.value = stored[Key]
      BY <1>2, <1>9, <2>4 DEF Progress, Quiet
    <3>3. stored' = stored
      BY <1>2, <2>1, <3>1, <3>2, CallResults DEF StoredTyped
    <3>4. op'.touched = {} /\ op'.todo # <<"put">>
      <4>1. <<>> # <<"put">>
        OBVIOUS
      <4>2. op'.touched = op.touched \cup Changed
        BY <1>1
      <4> QED
        BY <1>4, <2>2, <3>1, <3>3, <4>1, <4>2
    <3> QED
      BY <1>1, <1>9, <3>4 DEF Progress, Quiet
  <2>5. CASE op.todo = <<"expire">>
    <3>1. Call = "expire" /\ op'.todo = <<>>
      BY <1>1, <2>5, Tails DEF Call
    <3>2. op'.touched = {} /\ op'.todo # <<"put">>
      <4>1. <<>> # <<"put">>
        OBVIOUS
      <4>2. op'.touched = op.touched \cup Changed /\ stored' = stored
        BY <1>1, <1>2, <3>1, CallResults
      <4> QED
        BY <1>4, <2>2, <3>1, <4>1, <4>2
    <3> QED
      BY <1>1, <1>9, <3>2 DEF Progress, Quiet
  <2> QED
    BY <2>1, <2>3, <2>4, <2>5
<1>10. CASE op.name = "Set"
  <2>1. op.todo = <<"put">> /\ op.target = Key /\ Key \in Keys
    BY <1>2, <1>10, KeysAbout DEF MethodShape, Quiet
  <2>2. Call = "put"
    BY <2>1, Tails DEF Call
  <2>3. stored' = [stored EXCEPT ![Key] = op.value]
    BY <1>2, <2>1, <2>2, CallResults
  <2>4. Changed \subseteq {Key} /\ stored'[Key] = op.value
    BY <2>1, <2>3 DEF Changed, StoredTyped
  <2>5. op.touched \subseteq {Key}
    BY <1>2, <1>10 DEF Progress, Quiet
  <2>6. op'.touched \subseteq {Key'} /\ op'.value = stored'[Key']
    BY <1>1, <1>3, <1>10, <2>2, <2>4, <2>5
  <2> QED
    BY <1>1, <1>10, <2>6 DEF Progress, Quiet
<1>11. CASE op.name = "Delete"
  <2>1. Call = "del" /\ Key \in Keys
    BY <1>2, <1>11, CallAbout
  <2>2. stored' = Emptied({Key})
    BY <1>2, <2>1, CallResults
  <2>3. op.named \subseteq Keys
    BY DEF ShapeInv, OpTyped
  <2>4. op.touched \subseteq op.named /\ \A k \in op.named : stored[k] = None
    BY <1>2, <1>11 DEF Progress
  <2>5. /\ op'.named \in {op.named, op.named \cup {Key}}
        /\ stored[Key] # None => op'.named = op.named \cup {Key}
    BY <1>1, <2>1 DEF Naming
  <2>6. Changed \subseteq (IF stored[Key] # None THEN {Key} ELSE {})
    BY <2>1, <2>2, EmptiedTyped DEF Changed
  <2>7. op'.touched \subseteq op'.named
    BY <1>1, <2>4, <2>5, <2>6
  <2>8. \A k \in op'.named : stored'[k] = None
    BY <2>1, <2>2, <2>3, <2>4, <2>5, EmptiedTyped
  <2> QED
    BY <1>1, <1>11, <2>7, <2>8 DEF Progress, Quiet
<1>12. CASE op.name = "clearDatabase"
  <2>1. ASSUME store' \notin KeepsSome PROVE \A k \in Keys : stored'[k] = None
    <3>1. op.todo \in {<<"sweep">>, <<"flush">>}
      BY <1>2, <1>12, <2>1 DEF MethodShape, Quiet
    <3>2. Call \in {"flush", "sweep"}
      BY <3>1, Tails DEF Call
    <3> QED
      BY <1>2, <3>2, CallResults, EmptiedTyped
  <2> QED
    BY <1>1, <1>12, <2>1 DEF Progress, Quiet
<1>13. CASE op.name = "Rename"
  <2>1. /\ op.todo \in {<<"get", "del", "put">>, <<"del", "put">>, <<"put">>, <<"rename">>}
        /\ op.target \in Keys /\ Key \in Keys
    BY <1>2, <1>13, KeysAbout DEF MethodShape, Quiet
  <2>2. RenameProgress
    BY <1>2, <1>13 DEF Progress
  <2>3. Key' = Key /\ op'.target = op.target
    BY <1>1, <1>3, <1>13
  <2>a. <<"put">> # <<>> /\ <<"put">> # <<"rename">> /\ <<"del", "put">> # <<>> /\ <<"del", "put">> # <<"put">>
        /\ <<"put">> # <<"get", "del", "put">> /\ <<>> # <<"get", "del", "put">> /\ <<>> # <<"rename">>
        /\ <<"del", "put">> # <<"rename">> /\ <<"del", "put">> # <<"get", "del", "put">>
    OBVIOUS
  <2>4. ASSUME op.touched = {} PROVE Carries(stored[Key])
    BY <2>1, <2>4 DEF Carries, AgreesOutside, Agrees
  <2>5. CASE op.todo = <<"get", "del", "put">>
    <3>1. Call = "get" /\ op'.todo = <<"del", "put">> /\ op.touched = {}
      <4>1. Tail(<<"get", "del", "put">>) = <<"del", "put">> /\ Head(<<"get", "del", "put">>) = "get"
        OBVIOUS
      <4> QED
        BY <1>1, <2>2, <2>5, <4>1 DEF Call, RenameProgress
    <3>2. stored' = stored /\ op'.value = stored'[Key'] /\ op'.touched = {}
      BY <1>1, <1>2, <1>4, <2>3, <3>1, CallResults
    <3>3. RenameProgress'
      BY <2>a, <3>1, <3>2 DEF RenameProgress
    <3> QED
      BY <1>1, <1>13, <3>3 DEF Progress, Quiet
  <2>6. CASE op.todo = <<"del", "put">>
    <3>1. Call = "del" /\ op'.todo = <<"put">>
      BY <1>1, <2>6, Tails DEF Call
    <3>2. op.touched = {} /\ op.value = stored[Key]
      BY <2>2, <2>6 DEF RenameProgress
    <3>3. stored' = Emptied({Key}) /\ op'.value = op.value
      BY <1>1, <1>2, <3>1, CallResults
    <3>4. Changed \subseteq {Key} /\ stored'[Key] = None
      BY <2>1, <3>3, EmptiedTyped DEF Changed
    <3>5. op'.touched \subseteq {Key'} /\ stored'[Key'] = None
      BY <1>1, <2>3, <3>2, <3>4
    <3>6. Carries(op.value)
      BY <2>4, <3>2
    <3>7. /\ Key' \notin unsure' => told'[Key'] = op'.value \/ (told'[Key'] = Named /\ op'.value # None)
      BY <1>2, <2>3, <3>3, <3>6 DEF Carries
    <3>8. RenameProgress'
      BY <2>a, <3>1, <3>5, <3>7 DEF RenameProgress, Carries
    <3> QED
      BY <1>1, <1>13, <3>8 DEF Progress, Quiet
  <2>7. CASE op.todo = <<"put">>
    <3>1. Call = "put" /\ op'.todo = <<>>
      BY <1>1, <2>7, Tails DEF Call
    <3>2. op.touched \subseteq {Key} /\ stored[Key] = None /\ Carries(op.value)
      BY <2>2, <2>7 DEF RenameProgress
    <3>3. stored' = [stored EXCEPT ![op.target] = op.value]
      BY <1>2, <3>1, CallResults
    <3>4. /\ Changed \subseteq {op.target} /\ stored'[op.target] = op.value
          /\ op.target # Key => stored'[Key] = None
      BY <2>1, <3>2, <3>3 DEF Changed, StoredTyped
    <3>5. /\ op'.touched \subseteq {Key', op'.target} /\ stored'[op'.target] = op.value
          /\ op'.target # Key' => stored'[Key'] = None
      BY <1>1, <2>3, <3>2, <3>4
    <3>6. Key' \notin unsure' => told'[Key'] = stored'[op'.target]
                                 \/ (told'[Key'] = Named /\ stored'[op'.target] # None)
      BY <1>2, <2>3, <3>2, <3>5 DEF Carries
    <3>7. RenameProgress'
      BY <2>a, <3>1, <3>5, <3>6 DEF RenameProgress, Carries
    <3> QED
      BY <1>1, <1>13, <3>7 DEF Progress, Quiet
  <2>8. CASE op.todo = <<"rename">>
    <3>1. Call = "rename" /\ op'.todo = <<>>
      BY <1>1, <2>8, Tails DEF Call
    <3>2. op.touched = {} /\ Carries(stored[Key])
      BY <2>2, <2>4, <2>8 DEF RenameProgress
    <3>3. stored' = [Emptied({Key}) EXCEPT ![op.target] = stored[Key]]
      BY <1>2, <3>1, CallResults
    <3>4. /\ Changed \subseteq {Key, op.target} /\ stored'[op.target] = stored[Key]
          /\ op.target # Key => stored'[Key] = None
      <4>1. /\ Emptied({Key}) \in [Keys -> Values \cup {None}]
            /\ \A k \in Keys : Emptied({Key})[k] = IF k \in {Key} THEN None ELSE stored[k]
        BY EmptiedTyped
      <4> QED
        BY <2>1, <3>3, <4>1 DEF Changed
    <3>5. /\ op'.touched \subseteq {Key', op'.target} /\ stored'[op'.target] = stored[Key]
          /\ op'.target # Key' => stored'[Key'] = None
      BY <1>1, <2>3, <3>2, <3>4
    <3>6. Key' \notin unsure' => told'[Key'] = stored'[op'.target]
                                 \/ (told'[Key'] = Named /\ stored'[op'.target] # None)
      BY <1>2, <2>3, <3>2, <3>5 DEF Carries
    <3>7. RenameProgress'
      BY <2>a, <3>1, <3>5, <3>6 DEF RenameProgress, Carries
    <3> QED
      BY <1>1, <1>13, <3>7 DEF Progress, Quiet
  <2> QED
    BY <2>1, <2>5, <2>6, <2>7, <2>8
<1> QED
  BY <1>2, <1>5, <1>6, <1>7, <1>8, <1>9, <1>10, <1>11, <1>12, <1>13 DEF MethodShape

\* The end of a method leaves the client right about every key it is not in doubt of.
LEMMA AgreesReturned ==
  ASSUME DataTyped, ShapeInv, Progress, AgreesOutside, Returns
  PROVE  \A k \in Keys \ unsure' : Agrees(k)'
<1>1. /\ op.phase = "calls" /\ op.todo = <<>> /\ MethodShape /\ stored' = stored /\ told' = Told
      /\ unsure' = (unsure \ Sure) \cup Doubt
  BY DEF Returns, ShapeInv
<1>2. ToldTyped /\ StoredTyped
  BY DEF DataTyped
<1> SUFFICES ASSUME NEW k \in Keys, k \notin unsure' PROVE Agrees(k)'
  OBVIOUS
<1>3. k \notin Doubt /\ (k \in Sure \/ k \notin unsure)
  BY <1>1
<1>4. ASSUME told'[k] = told[k], k \notin unsure, k \notin op.touched PROVE Agrees(k)'
  BY <1>1, <1>4 DEF AgreesOutside, Agrees
<1>5. ASSUME told'[k] = stored[k] PROVE Agrees(k)'
  BY <1>1, <1>5 DEF Agrees
<1>6. CASE op.name \in {"Set", "Get"}
  <2>1. Key \in Keys /\ Sure = {Key} /\ told' = [told EXCEPT ![Key] = op.value]
    BY <1>1, <1>6, KeysAbout DEF Sure, Told
  <2>2. op.touched \subseteq {Key} /\ op.value = stored[Key]
    BY <1>1, <1>6 DEF Progress, Quiet
  <2>3. CASE k = Key
    BY <1>2, <1>5, <2>1, <2>2, <2>3 DEF ToldTyped
  <2>4. CASE k # Key
    BY <1>2, <1>3, <1>4, <2>1, <2>2, <2>4 DEF ToldTyped
  <2> QED
    BY <2>3, <2>4
<1>7. CASE op.name = "Delete"
  <2>1. Sure = op.named /\ told' = [x \in Keys |-> IF x \in op.named THEN None ELSE told[x]]
    BY <1>1, <1>7 DEF Sure, Told
  <2>2. op.touched \subseteq op.named /\ \A x \in op.named : stored[x] = None
    BY <1>1, <1>7 DEF Progress, Quiet
  <2>3. CASE k \in op.named
    BY <1>5, <2>1, <2>2, <2>3
  <2>4. CASE k \notin op.named
    BY <1>3, <1>4, <2>1, <2>2, <2>4
  <2> QED
    BY <2>3, <2>4
<1>8. CASE op.name = "Rename"
  <2>1. /\ Key \in Keys /\ op.target \in Keys /\ Sure = {Key, op.target}
        /\ told' = [[told EXCEPT ![Key] = None] EXCEPT ![op.target] = told[Key]]
    BY <1>1, <1>8, KeysAbout DEF Sure, Told
  <2>2. /\ op.touched \subseteq {Key, op.target} /\ (op.target # Key => stored[Key] = None)
        /\ Carries(stored[op.target])
    BY <1>1, <1>8 DEF Progress, RenameProgress
  <2>3. CASE k = op.target
    <3>1. told'[k] = told[Key]
      BY <1>2, <2>1, <2>3 DEF ToldTyped
    <3>2. Key \notin unsure
      BY <1>3, <1>8, <2>3 DEF Doubt
    <3> QED
      BY <1>1, <2>2, <2>3, <3>1, <3>2 DEF Carries, Agrees
  <2>4. CASE k = Key /\ k # op.target
    <3>1. told'[k] = None
      BY <1>2, <2>1, <2>4 DEF ToldTyped
    <3> QED
      BY <1>5, <2>2, <2>4, <3>1
  <2>5. CASE k \notin {Key, op.target}
    <3>1. told'[k] = told[k]
      BY <1>2, <2>1, <2>5 DEF ToldTyped
    <3> QED
      BY <1>3, <1>4, <2>1, <2>2, <2>5, <3>1
  <2> QED
    BY <2>3, <2>4, <2>5
<1>9. CASE op.name = "loadContent"
  <2>1. /\ Sure = {x \in op.named : told[x] = None}
        /\ told' = [x \in Keys |-> IF x \in op.named /\ told[x] = None THEN Named ELSE told[x]]
    BY <1>1, <1>9 DEF Sure, Told
  <2>2. op.touched = {} /\ \A x \in op.named : stored[x] # None
    BY <1>9 DEF Progress
  <2>3. CASE k \in Sure
    BY <1>1, <2>1, <2>2, <2>3 DEF Agrees
  <2>4. CASE k \notin Sure
    BY <1>3, <1>4, <2>1, <2>2, <2>4
  <2> QED
    BY <2>3, <2>4
<1>10. CASE op.name = "clearDatabase"
  <2>1. told' = [x \in Keys |-> None]
    BY <1>1, <1>10 DEF Told
  <2>2. store \notin KeepsSome
    BY <1>3, <1>10 DEF Doubt
  <2>3. stored[k] = None
    BY <1>1, <1>10, <2>2 DEF Progress, Quiet
  <2> QED
    BY <1>5, <2>1, <2>3
<1>11. CASE op.name \in Quiet \cup {"SetTTL", "forward"}
  <2>1. told' = told /\ Sure = {}
    BY <1>1, <1>11 DEF Sure, Told, Quiet
  <2>2. k \notin op.touched
    <3>1. CASE op.name = "forward"
      BY <1>3, <3>1 DEF Doubt
    <3>2. CASE op.name # "forward"
      BY <1>1, <1>11, <3>2 DEF Progress
    <3> QED
      BY <3>1, <3>2
  <2> QED
    BY <1>3, <1>4, <2>1, <2>2
<1> QED
  BY <1>1, <1>6, <1>7, <1>8, <1>9, <1>10, <1>11 DEF MethodShape

\* The modes change no key, and tell of keys that exist.
LEMMA TellModes ==
  ASSUME LinkInv, TellInv, ModeStep
  PROVE  TellInv'
<1>0. /\ TypeOK /\ ModeShape /\ OpTyped /\ op.phase \in ModePhases /\ stored' = stored
  BY ModeFrame DEF LinkInv, ShapeInv
<1>1. op.phase # "calls"
  BY <1>0 DEF ModePhases
<1>2. mismatched' = mismatched \/ mismatched' = (mismatched \/ stale > 0)
  BY DEF ModeStep, ScanListed, PipelineReply, PipelineStops, KeysCounted, KeysTotalled, BatchScanned,
         TypeRead, TypesStop, SizeRead, CursorMoved, Ping, PingFails, StatHead, StatReply, StatRetries,
         FirstReply, Synced, TransferFails, LineRead, SlaveLeaves, PhaseFails, Refused, Read,
        streamVars
<1>3. Untold \/ KeysTold
  BY DEF ModeStep, ScanListed, PipelineReply, PipelineStops, KeysCounted, KeysTotalled, BatchScanned,
         TypeRead, TypesStop, SizeRead, CursorMoved, Ping, PingFails, StatHead, StatReply, StatRetries,
         FirstReply, Synced, TransferFails, LineRead, SlaveLeaves, PhaseFails
<1> SUFFICES ASSUME ~mismatched' PROVE AgreesOutside' /\ Progress'
  BY DEF TellInv, AgreesOutside
<1>4. AgreesOutside /\ Progress
  BY <1>2 DEF TellInv, AgreesOutside
<1>5. op.touched = {} /\ \A k \in op.named : stored[k] # None
  BY <1>1, <1>4 DEF Progress
<1>6. \A k \in Keys \ unsure' : Agrees(k)'
  <2>1. CASE Untold
    BY <1>0, <1>4, <1>5, <2>1 DEF Untold, AgreesOutside, Agrees
  <2>2. CASE KeysTold
    <3> SUFFICES ASSUME NEW k \in Keys, k \notin unsure' PROVE Agrees(k)'
      OBVIOUS
    <3>1. told'[k] = IF k \in op.named /\ told[k] = None THEN Named ELSE told[k]
      BY <2>2 DEF KeysTold
    <3>2. CASE k \in op.named /\ told[k] = None
      BY <1>0, <1>5, <3>1, <3>2 DEF Agrees
    <3>3. CASE ~(k \in op.named /\ told[k] = None)
      BY <1>0, <1>4, <1>5, <2>2, <3>1, <3>3 DEF KeysTold, AgreesOutside, Agrees
    <3> QED
      BY <3>2, <3>3
  <2> QED
    BY <1>3, <2>1, <2>2
<1>7. AgreesOutside'
  BY <1>6 DEF AgreesOutside
<1>8. CASE Left
  BY <1>0, <1>7, <1>8, LeftFresh, FreshProgress
<1>9. CASE ModeMoved
  <2>1. PICK phase \in ModePhases, named \in SUBSET Keys, owed \in Nat, scans \in 0..MaxScans :
          Moves(phase, named, owed, scans) /\ (named = op.named \/ named \subseteq Present)
    BY <1>9 DEF ModeMoved
  <2>2. op'.phase = phase /\ op'.named = named /\ op'.touched = op.touched
    BY <1>0, <2>1, MovedFields
  <2>3. op'.phase # "calls" /\ op'.touched = {}
    BY <1>5, <2>2 DEF ModePhases
  <2>4. \A k \in op'.named : stored'[k] # None
    BY <1>0, <1>5, <2>1, <2>2 DEF Present
  <2> QED
    BY <1>7, <2>3, <2>4 DEF Progress
<1> QED
  BY <1>0, <1>8, <1>9, ModeMoves

\* A call and the end of a method keep what is told in step with what is stored.
LEMMA TellCalls ==
  ASSUME LinkInv, TellInv, CallAnswered \/ CallRefused \/ CallFails
  PROVE  TellInv'
<1>0. TypeOK /\ ShapeInv /\ StoredTyped /\ OpTyped
  BY DEF LinkInv, TypeOK, StoredTyped, ShapeInv
<1>1. Calling /\ told' = told
  BY DEF CallAnswered, CallRefused, CallFails, Ends, GoesOn
<1> SUFFICES ASSUME ~mismatched' PROVE AgreesOutside' /\ Progress'
  BY DEF TellInv, AgreesOutside
<1>2. ~mismatched /\ (CallRefused => ~(stale > 0))
  <2>1. CallAnswered \/ CallRefused => mismatched' = (mismatched \/ stale > 0)
    BY DEF CallAnswered, CallRefused, Reading
  <2>2. CallFails => mismatched' = mismatched
    BY DEF CallFails, streamVars
  <2>3. ASSUME mismatched' = (mismatched \/ stale > 0) PROVE ~mismatched /\ ~(stale > 0)
    BY <2>3
  <2>4. ASSUME mismatched' = mismatched PROVE ~mismatched
    BY <2>4
  <2> QED
    BY <2>1, <2>2, <2>3, <2>4, Zenon
<1>3. AgreesOutside /\ Progress
  BY <1>2 DEF TellInv, AgreesOutside
<1>4. CASE CallAnswered
  <2>1. op'.touched = op.touched \cup Changed /\ unsure' = unsure
    BY <1>0, <1>4, AnswerFields DEF CallAnswered
  <2> QED
    BY <1>0, <1>1, <1>3, <1>4, <2>1, ProgressAnswered, AgreesAnswered
<1>5. CASE CallRefused \/ CallFails
  <2>1. stored' \in Results \cup Remains
    BY <1>2, <1>5 DEF CallRefused, CallFails, Executed
  <2>2. CASE Ends
    <3>1. op' = Idle /\ unsure' = unsure \cup op.touched \cup Changed
      BY <2>2 DEF Ends
    <3> QED
      BY <1>1, <1>3, <3>1, AgreesRefused, IdleFresh, FreshProgress
  <2>3. CASE GoesOn /\ (Tolerates(TRUE) \/ Tolerates(FALSE))
    <3>1. op' = Passed /\ unsure' = unsure \cup Changed
      BY <2>3 DEF GoesOn
    <3>2. op'.touched = op.touched
      BY <1>0, <1>1, <3>1, PassedFields
    <3>3. AgreesOutside'
      BY <1>1, <1>3, <3>1, <3>2, AgreesRefused
    <3>4. Progress'
      BY <1>0, <1>1, <1>3, <2>1, <2>3, <3>1, ProgressPassed
    <3> QED
      BY <3>3, <3>4
  <2> QED
    BY <1>5, <2>2, <2>3 DEF CallRefused, CallFails
<1> QED
  BY <1>4, <1>5

\* At the beginning the client knows what is stored.
LEMMA InitTell == LinkInit => TellInv
<1> SUFFICES ASSUME LinkInit PROVE TellInv
  OBVIOUS
<1>1. op.phase = "idle" /\ op.touched = {} /\ op.named = {}
  BY DEF LinkInit, ConnectionInit, Idle
<1>2. told = [k \in Keys |-> None] /\ unsure = {k \in Keys : stored[k] # None}
  BY DEF LinkInit, ConnectionInit
<1>3. \A k \in Keys \ (unsure \cup op.touched) : Agrees(k)
  BY <1>1, <1>2 DEF Agrees
<1> QED
  BY <1>1, <1>3 DEF TellInv, Progress

\* Every step keeps it so.
LEMMA TellStep == LinkInv /\ TellInv /\ [LinkNext]_linkAllVars => TellInv'
<1> SUFFICES ASSUME LinkInv, TellInv, [LinkNext]_linkAllVars PROVE TellInv'
  OBVIOUS
<1>0. /\ TypeOK /\ ShapeInv /\ StoredTyped /\ DataTyped /\ mismatched \in BOOLEAN
      /\ unsure \subseteq Keys /\ store \in Backends /\ ModeShape
  BY DEF LinkInv, TypeOK, StoredTyped, ToldTyped, DataTyped
<1>a. op = Idle => op.touched = {} /\ op.named = {} /\ op.phase = "idle"
  BY DEF Idle
<1>1. CASE UNCHANGED <<stored, told, unsure, mismatched, op, store>>
  <2>1. RenameProgress => RenameProgress'
    BY <1>1 DEF RenameProgress, Carries, Key
  <2>2. Progress => Progress'
    BY <1>1, <2>1 DEF Progress, Key
  <2> QED
    BY <1>1, <2>2 DEF TellInv, Agrees
<1>2. CASE Methods
  <2>1. op = Idle /\ UNCHANGED dataVars /\ mismatched' = mismatched
    BY <1>2, StartFrame DEF streamVars
  <2>2. op'.touched = {} /\ Progress'
    BY <1>0, <1>2, StartShapes, BeginsProgress DEF Begins
  <2> QED
    BY <1>a, <2>1, <2>2, TellKept
<1>3. CASE ConnectAgain \/ ConnectOpens
  <2>1. op = Idle /\ Greet /\ store' = store
    BY <1>3 DEF ConnectAgain, ConnectOpens, Asked
  <2>2. op'.touched = {} /\ Progress'
    <3>1. CASE op' = Idle
      BY <3>1, IdleFresh, FreshProgress DEF Fresh
    <3>2. CASE op'.phase = "calls" /\ op'.name = "Connect" /\ op'.touched = {} /\ op'.named = {}
      BY <3>2, BeginsProgress DEF Begins
    <3> QED
      BY <2>1, <3>1, <3>2, GreetShapes
  <2>3. CASE ConnectAgain
    BY <1>a, <2>1, <2>2, <2>3, TellKept DEF ConnectAgain, streamVars
  <2>4. CASE ConnectOpens
    BY <1>0, <1>a, <2>1, <2>2, <2>4, TellFresh DEF ConnectOpens
  <2> QED
    BY <1>3, <2>3, <2>4
<1>4. CASE ConnectFails \/ TestOpens \/ ProbeStarts \/ LinkProbe \/ Interrupt \/ Push
           \/ UNCHANGED linkAllVars
  BY <1>1, <1>4
  DEF ConnectFails, TestOpens, ProbeStarts, LinkProbe, ProbeStep, ProbeAnswered, ProbeFails,
      ProbeReturns, ProbeFreed, Interrupt, Push, linkAllVars, connectionVars, dataVars, streamVars
<1>5. CASE Disconnect
  <2>1. op = Idle /\ op' = Idle /\ FreshStream
    BY <1>5 DEF Disconnect, Asked, Freed
  <2>2. op'.touched = {} /\ Progress'
    BY <2>1, IdleFresh, FreshProgress DEF Fresh
  <2> QED
    BY <1>0, <1>a, <2>1, <2>2, TellFresh
<1>6. CASE QuitReturns
  <2>1. op.phase = "calls" /\ op.name = "Quit" /\ op' = Idle /\ FreshStream
    BY <1>6 DEF QuitReturns, Freed
  <2>2. op'.touched = {} /\ Progress'
    BY <2>1, IdleFresh, FreshProgress DEF Fresh
  <2>3. ~mismatched => op.touched = {}
    BY <2>1 DEF TellInv, Progress, Quiet
  <2> QED
    BY <1>0, <2>1, <2>2, <2>3, TellFresh
<1>7. CASE Returns
  <2>1. op' = Idle /\ mismatched' = mismatched
    BY <1>7 DEF Returns, streamVars
  <2>2. op'.touched = {} /\ Progress'
    BY <2>1, IdleFresh, FreshProgress DEF Fresh
  <2>3. ASSUME ~mismatched PROVE \A k \in Keys \ unsure' : Agrees(k)'
    <3>1. AgreesOutside /\ Progress
      BY <2>3 DEF TellInv, AgreesOutside
    <3> QED
      BY <1>0, <1>7, <3>1, AgreesReturned
  <2> QED
    BY <2>1, <2>2, <2>3 DEF TellInv
<1>8. CASE Modes \/ LoadContent \/ Listen
  <2>1. op = Idle /\ UNCHANGED dataVars /\ mismatched' = mismatched
    BY <1>8 DEF Modes, LoadContent, Listen, AskMode, Asked, streamVars
  <2>2. op'.touched = {} /\ Progress'
    BY <1>0, <1>8, ModeBegins, FreshProgress DEF Fresh
  <2> QED
    BY <1>a, <2>1, <2>2, TellKept
<1> QED
  BY <1>2, <1>3, <1>4, <1>5, <1>6, <1>7, <1>8, TellCalls, TellModes
  DEF LinkNext, LinkAsk, LinkStep, Ask, Step, Methods

\* Whatever fails on the way, between methods the client is right about every key it
\* was not left in doubt of, in all eight stores and for any keys and values: a failed
\* rename or delete, an answer that was lost and a load that stopped half way leave no
\* other key wrong.
THEOREM ClientToldExactly == LinkSpec => []ToldExact
<1>1. TellInv => ToldExact
  <2> SUFFICES ASSUME TellInv, op = Idle, ~mismatched
               PROVE  \A k \in Keys \ unsure : Agrees(k)
    BY DEF ToldExact, Agrees
  <2>1. op.touched = {}
    BY DEF Idle
  <2> QED
    BY <2>1 DEF TellInv
<1> QED
  BY <1>1, InitLink, LinkTypeStep, InitTell, TellStep, PTL DEF LinkSpec
=============================================================================
