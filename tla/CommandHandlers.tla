-------------------------- MODULE CommandHandlers --------------------------
(***************************************************************************)
(* The functions the command tables point to.  A handler picks words of    *)
(* the argument vector, calls one method of the connection with them and   *)
(* hangs the answer under the command object.  Of each are kept            *)
(*   call  the method of the connection,                                   *)
(*   argv  which positions it passes, relative to the first argument:      *)
(*           At(s)     the positions of the sequence s, in this order      *)
(*           Optional  position 0 if there is exactly one argument         *)
(*           Rest(n)   all of them, of which it reads n whatever argc is    *)
(*           Pairs(n)  n fixed ones and then the others two at a time      *)
(*           Back(n)   the whole line: argc + n words from argv - n on     *)
(*   out   the children it adds when the call succeeds: none, one value,   *)
(*         one array, one or two help texts, what the server answers, or a *)
(*         stream of answers that only an error or an interrupt ends; ttl  *)
(*         handlers add a child also when the call fails; stats is a value *)
(*         or, for the word "items", an array of keys.                     *)
(***************************************************************************)
EXTENDS Integers, Sequences, TLC

At(s) == [kind |-> "at", of |-> s]
Optional == [kind |-> "optional"]
Rest(n) == [kind |-> "rest", n |-> n]
Pairs(n) == [kind |-> "pairs", n |-> n]
Back(n) == [kind |-> "back", n |-> n]

(* The first n positions, in order. *)
First(n) == At([i \in 1 .. n |-> i - 1])

H(call, argv, out) == [call |-> call, argv |-> argv, out |-> out]

(* The whole line, the n words before argv included.  The mutant forgets to count them. *)
ForwardsShort(argc, n) == [i \in 1 .. argc |-> i - 1 - n]   \* mutant
Forwards(argc, n) == [i \in 1 .. argc + n |-> i - 1 - n]

(* The positions a handler hands to its call, given argc arguments. *)
Positions(argv, argc) ==
  LET UpTo(n) == [i \in 1 .. n |-> i - 1]
      More(m, n) == IF m > n THEN m ELSE n
  IN CASE argv.kind = "at" -> argv.of
       [] argv.kind = "optional" -> IF argc = 1 THEN <<0>> ELSE <<>>
       [] argv.kind = "rest" -> UpTo(More(argc, argv.n))
       [] argv.kind = "pairs" -> UpTo(argv.n + 2 * ((More(argc, argv.n) - argv.n + 1) \div 2))
       [] argv.kind = "back" -> Forwards(argc, argv.n)

-----------------------------------------------------------------------------
(* core/redis/internal/commands_api.cpp *)

RedisForwards ==
  "common_exec" :> H("CommonExec", Back(1), "reply") @@
  "common_exec_off2" :> H("CommonExec", Back(2), "reply") @@   \* the name was two words
  "auth" :> H("Auth", First(1), "value") @@
  "quit" :> H("Quit", First(0), "value") @@
  "select" :> H("Select", First(1), "value") @@
  "del" :> H("Delete", Rest(0), "value") @@
  "set" :> H("Set", First(2), "value") @@
  "get" :> H("Get", First(1), "value")

RedisLoads ==
  "lrange" :> H("Lrange", First(3), "value") @@
  "smembers" :> H("Smembers", First(1), "value") @@
  "zrange" :> H("Zrange", Rest(3), "value") @@   \* the fourth word chooses WITHSCORES
  "hgetall" :> H("Hgetall", First(1), "value") @@
  "rename" :> H("Rename", First(2), "value") @@
  "persist" :> H("SetTTL", First(1), "ttl")

RedisModes ==
  "expire" :> H("SetTTL", First(2), "ttl") @@
  "help" :> H("Help", Rest(0), "help") @@
  "monitor" :> H("Monitor", Back(1), "stream") @@
  "subscribe" :> H("Subscribe", Back(1), "stream") @@
  "sync" :> H("SlaveMode", First(0), "stream")

RedisHandlers == RedisForwards @@ RedisLoads @@ RedisModes

-----------------------------------------------------------------------------
(* core/memcached/internal/commands_api.cpp *)

MemcachedReads ==
  "keys" :> H("Keys", First(3), "array") @@
  "stats" :> H("Info", Optional, "stats") @@   \* or Keys a z 100, for the word "items"
  "get" :> H("Get", First(1), "value") @@
  "add" :> H("AddIfNotExist", At(<<0, 3, 2, 1>>), "value") @@
  "replace" :> H("Replace", At(<<0, 3, 2, 1>>), "value") @@
  "append" :> H("Append", At(<<0, 3, 2, 1>>), "value") @@
  "prepend" :> H("Prepend", At(<<0, 3, 2, 1>>), "value")

MemcachedWrites ==
  "incr" :> H("Incr", First(2), "value") @@
  "decr" :> H("Decr", First(2), "value") @@
  "select" :> H("Select", First(1), "value") @@
  "set" :> H("Set", First(2), "value") @@
  "rename" :> H("Rename", First(2), "value") @@
  "set_ttl" :> H("SetTTL", First(2), "value") @@
  "del" :> H("Delete", Rest(0), "value") @@
  "flushdb" :> H("Flushdb", Optional, "value")

MemcachedRest ==
  "version_server" :> H("VersionServer", First(0), "none") @@
  "dbkcount" :> H("DBkcount", First(0), "value") @@
  "help" :> H("Help", First(0), "unsupported") @@
  "expire" :> H("SetTTL", First(2), "value") @@
  "quit" :> H("Quit", First(0), "value")

MemcachedHandlers == MemcachedReads @@ MemcachedWrites @@ MemcachedRest

-----------------------------------------------------------------------------
(* core/ssdb/internal/commands_api.cpp *)

SsdbBasics ==
  "info" :> H("Info", Optional, "value") @@
  "dbsize" :> H("DBsize", First(0), "value") @@
  "auth" :> H("Auth", First(1), "value") @@
  "get" :> H("Get", First(1), "value") @@
  "select" :> H("Select", First(1), "value") @@
  "set" :> H("Set", First(2), "value") @@
  "setx" :> H("Setx", First(3), "value")

SsdbKeys ==
  "del" :> H("Delete", Rest(0), "value") @@
  "rename" :> H("Rename", First(2), "value") @@
  "set_ttl" :> H("SetTTL", First(2), "value") @@
  "incr" :> H("Incr", First(2), "value") @@
  "keys" :> H("Keys", First(3), "array")

SsdbScans ==
  "scan" :> H("Scan", First(3), "array") @@
  "rscan" :> H("Rscan", First(3), "array") @@
  "multi_get" :> H("MultiGet", Rest(0), "array") @@
  "multi_set" :> H("MultiSet", Pairs(0), "value") @@
  "multi_del" :> H("MultiDel", Rest(0), "value")

SsdbHashes ==
  "hget" :> H("Hget", First(2), "value") @@
  "hgetall" :> H("Hgetall", First(1), "array") @@
  "hset" :> H("Hset", First(3), "value") @@
  "hdel" :> H("Hdel", First(2), "value") @@
  "hincr" :> H("Hincr", First(3), "value") @@
  "hsize" :> H("Hsize", First(1), "value") @@
  "hclear" :> H("Hclear", First(1), "value")

SsdbHashScans ==
  "hkeys" :> H("Hkeys", First(4), "array") @@
  "hscan" :> H("Hscan", First(4), "array") @@
  "hrscan" :> H("Hrscan", First(4), "array") @@
  "multi_hget" :> H("MultiHget", Rest(1), "array") @@
  "multi_hset" :> H("MultiHset", Pairs(1), "value")

SsdbZsets ==
  "zget" :> H("Zget", First(2), "value") @@
  "zset" :> H("Zset", First(3), "value") @@
  "zdel" :> H("Zdel", First(2), "value") @@
  "zincr" :> H("Zincr", First(3), "value") @@
  "zsize" :> H("Zsize", First(1), "value") @@
  "zclear" :> H("Zclear", First(1), "value")

SsdbZsetRanges ==
  "zrank" :> H("Zrank", First(2), "value") @@
  "zrrank" :> H("Zrrank", First(2), "value") @@
  "zrange" :> H("Zrange", First(3), "array") @@
  "zrrange" :> H("Zrrange", First(3), "array") @@
  "zkeys" :> H("Zkeys", At(<<0, 1, 2, 3, 5>>), "array")

SsdbZsetScans ==
  "zscan" :> H("Zscan", First(5), "array") @@
  "zrscan" :> H("Zrscan", First(5), "array") @@
  "multi_zget" :> H("MultiZget", Rest(1), "array") @@
  "multi_zset" :> H("MultiZset", Pairs(1), "value") @@
  "multi_zdel" :> H("MultiZdel", Rest(1), "value")

SsdbQueues ==
  "qpush" :> H("Qpush", First(2), "value") @@
  "qpop" :> H("Qpop", First(1), "value") @@
  "qslice" :> H("Qslice", First(3), "array") @@
  "qclear" :> H("Qclear", First(1), "value") @@
  "dbkcount" :> H("DBkcount", First(0), "value") @@
  "help" :> H("Help", First(0), "unsupported") @@
  "flushdb" :> H("Flushdb", First(0), "none") @@
  "quit" :> H("Quit", First(0), "value")

SsdbHandlers ==
  SsdbBasics @@ SsdbKeys @@ SsdbScans @@ SsdbHashes @@ SsdbHashScans @@ SsdbZsets @@
  SsdbZsetRanges @@ SsdbZsetScans @@ SsdbQueues

-----------------------------------------------------------------------------
(* The embedded stores, core/{rocksdb,leveldb,lmdb,unqlite,upscaledb}/internal/     *)
(* commands_api.cpp: the same functions, in each file in an order of its own;       *)
(* rocksdb has mget and merge besides.  First those of the first half of each file, *)
(* then the others.                                                                 *)

Info == "info" :> H("Info", Optional, "value")
Dbkcount == "dbkcount" :> H("DBkcount", First(0), "value")
Keys == "keys" :> H("Keys", First(3), "array")
SetTtl == "set_ttl" :> H("SetTTL", First(2), "value")
Rename == "rename" :> H("Rename", First(2), "value")

SelectSetGet ==
  "select" :> H("Select", First(1), "value") @@
  "set" :> H("Set", First(2), "value") @@
  "get" :> H("Get", First(1), "value")

Del == "del" :> H("Delete", Rest(0), "value")

HelpFlushQuit ==
  "help" :> H("Help", First(0), "unsupported") @@
  "flushdb" :> H("Flushdb", First(0), "none") @@
  "quit" :> H("Quit", First(0), "value")

RocksdbFirst ==
  Info @@ SelectSetGet @@
  "mget" :> H("Mget", Rest(0), "array") @@ "merge" :> H("Merge", First(2), "value") @@ Del
RocksdbOthers == Rename @@ SetTtl @@ Keys @@ Dbkcount @@ HelpFlushQuit
RocksdbHandlers == RocksdbFirst @@ RocksdbOthers

LeveldbFirst == Dbkcount @@ Info @@ SelectSetGet @@ Del @@ Rename
LeveldbOthers == SetTtl @@ Keys @@ HelpFlushQuit
LeveldbHandlers == LeveldbFirst @@ LeveldbOthers

LmdbFirst == Info @@ Dbkcount @@ SelectSetGet @@ Del @@ Rename
LmdbOthers == SetTtl @@ Keys @@ HelpFlushQuit
LmdbHandlers == LmdbFirst @@ LmdbOthers

UnqliteFirst == SelectSetGet @@ Del @@ Rename @@ SetTtl @@ Keys
UnqliteOthers == Info @@ Dbkcount @@ HelpFlushQuit
UnqliteHandlers == UnqliteFirst @@ UnqliteOthers

UpscaledbFirst == Info @@ Dbkcount @@ SelectSetGet @@ Del @@ Rename
UpscaledbOthers == SetTtl @@ Keys @@ HelpFlushQuit
UpscaledbHandlers == UpscaledbFirst @@ UpscaledbOthers

=============================================================================
