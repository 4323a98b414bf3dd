---------------------------- MODULE StoreMethods ----------------------------
(***************************************************************************)
(* The methods of the eight DBConnection classes, each as the calls it     *)
(* makes of the library of its store, in their order.  A call is named for *)
(* what it does to the keys:                                               *)
(*   "pass"    leaves them alone       "list"    reads their names         *)
(*   "get"     reads one               "put"     writes one, there or not  *)
(*   "del"     removes one             "add"     writes one that is absent *)
(*   "rename"  moves one               "change"  writes one that is there  *)
(*   "expire"  sets its time to live   "any"     what the user asked for   *)
(*   "flush"   removes all at once     "sweep"   removes them one by one   *)
(*   "erase"   removes one or none                                         *)
(***************************************************************************)
EXTENDS TLC

\* What @@ does, in a form that the provers can expand.
Joined(f, g) == [m \in DOMAIN f \cup DOMAIN g |-> IF m \in DOMAIN f THEN f[m] ELSE g[m]]

Remote == {"redis", "memcached", "ssdb"}
Stores == Remote \cup {"rocksdb", "leveldb", "lmdb", "unqlite", "upscaledb"}

\* How opening a store can end: a handle, none, or none and yet something of the
\* library's left behind, because the environment is not closed on the way out.
FolderOpen    == {"open", "refused"}
UnqliteOpen   == {"open", "refused"}
SsdbOpen      == {"open", "refused"}
MemcachedOpen == {"open", "refused"}
RedisOpen     == {"open", "refused"}
RocksdbOpen   == FolderOpen
LmdbOpen      == {"open", "refused", "left"}
UpscaledbOpen == {"open", "refused", "left"}

Open == [redis |-> RedisOpen, memcached |-> MemcachedOpen, ssdb |-> SsdbOpen,
         rocksdb |-> RocksdbOpen, leveldb |-> FolderOpen, lmdb |-> LmdbOpen,
         unqlite |-> UnqliteOpen, upscaledb |-> UpscaledbOpen]

\* DelInner reports an absent key as deleted, or fails for it.
LeveldbInner   == [delFindsAbsent |-> TRUE]
RocksdbInner   == [delFindsAbsent |-> TRUE]
SsdbInner      == [delFindsAbsent |-> TRUE]
LmdbInner      == [delFindsAbsent |-> FALSE]
UnqliteInner   == [delFindsAbsent |-> FALSE]
UpscaledbInner == [delFindsAbsent |-> FALSE]
MemcachedInner == [delFindsAbsent |-> FALSE]

\* Redis counts the keys that DEL removed.
RedisDelete == [delFindsAbsent |-> FALSE]

Inner == [redis |-> RedisDelete, memcached |-> MemcachedInner, ssdb |-> SsdbInner,
          rocksdb |-> RocksdbInner, leveldb |-> LeveldbInner, lmdb |-> LmdbInner,
          unqlite |-> UnqliteInner, upscaledb |-> UpscaledbInner]

-----------------------------------------------------------------------------
(* The methods behind the template CDBConnection. *)

\* Mutant: the new key is written before the old one is deleted.
RenamedAhead == <<"get", "put", "del">>

\* RenameImpl of every store but redis.
RenameByCopy == <<"get", "del", "put">>

ByCopy == [Set |-> <<"put">>, Get |-> <<"get">>, Delete |-> <<"del">>,
           Rename |-> RenameByCopy, Select |-> <<"pass">>]

LeveldbImpl   == ByCopy
RocksdbImpl   == ByCopy
LmdbImpl      == ByCopy
UnqliteImpl   == ByCopy
UpscaledbImpl == ByCopy
SsdbImpl      == ByCopy

\* SetTTL of memcached reads the value and writes it back with its expiration.
MemcachedImpl == Joined(ByCopy, [SetTTL |-> <<"get", "put">>])

RedisKeyImpl == [Set |-> <<"put">>, Get |-> <<"get">>, Rename |-> <<"rename">>,
                 SetTTL |-> <<"expire">>]

\* SELECT, and then DBSIZE for the number of keys.
RedisImpl == Joined(RedisKeyImpl, [Delete |-> <<"del">>, Select |-> <<"pass", "pass">>,
                                   Quit |-> <<"pass">>])

Impl == [redis |-> RedisImpl, memcached |-> MemcachedImpl, ssdb |-> SsdbImpl,
         rocksdb |-> RocksdbImpl, leveldb |-> LeveldbImpl, lmdb |-> LmdbImpl,
         unqlite |-> UnqliteImpl, upscaledb |-> UpscaledbImpl]

-----------------------------------------------------------------------------
(* The methods that the handlers of single commands call, past the template. *)

LeveldbStats   == [Info |-> <<"pass">>, DBkcount |-> <<"pass">>]
RocksdbStats   == [Info |-> <<"pass">>, DBkcount |-> <<"pass">>]
LmdbStats      == [DBkcount |-> <<"pass">>, Keys |-> <<"pass">>]
UnqliteStats   == [Info |-> <<"pass">>, DBkcount |-> <<"pass">>]
UpscaledbStats == [DBkcount |-> <<"pass">>, Keys |-> <<"pass">>]

RocksdbCommands == [Mget |-> <<"pass">>, Merge |-> <<"put">>]

\* FLUSHDB of leveldb and rocksdb deletes every key that its iterator saw, lmdb's in
\* one transaction; which keys the cursors of unqlite and upscaledb meet while keys
\* are deleted under them is up to these libraries.
LeveldbFlush   == [Flushdb |-> <<"sweep">>]
RocksdbFlush   == [Flushdb |-> <<"sweep">>]
LmdbFlush      == [Flushdb |-> <<"flush">>]
UnqliteFlush   == [Flushdb |-> <<"erase", "erase">>]
UpscaledbFlush == [Flushdb |-> <<"erase", "erase">>]

MemcachedStats == [Info |-> <<"pass">>, DBkcount |-> <<"pass">>]
MemcachedWrites ==
  [AddIfNotExist |-> <<"add">>, Replace |-> <<"change">>, Append |-> <<"change">>,
   Prepend |-> <<"change">>, Incr |-> <<"change">>, Decr |-> <<"change">>]
MemcachedRest == [Flushdb |-> <<"flush">>, VersionServer |-> <<"pass">>]

\* Containers of ssdb have names of their own and leave its keys alone.
SsdbStats == [Info |-> <<"pass">>, DBsize |-> <<"pass">>, DBkcount |-> <<"pass">>]
SsdbKeyCommands ==
  [Auth |-> <<"pass">>, Setx |-> <<"put">>, Incr |-> <<"put">>, Keys |-> <<"pass">>,
   Scan |-> <<"pass">>, Rscan |-> <<"pass">>, MultiGet |-> <<"pass">>,
   MultiSet |-> <<"put">>, MultiDel |-> <<"erase">>]
SsdbHashCommands ==
  [x \in {"Hget", "Hgetall", "Hset", "Hdel", "Hincr", "Hsize", "Hclear", "Hkeys", "Hscan",
          "Hrscan", "MultiHget", "MultiHset"} |-> <<"pass">>]
SsdbZsetCommands ==
  [x \in {"Zget", "Zset", "Zdel", "Zincr", "Zsize", "Zclear", "Zrank", "Zrrank"} |-> <<"pass">>]
SsdbZsetRanges ==
  [x \in {"Zrange", "Zrrange", "Zkeys", "Zscan", "Zrscan", "MultiZget", "MultiZset",
          "MultiZdel"} |-> <<"pass">>]
SsdbQueueCommands == [x \in {"Qpush", "Qpop", "Qslice", "Qclear"} |-> <<"pass">>]

\* FLUSHDB of ssdb asks for at most 0 keys and deletes those.
SsdbFlush == [Flushdb |-> <<"pass">>]

\* Everything else that is typed at redis goes through CommonExec.
RedisCommands == [CommonExec |-> <<"any">>, DBkcount |-> <<"pass">>]

\* HELP is answered from a table, without the server.
RedisHelp == [Help |-> <<>>]

\* LRANGE, SMEMBERS, ZRANGE and HGETALL report the key they read, like GET.
RedisLists == [Lrange |-> <<"get">>, Smembers |-> <<"get">>]
RedisPairs == [Zrange |-> <<"get">>, Hgetall |-> <<"get">>]
RedisLoads == Joined(RedisLists, RedisPairs)

Commands ==
  [redis |-> RedisCommands @@ RedisHelp,
   memcached |-> MemcachedStats @@ MemcachedWrites @@ MemcachedRest,
   ssdb |-> SsdbStats @@ SsdbKeyCommands @@ SsdbHashCommands @@ SsdbZsetCommands
            @@ SsdbZsetRanges @@ SsdbQueueCommands @@ SsdbFlush,
   rocksdb |-> RocksdbStats @@ RocksdbCommands @@ RocksdbFlush,
   leveldb |-> LeveldbStats @@ LeveldbFlush,
   lmdb |-> LmdbStats @@ LmdbFlush,
   unqlite |-> UnqliteStats @@ UnqliteFlush,
   upscaledb |-> UpscaledbStats @@ UpscaledbFlush]

-----------------------------------------------------------------------------
(* The requests of the drivers that use their connection directly. *)

LocalRequests == [serverInfo |-> <<"pass">>, databaseInfo |-> <<"pass">>,
                  loadContent |-> <<"list", "pass">>]

RocksdbDriver   == Joined(LocalRequests, [clearDatabase |-> RocksdbFlush.Flushdb])
LeveldbDriver   == Joined(LocalRequests, [clearDatabase |-> LeveldbFlush.Flushdb])
LmdbDriver      == Joined(LocalRequests, [clearDatabase |-> LmdbFlush.Flushdb])
UnqliteDriver   == Joined(LocalRequests, [clearDatabase |-> UnqliteFlush.Flushdb])
UpscaledbDriver == Joined(LocalRequests, [clearDatabase |-> UpscaledbFlush.Flushdb])
SsdbDriver      == Joined(LocalRequests, [clearDatabase |-> SsdbFlush.Flushdb])

\* The driver of memcached does not clear the database.
MemcachedDriver == LocalRequests

\* SELECT and DBSIZE for the database; SCAN lists keys, and a pipeline follows it.
RedisDriver == [serverInfo |-> <<"pass">>, databaseInfo |-> <<"pass", "pass">>,
                clearDatabase |-> <<"flush">>]

Requests == [redis |-> RedisDriver, memcached |-> MemcachedDriver, ssdb |-> SsdbDriver,
             rocksdb |-> RocksdbDriver, leveldb |-> LeveldbDriver, lmdb |-> LmdbDriver,
             unqlite |-> UnqliteDriver, upscaledb |-> UpscaledbDriver]
=============================================================================
