---------------------------- MODULE CommandTable ----------------------------
(***************************************************************************)
(* The command tables of the eight stores: for every console command its   *)
(* name (as words), the number of arguments its params string documents,   *)
(* the number of arguments the table requires and allows, and the function *)
(* that handles it.  Summaries, examples and "since" versions are left out. *)
(***************************************************************************)
EXTENDS Naturals, Sequences

(* INFINITE_COMMAND_ARGS: all an uint8_t can say. *)
Many == 255

(* CommandHolder, a CommandInfo with a function.  lo and hi bound the number of *)
(* words that params documents ("[key ...]" is Many).                           *)
Cmd(name, lo, hi, required_arguments_count, optional_arguments_count, func) ==
  [name |-> name, documented |-> lo .. hi, required |-> required_arguments_count,
   optional |-> optional_arguments_count, func |-> func]

(* core/redis/internal/commands_api.h, in the order of the file: the subcommands of *)
(* CLIENT, CLUSTER, COMMAND, ... stand before the bare command they begin with.     *)
RedisTable1 == <<
  Cmd(<<"APPEND">>, 2, 2, 2, 0, "common_exec"), Cmd(<<"AUTH">>, 1, 1, 1, 0, "auth"),
  Cmd(<<"BGREWRITEAOF">>, 0, 0, 0, 0, "common_exec"),
  Cmd(<<"BGSAVE">>, 0, 0, 0, 0, "common_exec"), Cmd(<<"BITCOUNT">>, 1, 3, 1, 2, "common_exec"),
  Cmd(<<"BITOP">>, 3, Many, 1, 2, "common_exec"), Cmd(<<"BITPOS">>, 2, 4, 2, 2, "common_exec"),
  Cmd(<<"BLPOP">>, 2, Many, 1, Many, "common_exec"),
  Cmd(<<"BRPOP">>, 2, Many, 1, Many, "common_exec"),
  Cmd(<<"BRPOPLPUSH">>, 3, 3, 0, 0, "common_exec"),
  Cmd(<<"CLIENT", "GETNAME">>, 0, 0, 0, 0, "common_exec_off2"),
  Cmd(<<"CLIENT", "KILL">>, 0, 9, 0, 9, "common_exec_off2"),
  Cmd(<<"CLIENT", "LIST">>, 0, 0, 0, 0, "common_exec_off2"),
  Cmd(<<"CLIENT", "PAUSE">>, 1, 1, 1, 0, "common_exec_off2"),
  Cmd(<<"CLIENT", "REPLY">>, 1, 1, 1, 0, "common_exec_off2"),
  Cmd(<<"CLIENT", "SETNAME">>, 1, 1, 1, 0, "common_exec_off2"),
  Cmd(<<"CLUSTER", "ADDSLOTS">>, 1, Many, 1, Many, "common_exec_off2") >>

RedisTable2 == <<
  Cmd(<<"CLUSTER", "COUNT-FAILURE-REPORTS">>, 1, 1, 1, 0, "common_exec_off2"),
  Cmd(<<"CLUSTER", "COUNTKEYSINSLOT">>, 1, 1, 1, 0, "common_exec_off2"),
  Cmd(<<"CLUSTER", "DELSLOTS">>, 1, Many, 1, Many, "common_exec_off2"),
  Cmd(<<"CLUSTER", "FAILOVER">>, 0, 1, 0, 1, "common_exec_off2"),
  Cmd(<<"CLUSTER", "FORGET">>, 1, 1, 1, 0, "common_exec_off2"),
  Cmd(<<"CLUSTER", "GETKEYSINSLOT">>, 2, 2, 2, 0, "common_exec_off2"),
  Cmd(<<"CLUSTER", "INFO">>, 0, 0, 0, 0, "common_exec_off2"),
  Cmd(<<"CLUSTER", "KEYSLOT">>, 1, 1, 1, 0, "common_exec_off2"),
  Cmd(<<"CLUSTER", "MEET">>, 2, 2, 2, 0, "common_exec_off2"),
  Cmd(<<"CLUSTER", "NODES">>, 0, 0, 0, 0, "common_exec_off2"),
  Cmd(<<"CLUSTER", "REPLICATE">>, 1, 1, 1, 0, "common_exec_off2"),
  Cmd(<<"CLUSTER", "RESET">>, 0, 1, 0, 1, "common_exec_off2"),
  Cmd(<<"CLUSTER", "SAVECONFIG">>, 0, 0, 0, 0, "common_exec_off2"),
  Cmd(<<"CLUSTER", "SET-CONFIG-EPOCH">>, 1, 1, 1, 0, "common_exec_off2"),
  Cmd(<<"CLUSTER", "SETSLOT">>, 2, 3, 2, 2, "common_exec_off2"),
  Cmd(<<"CLUSTER", "SLAVES">>, 1, 1, 1, 0, "common_exec_off2"),
  Cmd(<<"CLUSTER", "SLOTS">>, 0, 0, 0, 0, "common_exec_off2") >>

RedisTable3 == <<
  Cmd(<<"COMMAND", "COUNT">>, 0, 0, 0, 0, "common_exec_off2"),
  Cmd(<<"COMMAND", "GETKEYS">>, 0, 0, 0, 0, "common_exec_off2"),
  Cmd(<<"COMMAND", "INFO">>, 1, Many, 1, Many, "common_exec_off2"),
  Cmd(<<"COMMAND">>, 0, 0, 0, 0, "common_exec"),
  Cmd(<<"CONFIG", "GET">>, 1, 1, 1, 0, "common_exec_off2"),
  Cmd(<<"CONFIG", "RESETSTAT">>, 0, 0, 0, 0, "common_exec_off2"),
  Cmd(<<"CONFIG", "REWRITE">>, 0, 0, 0, 0, "common_exec_off2"),
  Cmd(<<"CONFIG", "SET">>, 2, 2, 2, 0, "common_exec_off2"),
  Cmd(<<"DBSIZE">>, 0, 0, 0, 0, "common_exec"),
  Cmd(<<"DEBUG", "OBJECT">>, 1, 1, 1, 0, "common_exec_off2"),
  Cmd(<<"DEBUG", "SEGFAULT">>, 0, 0, 0, 0, "common_exec_off2"),
  Cmd(<<"DECR">>, 1, 1, 1, 0, "common_exec"), Cmd(<<"DECRBY">>, 2, 2, 2, 0, "common_exec"),
  Cmd(<<"DEL">>, 1, Many, 1, Many, "del"), Cmd(<<"DISCARD">>, 0, 0, 0, 0, "common_exec"),
  Cmd(<<"DUMP">>, 1, 1, 1, 0, "common_exec"), Cmd(<<"ECHO">>, 1, 1, 1, 0, "common_exec") >>

RedisTable4 == <<
  Cmd(<<"EVAL">>, 4, Many, 2, Many, "common_exec"),
  Cmd(<<"EVALSHA">>, 4, Many, 2, Many, "common_exec"), Cmd(<<"EXEC">>, 0, 0, 0, 0, "common_exec"),
  Cmd(<<"EXISTS">>, 1, Many, 1, Many, "common_exec"), Cmd(<<"EXPIRE">>, 2, 2, 2, 0, "expire"),
  Cmd(<<"EXPIREAT">>, 2, 2, 2, 0, "common_exec"), Cmd(<<"FLUSHALL">>, 0, 0, 0, 0, "common_exec"),
  Cmd(<<"FLUSHDB">>, 0, 0, 0, 0, "common_exec"), Cmd(<<"GEOADD">>, 4, Many, 4, 0, "common_exec"),
  Cmd(<<"GEODIST">>, 3, 4, 3, 1, "common_exec"),
  Cmd(<<"GEOHASH">>, 2, Many, 2, Many, "common_exec"),
  Cmd(<<"GEOPOS">>, 2, Many, 2, Many, "common_exec"),
  Cmd(<<"GEORADIUS">>, 5, 11, 5, 6, "common_exec"),
  Cmd(<<"GEORADIUSBYMEMBER">>, 4, 10, 4, 6, "common_exec"), Cmd(<<"GET">>, 1, 1, 1, 0, "get"),
  Cmd(<<"GETBIT">>, 2, 2, 2, 0, "common_exec") >>

RedisTable5 == <<
  Cmd(<<"GETRANGE">>, 3, 3, 3, 0, "common_exec"), Cmd(<<"GETSET">>, 2, 2, 2, 0, "common_exec"),
  Cmd(<<"HDEL">>, 2, Many, 2, Many, "common_exec"), Cmd(<<"HEXISTS">>, 2, 2, 2, 0, "common_exec"),
  Cmd(<<"HGET">>, 2, 2, 2, 0, "common_exec"), Cmd(<<"HGETALL">>, 1, 1, 1, 0, "hgetall"),
  Cmd(<<"HINCRBY">>, 3, 3, 3, 0, "common_exec"),
  Cmd(<<"HINCRBYFLOAT">>, 3, 3, 3, 0, "common_exec"), Cmd(<<"HKEYS">>, 1, 1, 1, 0, "common_exec"),
  Cmd(<<"HLEN">>, 1, 1, 1, 0, "common_exec"), Cmd(<<"HMGET">>, 2, Many, 2, Many, "common_exec"),
  Cmd(<<"HMSET">>, 3, Many, 3, Many, "common_exec"), Cmd(<<"HSCAN">>, 2, 6, 2, 4, "common_exec"),
  Cmd(<<"HSET">>, 3, 3, 3, 0, "common_exec"), Cmd(<<"HSETNX">>, 3, 3, 3, 0, "common_exec"),
  Cmd(<<"HSTRLEN">>, 2, 2, 2, 0, "common_exec"), Cmd(<<"HVALS">>, 1, 1, 1, 0, "common_exec"),
  Cmd(<<"INCR">>, 1, 1, 1, 0, "common_exec") >>

RedisTable6 == <<
  Cmd(<<"INCRBY">>, 2, 2, 2, 0, "common_exec"), Cmd(<<"INCRBYFLOAT">>, 2, 2, 2, 0, "common_exec"),
  Cmd(<<"INFO">>, 0, 1, 0, 1, "common_exec"), Cmd(<<"KEYS">>, 1, 1, 1, 0, "common_exec"),
  Cmd(<<"LASTSAVE">>, 0, 0, 0, 0, "common_exec"), Cmd(<<"LINDEX">>, 2, 2, 2, 0, "common_exec"),
  Cmd(<<"LINSERT">>, 3, 3, 3, 0, "common_exec"), Cmd(<<"LLEN">>, 1, 1, 1, 0, "common_exec"),
  Cmd(<<"LPOP">>, 1, 1, 1, 0, "common_exec"), Cmd(<<"LPUSH">>, 2, Many, 2, Many, "common_exec"),
  Cmd(<<"LPUSHX">>, 2, 2, 2, 0, "common_exec"), Cmd(<<"LRANGE">>, 3, 3, 3, 0, "lrange"),
  Cmd(<<"LREM">>, 3, 3, 3, 0, "common_exec"), Cmd(<<"LSET">>, 3, 3, 3, 0, "common_exec"),
  Cmd(<<"LTRIM">>, 3, 3, 3, 0, "common_exec"), Cmd(<<"MGET">>, 1, Many, 1, Many, "common_exec"),
  Cmd(<<"MIGRATE">>, 5, 7, 5, 2, "common_exec") >>

RedisTable7 == <<
  Cmd(<<"MONITOR">>, 0, 0, 0, 0, "monitor"), Cmd(<<"MOVE">>, 2, 2, 2, 0, "common_exec"),
  Cmd(<<"MSET">>, 2, Many, 2, Many, "common_exec"),
  Cmd(<<"MSETNX">>, 2, Many, 2, Many, "common_exec"), Cmd(<<"MULTI">>, 0, 0, 0, 0, "common_exec"),
  Cmd(<<"OBJECT">>, 1, Many, 1, Many, "common_exec"), Cmd(<<"PERSIST">>, 1, 1, 1, 0, "persist"),
  Cmd(<<"PEXPIRE">>, 2, 2, 2, 0, "common_exec"), Cmd(<<"PEXPIREAT">>, 2, 2, 2, 0, "common_exec"),
  Cmd(<<"PFADD">>, 2, Many, 2, Many, "common_exec"),
  Cmd(<<"PFCOUNT">>, 1, Many, 1, Many, "common_exec"),
  Cmd(<<"PFMERGE">>, 2, Many, 2, Many, "common_exec"), Cmd(<<"PING">>, 0, 1, 0, 1, "common_exec"),
  Cmd(<<"PSETEX">>, 3, 3, 3, 0, "common_exec"),
  Cmd(<<"PSUBSCRIBE">>, 1, Many, 1, Many, "subscribe"),
  Cmd(<<"PTTL">>, 1, 1, 1, 0, "common_exec"), Cmd(<<"PUBLISH">>, 2, 2, 2, 0, "common_exec") >>

RedisTable8 == <<
  Cmd(<<"PUBSUB">>, 1, Many, 1, Many, "common_exec"),
  Cmd(<<"PUNSUBSCRIBE">>, 0, Many, 0, Many, "common_exec"), Cmd(<<"QUIT">>, 0, 0, 0, 0, "quit"),
  Cmd(<<"RANDOMKEY">>, 0, 0, 0, 0, "common_exec"), Cmd(<<"READONLY">>, 0, 0, 0, 0, "common_exec"),
  Cmd(<<"READWRITE">>, 0, 0, 0, 0, "common_exec"), Cmd(<<"RENAME">>, 2, 2, 2, 0, "rename"),
  Cmd(<<"RENAMENX">>, 2, 2, 2, 0, "common_exec"), Cmd(<<"RESTORE">>, 3, 4, 3, 1, "common_exec"),
  Cmd(<<"ROLE">>, 0, 0, 0, 0, "common_exec"), Cmd(<<"RPOP">>, 1, 1, 1, 0, "common_exec"),
  Cmd(<<"RPOPLPUSH">>, 2, 2, 2, 0, "common_exec"),
  Cmd(<<"RPUSH">>, 2, Many, 2, Many, "common_exec"), Cmd(<<"RPUSHX">>, 2, 2, 2, 0, "common_exec"),
  Cmd(<<"SADD">>, 2, Many, 2, Many, "common_exec"), Cmd(<<"SAVE">>, 0, 0, 0, 0, "common_exec"),
  Cmd(<<"SCAN">>, 1, 5, 1, 4, "common_exec") >>

RedisTable9 == <<
  Cmd(<<"SCARD">>, 1, 1, 1, 0, "common_exec"),
  Cmd(<<"SCRIPT", "DEBUG">>, 1, 1, 1, 0, "common_exec_off2"),
  Cmd(<<"SCRIPT", "EXISTS">>, 1, Many, 1, Many, "common_exec_off2"),
  Cmd(<<"SCRIPT", "FLUSH">>, 0, 0, 0, 0, "common_exec_off2"),
  Cmd(<<"SCRIPT", "KILL">>, 0, 0, 0, 0, "common_exec_off2"),
  Cmd(<<"SCRIPT", "LOAD">>, 1, 1, 1, 0, "common_exec_off2"),
  Cmd(<<"SDIFF">>, 1, Many, 1, Many, "common_exec"),
  Cmd(<<"SDIFFSTORE">>, 2, Many, 2, Many, "common_exec"), Cmd(<<"SELECT">>, 1, 1, 1, 0, "select"),
  Cmd(<<"SET">>, 2, 7, 2, 5, "set"), Cmd(<<"SETBIT">>, 3, 3, 3, 0, "common_exec"),
  Cmd(<<"SETEX">>, 3, 3, 3, 0, "common_exec"), Cmd(<<"SETNX">>, 2, 2, 2, 0, "common_exec"),
  Cmd(<<"SETRANGE">>, 3, 3, 3, 0, "common_exec"), Cmd(<<"SHUTDOWN">>, 0, 1, 0, 1, "common_exec"),
  Cmd(<<"SINTER">>, 1, Many, 1, Many, "common_exec"),
  Cmd(<<"SINTERSTORE">>, 2, Many, 2, Many, "common_exec") >>

RedisTable10 == <<
  Cmd(<<"SISMEMBER">>, 2, 2, 2, 0, "common_exec"), Cmd(<<"SLAVEOF">>, 2, 2, 2, 0, "common_exec"),
  Cmd(<<"SLOWLOG">>, 1, 2, 1, 1, "common_exec"), Cmd(<<"SMEMBERS">>, 1, 1, 1, 0, "smembers"),
  Cmd(<<"SMOVE">>, 3, 3, 3, 0, "common_exec"), Cmd(<<"SORT">>, 1, Many, 1, Many, "common_exec"),
  Cmd(<<"SPOP">>, 1, 2, 1, 1, "common_exec"), Cmd(<<"SRANDMEMBER">>, 1, 2, 1, 1, "common_exec"),
  Cmd(<<"SREM">>, 2, Many, 2, Many, "common_exec"), Cmd(<<"SSCAN">>, 2, 6, 2, 4, "common_exec"),
  Cmd(<<"STRLEN">>, 1, 1, 1, 0, "common_exec"),
  Cmd(<<"SUBSCRIBE">>, 1, Many, 1, Many, "subscribe"),
  Cmd(<<"SUNION">>, 1, Many, 1, Many, "common_exec"),
  Cmd(<<"SUNIONSTORE">>, 2, Many, 2, Many, "common_exec"), Cmd(<<"SYNC">>, 0, 0, 0, 0, "sync"),
  Cmd(<<"PSYNC">>, 0, 0, 0, 0, "sync"), Cmd(<<"TIME">>, 0, 0, 0, 0, "common_exec") >>

RedisTable11 == <<
  Cmd(<<"TTL">>, 1, 1, 1, 0, "common_exec"), Cmd(<<"TYPE">>, 1, 1, 1, 0, "common_exec"),
  Cmd(<<"UNSUBSCRIBE">>, 0, Many, 0, Many, "common_exec"),
  Cmd(<<"UNWATCH">>, 0, 0, 0, 0, "common_exec"), Cmd(<<"WAIT">>, 2, 2, 2, 0, "common_exec"),
  Cmd(<<"WATCH">>, 1, Many, 1, Many, "common_exec"),
  Cmd(<<"ZADD">>, 3, Many, 3, Many, "common_exec"), Cmd(<<"ZCARD">>, 1, 1, 1, 0, "common_exec"),
  Cmd(<<"ZCOUNT">>, 3, 3, 3, 0, "common_exec"), Cmd(<<"ZINCRBY">>, 3, 3, 3, 0, "common_exec"),
  Cmd(<<"ZINTERSTORE">>, 3, Many, 3, Many, "common_exec"),
  Cmd(<<"ZLEXCOUNT">>, 3, 3, 3, 0, "common_exec"), Cmd(<<"ZRANGE">>, 3, 4, 3, 1, "zrange"),
  Cmd(<<"ZRANGEBYLEX">>, 3, 6, 3, 3, "common_exec"),
  Cmd(<<"ZRANGEBYSCORE">>, 3, 7, 3, 4, "common_exec"),
  Cmd(<<"ZRANK">>, 2, 2, 2, 0, "common_exec") >>

RedisTable12 == <<
  Cmd(<<"ZREM">>, 2, Many, 2, Many, "common_exec"),
  Cmd(<<"ZREMRANGEBYLEX">>, 3, 3, 3, 0, "common_exec"),
  Cmd(<<"ZREMRANGEBYRANK">>, 3, 3, 3, 0, "common_exec"),
  Cmd(<<"ZREMRANGEBYSCORE">>, 3, 3, 3, 0, "common_exec"),
  Cmd(<<"ZREVRANGE">>, 3, 4, 3, 1, "common_exec"),
  Cmd(<<"ZREVRANGEBYLEX">>, 3, 6, 3, 3, "common_exec"),
  Cmd(<<"ZREVRANGEBYSCORE">>, 3, 7, 3, 4, "common_exec"),
  Cmd(<<"ZREVRANK">>, 2, 2, 2, 0, "common_exec"), Cmd(<<"ZSCAN">>, 2, 6, 2, 4, "common_exec"),
  Cmd(<<"ZSCORE">>, 2, 2, 2, 0, "common_exec"),
  Cmd(<<"ZUNIONSTORE">>, 3, Many, 3, Many, "common_exec"),
  Cmd(<<"SENTINEL", "MASTERS">>, 0, 0, 0, 0, "common_exec_off2"),
  Cmd(<<"SENTINEL", "MASTER">>, 1, 1, 1, 0, "common_exec_off2"),
  Cmd(<<"SENTINEL", "SLAVES">>, 1, 1, 1, 0, "common_exec_off2"),
  Cmd(<<"SENTINEL", "SENTINELS">>, 1, 1, 1, 0, "common_exec_off2") >>

RedisTable13 == <<
  Cmd(<<"SENTINEL", "GET-MASTER-ADDR-BY-NAME">>, 1, 1, 1, 0, "common_exec_off2"),
  Cmd(<<"SENTINEL", "RESET">>, 1, 1, 1, 0, "common_exec_off2"),
  Cmd(<<"SENTINEL", "FAILOVER">>, 1, 1, 1, 0, "common_exec_off2"),
  Cmd(<<"SENTINEL", "CKQUORUM">>, 1, 1, 1, 0, "common_exec_off2"),
  Cmd(<<"SENTINEL", "FLUSHCONFIG">>, 0, 0, 0, 0, "common_exec_off2"),
  Cmd(<<"SENTINEL", "MONITOR">>, 4, 4, 4, 0, "common_exec_off2"),
  Cmd(<<"SENTINEL", "REMOVE">>, 1, 1, 1, 0, "common_exec_off2"),
  Cmd(<<"SENTINEL", "SET">>, 3, 3, 3, 0, "common_exec_off2") >>

RedisTable14 == <<
  Cmd(<<"HELP">>, 0, 2, 0, 2, "help") >>

RedisTable ==
  RedisTable1 \o RedisTable2 \o RedisTable3 \o RedisTable4 \o RedisTable5 \o RedisTable6 \o RedisTable7 \o RedisTable8 \o RedisTable9 \o RedisTable10 \o RedisTable11 \o RedisTable12 \o RedisTable13 \o RedisTable14

(* core/memcached/internal/commands_api.h *)
MemcachedTable1 == <<
  Cmd(<<"VERSION">>, 0, 0, 0, 0, "version_server"), Cmd(<<"KEYS">>, 3, 3, 3, 0, "keys"),
  Cmd(<<"STATS">>, 0, 1, 0, 1, "stats"), Cmd(<<"FLUSHDB">>, 0, 1, 0, 1, "flushdb"),
  Cmd(<<"DEL">>, 1, Many, 1, Many, "del"), Cmd(<<"INCR">>, 2, 2, 2, 0, "incr"),
  Cmd(<<"DECR">>, 2, 2, 2, 0, "decr"), Cmd(<<"PREPEND">>, 4, 4, 4, 0, "prepend"),
  Cmd(<<"APPEND">>, 4, 4, 4, 0, "append"), Cmd(<<"REPLACE">>, 4, 4, 4, 0, "replace"),
  Cmd(<<"ADD">>, 4, 4, 4, 0, "add"), Cmd(<<"SET">>, 4, 4, 4, 0, "set"),
  Cmd(<<"GET">>, 1, 1, 1, 0, "get"), Cmd(<<"RENAME">>, 2, 2, 2, 0, "rename"),
  Cmd(<<"QUIT">>, 0, 0, 0, 0, "quit") >>

MemcachedTable2 == <<
  Cmd(<<"DBKCOUNT">>, 0, 0, 0, 0, "dbkcount"), Cmd(<<"HELP">>, 0, 1, 0, 1, "help"),
  Cmd(<<"EXPIRE">>, 2, 2, 2, 0, "expire") >>

MemcachedTable ==
  MemcachedTable1 \o MemcachedTable2

(* core/ssdb/internal/commands_api.h *)
SsdbTable1 == <<
  Cmd(<<"AUTH">>, 1, 1, 1, 0, "auth"), Cmd(<<"SET">>, 2, 2, 2, 0, "set"),
  Cmd(<<"GET">>, 1, 1, 1, 0, "get"), Cmd(<<"RENAME">>, 2, 2, 2, 0, "rename"),
  Cmd(<<"SETX">>, 3, 3, 3, 0, "setx"), Cmd(<<"DEL">>, 1, Many, 1, Many, "del"),
  Cmd(<<"INCR">>, 1, 2, 1, 1, "incr"), Cmd(<<"KEYS">>, 3, 3, 3, 0, "keys"),
  Cmd(<<"SCAN">>, 3, 3, 3, 0, "scan"), Cmd(<<"RSCAN">>, 3, 3, 3, 0, "rscan"),
  Cmd(<<"MULTI_GET">>, 1, Many, 1, 0, "multi_get"),
  Cmd(<<"MULTI_SET">>, 2, Many, 2, Many, "multi_set"),
  Cmd(<<"MULTI_DEL">>, 1, Many, 1, Many, "multi_del"), Cmd(<<"HSET">>, 3, 3, 3, 0, "hset"),
  Cmd(<<"HGET">>, 2, 2, 2, 0, "hget"), Cmd(<<"HDEL">>, 2, 2, 2, 0, "hdel") >>

SsdbTable2 == <<
  Cmd(<<"HINCR">>, 3, 3, 3, 0, "hincr"), Cmd(<<"HSIZE">>, 1, 1, 1, 0, "hsize"),
  Cmd(<<"HCLEAR">>, 1, 1, 1, 0, "hclear"), Cmd(<<"HKEYS">>, 4, 4, 4, 0, "hkeys"),
  Cmd(<<"HGETALL">>, 1, 1, 1, 0, "hgetall"), Cmd(<<"HSCAN">>, 4, 4, 4, 0, "hscan"),
  Cmd(<<"HRSCAN">>, 4, 4, 4, 0, "hrscan"), Cmd(<<"MULTI_HGET">>, 2, 2, 2, 0, "multi_hget"),
  Cmd(<<"MULTI_HSET">>, 3, Many, 3, Many, "multi_hset"), Cmd(<<"ZSET">>, 3, 3, 4, 0, "zset"),
  Cmd(<<"ZGET">>, 2, 2, 2, 0, "zget"), Cmd(<<"ZDEL">>, 2, 2, 2, 0, "zdel"),
  Cmd(<<"ZINCR">>, 3, 3, 3, 0, "zincr"), Cmd(<<"ZSIZE">>, 1, 1, 1, 0, "zsize"),
  Cmd(<<"ZCLEAR">>, 1, 1, 1, 0, "zclear") >>

SsdbTable3 == <<
  Cmd(<<"ZRANK">>, 2, 2, 2, 0, "zrank"), Cmd(<<"ZRRANK">>, 2, 2, 2, 0, "zrrank"),
  Cmd(<<"ZRANGE">>, 3, 3, 3, 0, "zrange"), Cmd(<<"ZRRANGE">>, 3, 3, 3, 0, "zrrange"),
  Cmd(<<"ZKEYS">>, 5, 5, 4, 0, "zkeys"), Cmd(<<"ZSCAN">>, 5, 5, 5, 0, "zscan"),
  Cmd(<<"ZRSCAN">>, 5, 5, 5, 0, "zrscan"), Cmd(<<"MULTI_ZGET">>, 2, 2, 2, 0, "multi_zget"),
  Cmd(<<"MULTI_ZSET">>, 3, Many, 3, Many, "multi_zset"),
  Cmd(<<"MULTI_ZDEL">>, 2, 2, 2, 0, "multi_zdel"), Cmd(<<"INFO">>, 0, 1, 0, 1, "info"),
  Cmd(<<"QPUSH">>, 2, 2, 2, 0, "qpush"), Cmd(<<"QPOP">>, 2, 2, 2, 0, "qpop"),
  Cmd(<<"QSLICE">>, 3, 3, 3, 0, "qslice") >>

SsdbTable4 == <<
  Cmd(<<"QCLEAR">>, 1, 1, 1, 0, "qclear"), Cmd(<<"DBSIZE">>, 0, 0, 0, 0, "dbsize"),
  Cmd(<<"QUIT">>, 0, 0, 0, 0, "quit"), Cmd(<<"DBKCOUNT">>, 0, 0, 0, 0, "dbkcount"),
  Cmd(<<"HELP">>, 0, 1, 0, 1, "help"), Cmd(<<"FLUSHDB">>, 0, 0, 0, 1, "flushdb") >>

SsdbTable ==
  SsdbTable1 \o SsdbTable2 \o SsdbTable3 \o SsdbTable4

(* The embedded stores; the four tables after the one of rocksdb name the same commands. *)
RocksdbTable == <<
  Cmd(<<"SET">>, 2, 2, 2, 0, "set"), Cmd(<<"GET">>, 1, 1, 1, 0, "get"),
  Cmd(<<"MGET">>, 1, Many, 1, Many, "mget"), Cmd(<<"MERGE">>, 2, 2, 2, 0, "merge"),
  Cmd(<<"DEL">>, 1, Many, 1, Many, "del"), Cmd(<<"RENAME">>, 2, 2, 2, 0, "rename"),
  Cmd(<<"KEYS">>, 3, 3, 3, 0, "keys"), Cmd(<<"INFO">>, 1, 1, 1, 0, "info"),
  Cmd(<<"QUIT">>, 0, 0, 0, 0, "quit"), Cmd(<<"DBKCOUNT">>, 0, 0, 0, 0, "dbkcount"),
  Cmd(<<"HELP">>, 0, 1, 0, 1, "help"), Cmd(<<"FLUSHDB">>, 0, 0, 0, 1, "flushdb") >>

LeveldbTable == <<
  Cmd(<<"SET">>, 2, 2, 2, 0, "set"), Cmd(<<"GET">>, 1, 1, 1, 0, "get"),
  Cmd(<<"DEL">>, 1, Many, 1, Many, "del"), Cmd(<<"RENAME">>, 2, 2, 2, 0, "rename"),
  Cmd(<<"KEYS">>, 3, 3, 3, 0, "keys"), Cmd(<<"INFO">>, 1, 1, 1, 0, "info"),
  Cmd(<<"QUIT">>, 0, 0, 0, 0, "quit"), Cmd(<<"DBKCOUNT">>, 0, 0, 0, 0, "dbkcount"),
  Cmd(<<"HELP">>, 0, 1, 0, 1, "help"), Cmd(<<"FLUSHDB">>, 0, 0, 0, 1, "flushdb") >>

LmdbTable == LeveldbTable

UnqliteTable == LeveldbTable

UpscaledbTable == LeveldbTable

=============================================================================
