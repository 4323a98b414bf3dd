------------------------------ MODULE Commands ------------------------------
(***************************************************************************)
(* From a console line to a method of the connection:                      *)
(* CommandHandler::Execute with CommandHolder::IsCommand over the tables,  *)
(* and the other way round the command translators, with which the         *)
(* explorer, the dialogs and the output widget write the lines they run.   *)
(* A line is the sequence of its words, in upper case where the comparison *)
(* ignores case.                                                           *)
(***************************************************************************)
EXTENDS CommandTable, CommandHandlers, FiniteSets

Embedded == {"rocksdb", "leveldb", "lmdb", "unqlite", "upscaledb"}
AllStores == {"redis", "memcached", "ssdb"} \cup Embedded

(* The table a connection is built with, CommandHandler::commands_. *)
Table ==
  [s \in AllStores |->
     CASE s = "redis" -> RedisTable
       [] s = "memcached" -> MemcachedTable
       [] s = "ssdb" -> SsdbTable
       [] s = "rocksdb" -> RocksdbTable
       [] s = "leveldb" -> LeveldbTable
       [] s = "lmdb" -> LmdbTable
       [] s = "unqlite" -> UnqliteTable
       [] s = "upscaledb" -> UpscaledbTable]

Handlers ==
  [s \in AllStores |->
     CASE s = "redis" -> RedisHandlers
       [] s = "memcached" -> MemcachedHandlers
       [] s = "ssdb" -> SsdbHandlers
       [] s = "rocksdb" -> RocksdbHandlers
       [] s = "leveldb" -> LeveldbHandlers
       [] s = "lmdb" -> LmdbHandlers
       [] s = "unqlite" -> UnqliteHandlers
       [] s = "upscaledb" -> UpscaledbHandlers]

(* Commands whose entry refuses what its own params string documents. *)
Narrower ==
  {<<"redis", "BITOP">>, <<"redis", "BRPOPLPUSH">>, <<"redis", "GEOADD">>,
   <<"ssdb", "MULTI_GET">>, <<"ssdb", "ZSET">>, <<"ssdb", "ZKEYS">>}

(* Commands of ssdb whose handler reads past the arguments its table lets through: *)
(* INCR with one argument, ZKEYS, and the pair commands with a key without a value. *)
Misread == {"incr", "zkeys", "multi_set", "multi_hset", "multi_zset"}

(* What an entry of a table is. *)
Entry(s) == [name : Seq(STRING), documented : SUBSET Nat, required : Nat, optional : Nat,
             func : DOMAIN Handlers[s]]

(* What the handler h of the entry c takes from a line, whatever it is: no position      *)
(* beyond the required arguments, or exactly the words of the name and the arguments.    *)
TakesRequired(c, h) ==
  \/ /\ h.argv.kind = "at"
     /\ \A n \in DOMAIN h.argv.of : h.argv.of[n] \in 0 .. c.required - 1
  \/ h.argv.kind = "optional"
  \/ h.argv.kind = "rest" /\ h.argv.n \in 0 .. c.required
  \/ h.argv.kind = "back" /\ h.argv.n = Len(c.name)

(* The entry c of the store s, by itself. *)
EntryHolds(s, c) ==
  /\ Len(c.name) \in 1 .. 2
  /\ c.required + c.optional < 65536
  /\ <<s, c.name[1]>> \notin Narrower => c.documented \subseteq c.required .. c.required + c.optional
  /\ ~ (s = "ssdb" /\ c.func \in Misread) => TakesRequired(c, Handlers[s][c.func])
  /\ Handlers[s][c.func].call \in {"CommonExec", "Monitor", "Subscribe"} =>
       Handlers[s][c.func].argv = Back(Len(c.name))
  /\ Handlers[s][c.func].out \in
       {"none", "value", "array", "stats", "ttl", "help", "reply", "stream", "unsupported"}

(* The name of c is not the beginning of the name of d. *)
NotBegun(c, d) ==
  Len(c.name) >= Len(d.name) \/ SubSeq(d.name, 1, Len(c.name)) # c.name

(* The tables are text of the program; that they say this is evaluated entry by entry. *)
ASSUME TablesAssumption ==
  \A s \in AllStores :
    /\ Table[s] \in Seq(Entry(s))
    /\ \A j \in DOMAIN Table[s] : EntryHolds(s, Table[s][j])
    /\ \A i, j \in DOMAIN Table[s] : i < j => NotBegun(Table[s][i], Table[s][j])

-----------------------------------------------------------------------------
(* CommandHolder::IsCommand: the first words of the line, joined, are the name.  A *)
(* line exactly one word shorter than the name is no match.                        *)
IsFirstWord(cmd, line) == Len(line) > 0 /\ line[1] = cmd.name[1]   \* mutant
IsCommand(cmd, line) ==
  /\ Len(line) > 0
  /\ Len(line) # Len(cmd.name) - 1
  /\ Len(line) > Len(cmd.name) - 1
  /\ SubSeq(line, 1, Len(cmd.name)) = cmd.name

(* CHECK(uargc > white_spaces_count_): a line shorter still ends the program. *)
CheckHolds(cmd, line) ==
  Len(line) > 0 => \/ Len(line) = Len(cmd.name) - 1
                   \/ Len(line) > Len(cmd.name) - 1

(* MinArgumentsCount is an uint8_t, MaxArgumentsCount an uint16_t. *)
NoMinimum(cmd) == 0   \* mutant
MinArgumentsCount(cmd) == cmd.required
MaxInOneByte(cmd) == (cmd.required + cmd.optional) % 256   \* mutant
MaxArgumentsCount(cmd) == (cmd.required + cmd.optional) % 65536

(* CommandHandler::Execute: the first entry of the table that matches decides. *)
Execute(store, line) ==
  LET T == Table[store]
      hits == {j \in DOMAIN T : IsCommand(T[j], line)}
      j == CHOOSE h \in hits : \A g \in hits : h <= g
      tried == IF hits = {} THEN DOMAIN T ELSE 1 .. j
      argc == Len(line) - Len(T[j].name)
  IN IF \E g \in tried : ~ CheckHolds(T[g], line) THEN [what |-> "abort"]
     ELSE IF hits = {} THEN [what |-> "unknown"]
     ELSE IF argc > MaxArgumentsCount(T[j]) \/ argc < MinArgumentsCount(T[j])
     THEN [what |-> "arguments", cmd |-> T[j]]
     ELSE [what |-> "call", cmd |-> T[j], argc |-> argc, h |-> Handlers[store][T[j].func]]

(* The words the call gets: argv + off is the first argument. *)
Passed(line, ex) ==
  LET off == Len(ex.cmd.name)
      pos == Positions(ex.h.argv, ex.argc)
  IN [n \in DOMAIN pos |-> line[off + 1 + pos[n]]]

-----------------------------------------------------------------------------
(* The translators.  A request names the operation, the type of the value, the  *)
(* value as the words its string form has, and whether the ttl is -1.  No words *)
(* means the translator answers that the store does not support it.             *)

KeyTypes == {"string", "array", "set", "zset", "hash"}

RedisCreateKey(type, value) ==
  <<CASE type = "array" -> "LPUSH"
      [] type = "set" -> "SADD"
      [] type = "zset" -> "ZADD"
      [] type = "hash" -> "HMSET"
      [] OTHER -> "SET", "key">> \o value

RedisLoadKey(type) ==
  CASE type = "array" -> <<"LRANGE", "key", "0", "-1">>
    [] type = "set" -> <<"SMEMBERS", "key">>
    [] type = "zset" -> <<"ZRANGE", "key", "0", "-1", "WITHSCORES">>
    [] type = "hash" -> <<"HGETALL", "key">>
    [] OTHER -> <<"GET", "key">>

RedisTTLDropped(forever) == IF forever THEN <<"EXPIRE", "key">> ELSE <<"EXPIRE", "key", "10">>   \* mutant
RedisChangeTTL(forever) == IF forever THEN <<"PERSIST", "key">> ELSE <<"EXPIRE", "key", "10">>

RedisTranslator(req) ==
  CASE req.op = "create" -> RedisCreateKey(req.type, req.value)
    [] req.op = "load" -> RedisLoadKey(req.type)
    [] req.op = "delete" -> <<"DEL", "key">>
    [] req.op = "rename" -> <<"RENAME", "key", "new">>
    [] req.op = "ttl" -> RedisChangeTTL(req.forever)

SsdbTranslator(req) ==
  CASE req.op = "create" -> RedisCreateKey(req.type, req.value)
    [] req.op = "load" ->
         CASE req.type = "zset" -> <<"ZRANGE", "key", "0", "-1">>
           [] req.type = "hash" -> <<"HGET", "key">>
           [] OTHER -> RedisLoadKey(req.type)
    [] req.op = "delete" -> <<"DEL", "key">>
    [] req.op = "rename" -> <<"RENAME", "key", "new">>
    [] req.op = "ttl" -> <<>>

MemcachedTranslator(req) ==
  CASE req.op = "create" -> <<"SET", "key", "0", "0">> \o req.value
    [] req.op = "load" -> <<"GET", "key">>
    [] req.op = "delete" -> <<"DEL", "key">>
    [] req.op = "rename" -> <<"RENAME", "key", "new">>
    [] req.op = "ttl" -> <<"EXPIRE", "key", IF req.forever THEN "-1" ELSE "10">>

RocksdbTranslator(req) ==
  CASE req.op = "create" -> <<"SET", "key">> \o req.value
    [] req.op = "load" -> <<"GET", "key">>
    [] req.op = "delete" -> <<"DEL", "key">>
    [] req.op = "rename" -> <<"RENAME", "key", "new">>
    [] req.op = "ttl" -> <<>>

(* The same patterns in the other embedded stores. *)
LeveldbTranslator(req) == RocksdbTranslator(req)
LmdbTranslator(req) == RocksdbTranslator(req)
UnqliteTranslator(req) == RocksdbTranslator(req)
UpscaledbTranslator(req) == RocksdbTranslator(req)

(* IServer::Translator, then the method of ICommandTranslator for the request. *)
Translate(store, req) ==
  CASE store = "redis" -> RedisTranslator(req)
    [] store = "ssdb" -> SsdbTranslator(req)
    [] store = "memcached" -> MemcachedTranslator(req)
    [] store = "rocksdb" -> RocksdbTranslator(req)
    [] store = "leveldb" -> LeveldbTranslator(req)
    [] store = "lmdb" -> LmdbTranslator(req)
    [] store = "unqlite" -> UnqliteTranslator(req)
    [] store = "upscaledb" -> UpscaledbTranslator(req)

(* DBTraits<...>::SupportedTypes of core/<store>/server_info: what the dialogs offer. *)
SupportedTypes(store) == IF store \in {"redis", "ssdb"} THEN KeyTypes ELSE {"string"}

=============================================================================
