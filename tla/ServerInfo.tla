----------------------------- MODULE ServerInfo -----------------------------
(***************************************************************************)
(* What a server tells of itself: sections of labelled fields.  Redis      *)
(* sends a text, which is parsed; the infos of the other stores are filled *)
(* in by their drivers.  An info is written to the log of the history and  *)
(* parsed again when the history is shown.                                 *)
(*                                                                         *)
(* A text is a sequence of lines, <<header>> or <<label, value>>.  A value *)
(* is "fits", or "wide" for a number of more than 32 bits or, with a       *)
(* fraction, of more than six significant digits, or "rounded" for the     *)
(* latter cut to six digits.  A field that has been read holds the value,  *)
(* or "nearest" for the float nearest to a wide one, or "none" if it was   *)
(* left empty or 0, or "any" for a number nobody knows.                    *)
(***************************************************************************)
EXTENDS Integers, SequencesExt

Section(name, fields) == [name |-> name, fields |-> fields]

redisServerFields ==
  <<"redis_version", "redis_git_sha1", "redis_git_dirty", "redis_build_id", "redis_mode", "os",
    "arch_bits", "multiplexing_api", "gcc_version", "process_id", "run_id", "tcp_port",
    "uptime_in_seconds", "uptime_in_days", "hz", "lru_clock">>

redisClientFields ==
  <<"connected_clients", "client_longest_output_list", "client_biggest_input_buf",
    "blocked_clients">>

redisMemoryFields ==
  <<"used_memory", "used_memory_human", "used_memory_rss", "used_memory_peak",
    "used_memory_peak_human", "used_memory_lua", "mem_fragmentation_ratio", "mem_allocator">>

redisPersistenceFields ==
  <<"loading", "rdb_changes_since_last_save", "rdb_bgsave_in_progress", "rdb_last_save_time",
    "rdb_last_bgsave_status", "rdb_last_bgsave_time_sec", "rdb_current_bgsave_time_sec",
    "aof_enabled", "aof_rewrite_in_progress", "aof_rewrite_scheduled",
    "aof_last_rewrite_time_sec", "aof_current_rewrite_time_sec", "aof_last_bgrewrite_status",
    "aof_last_write_status">>

redisStatsFields ==
  <<"total_connections_received", "total_commands_processed", "instantaneous_ops_per_sec",
    "rejected_connections", "sync_full", "sync_partial_ok", "sync_partial_err", "expired_keys",
    "evicted_keys", "keyspace_hits", "keyspace_misses", "pubsub_channels", "pubsub_patterns",
    "latest_fork_usec">>

redisReplicationFields ==
  <<"role", "connected_slaves", "master_repl_offset", "repl_backlog_active", "repl_backlog_size",
    "repl_backlog_first_byte_offset", "repl_backlog_histlen">>

redisCpuFields ==
  <<"used_cpu_sys", "used_cpu_user", "used_cpu_sys_children", "used_cpu_user_children">>

memcachedCommonFields ==
  <<"pid", "uptime", "time", "version", "pointer_size", "rusage_user", "rusage_system",
    "curr_items", "total_items", "bytes", "curr_connections", "total_connections",
    "connection_structures", "cmd_get", "cmd_set", "get_hits", "get_misses", "evictions",
    "bytes_read", "bytes_written", "limit_maxbytes", "threads">>

SsdbCommonFields == <<"version", "links", "total_calls", "dbsize", "binlogs">>

LeveldbCommonFields == <<"compactions_level", "file_size_mb", "time_sec", "read_mb", "write_mb">>
rockCommonFields    == <<"compactions_level", "file_size_mb", "time_sec", "read_mb", "write_mb">>
lmdbCommonFields      == <<"db_path">>
unqliteCommonFields   == <<"file_name">>
upscaledbCommonFields == <<"db_path">>

InfoFields ==
  [redis |-> <<Section("# Server", redisServerFields), Section("# Clients", redisClientFields),
               Section("# Memory", redisMemoryFields),
               Section("# Persistence", redisPersistenceFields),
               Section("# Stats", redisStatsFields),
               Section("# Replication", redisReplicationFields),
               Section("# CPU", redisCpuFields), Section("# Keyspace", <<>>)>>,
   memcached |-> <<Section("# Common", memcachedCommonFields)>>,
   ssdb      |-> <<Section("# Common", SsdbCommonFields)>>,
   leveldb   |-> <<Section("# Stats", LeveldbCommonFields)>>,
   rocksdb   |-> <<Section("# Stats", rockCommonFields)>>,
   lmdb      |-> <<Section("# Stats", lmdbCommonFields)>>,
   unqlite   |-> <<Section("# Stats", unqliteCommonFields)>>,
   upscaledb |-> <<Section("# Stats", upscaledbCommonFields)>>]

InfoTypes == DOMAIN InfoFields

\* Fields that are kept as text; the others are numbers.
TextFields ==
  {"redis_version", "redis_git_sha1", "redis_git_dirty", "redis_build_id", "redis_mode", "os",
   "multiplexing_api", "gcc_version", "run_id", "used_memory_human", "used_memory_peak_human",
   "mem_allocator", "rdb_last_bgsave_status", "aof_last_bgrewrite_status",
   "aof_last_write_status", "role", "version", "binlogs", "db_path", "file_name"}

\* Numbers with a fraction, kept as floats.
FloatFields == {"mem_fragmentation_ratio", "used_cpu_sys", "used_cpu_user",
                "used_cpu_sys_children", "used_cpu_user_children"}

\* The field of redis that is neither read nor written.
Forgotten == {"redis_build_id"}

-----------------------------------------------------------------------------
(* Reading. *)

\* A number that does not fit: what the conversion to 32 bits makes of it is open; a
\* float is the nearest there is.
Converted(label, value) ==
  CASE value # "wide" \/ label \in TextFields -> value
    [] value = "wide" /\ label \in FloatFields -> "nearest"
    [] OTHER -> "any"

\* What a field of an info made from nothing holds: memcached and ssdb leave the
\* numbers unset.
Default(type, label) ==
  IF type \in {"memcached", "ssdb"} /\ label \notin TextFields THEN "any" ELSE "none"

\* What a field made from a text without it holds: only redis sets its numbers.
Unset(type, label) == IF type # "redis" /\ label \notin TextFields THEN "any" ELSE "none"

\* The constructors Server(text), Clients(text), .. and Stats(text): of two lines
\* with one label the last counts.
FieldsOf(type, section, part) ==
  LET lines(label) == {i \in DOMAIN part : Len(part[i]) = 2 /\ part[i][1] = label}
  IN [label \in Range(section.fields) |->
        IF lines(label) = {} \/ label \in Forgotten THEN Unset(type, label)
        ELSE Converted(label, part[Max(lines(label))][2])]

\* A section that is read from nothing.
NoPart == << <<>> >>

\* The part of the text each section is read from.  A section is read when the
\* header of the next has been found after it, so the last never is; once a header
\* is missing nothing more is.
PartsBetween(type, text) ==
  LET heads == InfoFields[type]
      Found(at, j) == {p \in at + 1 .. Len(text) : text[p] = <<heads[j + 1].name>>}
      Step(done, j) ==
        IF done.at = 0 \/ Found(done.at, j) = {} THEN [done EXCEPT !.at = 0]
        ELSE LET next == Min(Found(done.at, j))
             IN [at |-> next, parts |-> [done.parts EXCEPT ![j] = SubSeq(text, done.at + 1, next - 1)]]
      first == IF text # <<>> /\ text[1] = <<heads[1].name>> THEN 1 ELSE 0
  IN FoldLeft(Step, [at |-> first, parts |-> [j \in DOMAIN heads |-> NoPart]],
              [j \in 1 .. Len(heads) - 1 |-> j]).parts

\* Everything after the header of the only section.
PartAfter(type, text) ==
  <<IF text # <<>> /\ text[1] = <<InfoFields[type][1].name>> THEN Tail(text) ELSE NoPart>>

Parts(type, text) ==
  IF type \in {"redis", "memcached"} THEN PartsBetween(type, text) ELSE PartAfter(type, text)

\* MakeRedisServerInfo, MakeMemcachedServerInfo, ..
MakeServerInfo(type, text) ==
  LET parts == Parts(type, text)
  IN [s \in DOMAIN parts |->
        LET section == InfoFields[type][s]
        IN IF parts[s] = NoPart THEN [label \in Range(section.fields) |-> Default(type, label)]
           ELSE FieldsOf(type, section, parts[s])]

\* ValueByIndexes: each section keeps its fields in the order of the table.
ValueByIndexes(type, info, property, field) == info[property][InfoFields[type][property].fields[field]]

\* CurrentServerInfo: redis parses the text the server sent, while the other drivers
\* set the fields they were told of in an info made from nothing.
CurrentServerInfo(type, text) ==
  IF type = "redis" THEN MakeServerInfo(type, text)
  ELSE LET section == InfoFields[type][1]
           told == {text[i][1] : i \in DOMAIN text}
       IN <<[label \in Range(section.fields) |->
               IF label \in told THEN FieldsOf(type, section, text)[label] ELSE Default(type, label)]>>

-----------------------------------------------------------------------------
(* Writing. *)

\* A value in a stream: a float is given six significant digits.
Printed(value) == IF value = "nearest" THEN "rounded" ELSE value

\* operator<< of a section: its fields under its header.
SectionLines(section, values) ==
  LET labels == SelectSeq(section.fields, LAMBDA label : label \notin Forgotten)
  IN << <<section.name>> >> \o [i \in DOMAIN labels |-> <<labels[i], Printed(values[labels[i]])>>]

\* Mutant: a section without fields is left out.
TextOfFilled(type, info) ==
  FlattenSeq([s \in DOMAIN info |-> IF DOMAIN info[s] = {} THEN <<>>
                                    ELSE SectionLines(InfoFields[type][s], info[s])])

\* ServerInfo::ToString
TextOf(type, info) ==
  FlattenSeq([s \in DOMAIN info |-> SectionLines(InfoFields[type][s], info[s])])
=============================================================================
