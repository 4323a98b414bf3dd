--------------------------- MODULE ConnectionText ---------------------------
(***************************************************************************)
(* Connection settings and the texts they are kept in between two runs of  *)
(* the program.  The command line of a connection is written from its      *)
(* configuration and parsed back into one; the connection itself is        *)
(* written as fields separated by commas; clusters and sentinels hold the  *)
(* texts of their nodes.                                                   *)
(*                                                                         *)
(* A text is its sequence of fields and a command line its sequence of     *)
(* words.  Nothing is escaped, so that a name or a word holding a comma is *)
(* several pieces of text: it is the sequence of those pieces.  A value    *)
(* with a space in it is several words.  Quotes are left out.              *)
(***************************************************************************)
EXTENDS Integers, SequencesExt

RemoteTypes == {"redis", "memcached", "ssdb"}
LocalTypes  == {"leveldb", "rocksdb", "unqlite", "lmdb", "upscaledb"}
ConnectionTypes == RemoteTypes \cup LocalTypes

IsRemoteType(type) == type \in RemoteTypes
IsCanSSHConnection(type) == type = "redis"

-----------------------------------------------------------------------------
(* Configurations: the values (sequences of words) of the options set.     *)

\* Options in the order in which they are written.  Only an option that is not empty is,
\* and a word of a line is never empty.
Args(type) == IF IsRemoteType(type) THEN <<"-h", "-p", "-d", "-ns">> ELSE <<"-f", "-d", "-ns">>

RedisOptions == <<"-s", "-i", "-n", "-a", "--latency", "--latency-history", "--slave", "--stat",
                  "--scan", "--pattern", "--intrinsic-latency", "--rdb", "--bigkeys", "--eval", "-c">>
MemcachedOptions == <<"-u", "-a">>
SsdbOptions      == <<"-u", "-a">>
LeveldbOptions   == <<"-c">>
RocksdbOptions   == <<"-c">>
UnqliteOptions   == <<"-c">>
LmdbOptions      == <<"-c">>
UpscaledbOptions == <<"-c">>

OptionsOf == [redis |-> RedisOptions, memcached |-> MemcachedOptions, ssdb |-> SsdbOptions,
              leveldb |-> LeveldbOptions, rocksdb |-> RocksdbOptions, unqlite |-> UnqliteOptions,
              lmdb |-> LmdbOptions, upscaledb |-> UpscaledbOptions]

Options(type) == Args(type) \o OptionsOf[type]

\* Options that stand alone.
Flags == {"--latency", "--latency-history", "--slave", "--stat", "--scan", "--bigkeys", "-c"}

\* A word of one piece.
Word(piece) == <<piece>>

Zero == Word("0")

\* -i takes seconds and keeps microseconds, but whole seconds are what is written.
WholeSeconds(word) == CASE word = Word("0.1") -> Zero
                        [] word = Word("1.5") -> Word("1")
                        [] OTHER -> word

\* A host with port 0 is not valid.
HostValid(config) == config["-p"] # <<Zero>>

\* What a new configuration holds: a host and a port or a path, \n and a colon.
Config(type) == [o \in Range(Args(type)) |-> <<Word("default")>>]

\* Setting an option; an interval and a database of 0 are as good as none, and
\* --latency-history sets --latency as well.
With(config, option, value) ==
  LET set == IF option \in {"-i", "-n"} /\ value = <<Zero>> THEN {}
             ELSE {option} \cup (IF option = "--latency-history" THEN {"--latency"} ELSE {})
      kept == DOMAIN config \ {option}
  IN [o \in kept \cup set |-> IF o \in set THEN value ELSE config[o]]

\* The words an option and its value are written as.  For --intrinsic-latency
\* that is its mode, which is 1, before its duration.  A host that is not valid is
\* not written at all.
WrittenOption(config, option) ==
  IF \/ option \notin DOMAIN config
     \/ option = "--latency" /\ "--latency-history" \in DOMAIN config
     \/ option \in {"-h", "-p"} /\ ~HostValid(config)
  THEN <<>>
  ELSE CASE option = "-i" -> <<Word(option), WholeSeconds(config[option][1])>>
         [] option = "--intrinsic-latency" -> <<Word(option), Word("1")>> \o config[option]
         [] OTHER -> <<Word(option)>> \o config[option]

CommandLine(type, config) ==
  FlattenSeq([i \in DOMAIN Options(type) |-> WrittenOption(config, Options(type)[i])])

\* parseOptions: it ends at the first word that is not an option; an option whose
\* value is missing is not one.
SetCommandLine(type, line) ==
  LET valued == Range(Options(type)) \ Flags
      Read(state, word) ==
        IF state.over THEN state
        ELSE IF state.option # ""
        THEN [state EXCEPT !.config = With(@, state.option, <<word>>), !.option = ""]
        ELSE CASE word \in {Word(o) : o \in valued} -> [state EXCEPT !.option = word[1]]
               [] word \in {Word(o) : o \in Range(Options(type)) \cap Flags} ->
                    [state EXCEPT !.config = With(@, word[1], <<>>)]
               [] OTHER -> [state EXCEPT !.over = TRUE]
  IN FoldLeft(Read, [config |-> Config(type), option |-> "", over |-> FALSE], line).config

-----------------------------------------------------------------------------
(* Connections.  The address and the method of an ssh tunnel stand for what *)
(* its lines hold: the first and the last of them.                          *)

NoSSH == [host |-> "default", method |-> "unknown"]

\* A connection as the factory makes it from a type and a path.
CreateFromType(type, path) ==
  [type |-> type, path |-> path, ms |-> 0, config |-> Config(type), ssh |-> NoSSH]

Field(is, value) == [is |-> is, value |-> value]

\* The pieces of a line: up to its first comma, and the rest.
LineFields(line) ==
  IF \E i \in DOMAIN line : Len(line[i]) > 1
  THEN LET k == CHOOSE i \in DOMAIN line :
                  /\ Len(line[i]) > 1
                  /\ \A j \in 1 .. i - 1 : Len(line[j]) = 1
       IN <<Field("line", Append(SubSeq(line, 1, k - 1), Word(line[k][1]))), Field("rest", line)>>
  ELSE <<Field("line", line)>>

ConnectionToString(c) ==
  <<Field("type", c.type)>>
  \o [i \in DOMAIN c.path |-> Field("name", c.path[i])]
  \o <<Field("ms", c.ms)>>
  \o LineFields(CommandLine(c.type, c.config))
  \o (IF IsCanSSHConnection(c.type) THEN <<Field("ssh", c.ssh)>> ELSE <<>>)

\* The lines of an ssh tunnel, read from the fields after the first four: when
\* something stands before them the first, the address, is not recognised.
SSHInfo(fields) ==
  IF Last(fields).is # "ssh" THEN NoSSH
  ELSE [Last(fields).value EXCEPT !.host = IF Len(fields) = 5 THEN @ ELSE "default"]

\* The whole line a local store's text ends with, commas included.
RestOfLine(fields) ==
  IF fields[4].is # "line" THEN <<Word("other")>>
  ELSE IF Len(fields) = 5 THEN fields[5].value ELSE fields[4].value

\* The fields are taken as they come.  The command line of a remote type ends at
\* the comma after it, and without that comma it is never set.
CreateFromString(fields) ==
  LET type == fields[1].value
      line == IF ~IsRemoteType(type) THEN RestOfLine(fields)
              ELSE IF fields[4].is = "line" THEN fields[4].value ELSE <<Word("other")>>
      set  == ~IsRemoteType(type) \/ Len(fields) > 4
  IN [CreateFromType(type, <<fields[2].value>>) EXCEPT
        !.ms = IF fields[3].is = "ms" THEN fields[3].value ELSE 0,
        !.config = IF set THEN SetCommandLine(type, line) ELSE Config(type),
        !.ssh = IF IsCanSSHConnection(type) /\ set THEN SSHInfo(fields) ELSE NoSSH]

\* A text of a redis connection that has lost its last character: the last line
\* of the ssh tunnel, its method, has no end and is not read.
CutLast(fields) ==
  [fields EXCEPT ![Len(fields)].value = [@ EXCEPT !.method = "unknown"]]

-----------------------------------------------------------------------------
(* Clusters and sentinels, of redis connections only.  Their names hold no *)
(* comma.                                                                  *)

Cluster(path, nodes) == [path |-> path, ms |-> 0, nodes |-> nodes]

\* The texts of the nodes, the last of which loses a character when the end of
\* the whole text is taken for the sign between two of them.
NodesFromString(texts) ==
  [i \in DOMAIN texts |-> CreateFromString(IF i = Len(texts) THEN CutLast(texts[i]) ELSE texts[i])]

ClusterToString(c) == [path |-> c.path, ms |-> c.ms,
                       nodes |-> [i \in DOMAIN c.nodes |-> ConnectionToString(c.nodes[i])]]

ClusterFromString(text) == [text EXCEPT !.nodes = NodesFromString(@)]

\* A group is a sentinel and the nodes it watches.
Group(sentinel, nodes) == [sentinel |-> sentinel, nodes |-> nodes]

Sentinel(path, groups) == [path |-> path, ms |-> 0, groups |-> groups]

SentinelToString(s) ==
  [path |-> s.path, ms |-> s.ms,
   groups |-> [i \in DOMAIN s.groups |->
                 Group(ConnectionToString(s.groups[i].sentinel),
                       [j \in DOMAIN s.groups[i].nodes |-> ConnectionToString(s.groups[i].nodes[j])])]]

\* The text of the last group also loses its last character: it is the end of the
\* encoded nodes, or without nodes the end of the encoded sentinel.  lenient: the
\* decoder returns what an unfinished code holds (it may be padding that is missing).
GroupFromString(text, last, lenient) ==
  Group(CreateFromString(IF last /\ text.nodes = <<>> /\ ~lenient
                         THEN CutLast(text.sentinel) ELSE text.sentinel),
        NodesFromString(text.nodes))

SentinelFromString(text, lenient) ==
  [text EXCEPT !.groups = [i \in DOMAIN @ |-> GroupFromString(@[i], i = Len(@), lenient)]]

-----------------------------------------------------------------------------
\* Settings whose text says all there is to say of them: of a type that keeps its
\* command line, without commas (unless local) and spaces, with a port that is not 0,
\* an interval of whole seconds and without --intrinsic-latency, which is not written
\* as it is read.
Plain(c) ==
  /\ ~IsRemoteType(c.type) \/ IsCanSSHConnection(c.type)
  /\ Len(c.path) = 1
  /\ "--intrinsic-latency" \notin DOMAIN c.config
  /\ IsRemoteType(c.type) => HostValid(c.config)
  /\ "-i" \in DOMAIN c.config => WholeSeconds(c.config["-i"][1]) = c.config["-i"][1]
  /\ \A o \in DOMAIN c.config :
       /\ Len(c.config[o]) <= 1
       /\ \A i \in DOMAIN c.config[o] : ~IsRemoteType(c.type) \/ Len(c.config[o][i]) = 1
=============================================================================
