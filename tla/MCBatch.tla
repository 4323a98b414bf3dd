------------------------------ MODULE MCBatch ------------------------------
(***************************************************************************)
(* The batches checked: every command of every store with every number of  *)
(* arguments around its limits; every line the translators write; and      *)
(* batches of one and two lines, repeated and not, whose answers reach the  *)
(* output widget.                                                          *)
(***************************************************************************)
EXTENDS Batch

CONSTANT Stores

Job(store, lines, req, repeat, history, silence) ==
  [store |-> store, lines |-> lines, req |-> req, repeat |-> repeat, history |-> history,
   silence |-> silence]

ArgCounts == 0 .. 12 \cup {255, 257, 259}
Words(n) == [i \in 1 .. n |-> "arg"]
TypedLines(store) ==
  LET T == Table[store]
  IN {T[j].name \o Words(n) : j \in DOMAIN T, n \in ArgCounts}
       \cup {SubSeq(T[j].name, 1, 1) : j \in DOMAIN T} \cup {<<"NOSUCH", "arg">>}

TypedJobs ==
  UNION {{Job(s, <<l>>, Typed, 0, TRUE, TRUE) : l \in TypedLines(s)} : s \in Stores}

Requests(store) ==
  LET types == SupportedTypes(store)
      value(t) == IF t \in {"hash", "zset"} THEN <<"field", "value">> ELSE <<"value">>
      req(op, t, f) == [op |-> op, type |-> t, value |-> value(t), forever |-> f]
  IN {q \in {req(op, t, f) : op \in {"create", "load", "delete", "rename", "ttl"},
                             t \in types, f \in BOOLEAN} : Translate(store, q) # <<>>}
TranslatedJobs ==
  UNION {{Job(s, <<Translate(s, q)>>, q, 0, TRUE, TRUE) : q \in Requests(s)} : s \in Stores}

(* Lines with no, one and two answers, with arrays, with keys in common, and unknown. *)
ShownLines ==
  {<<"GET", "k">>, <<"SET", "k", "v">>, <<"HELP", "GET">>, <<"HELP", "x">>, <<"SORT", "k">>, <<"NOSUCH">>}
SmallBatches == {<<a>> : a \in ShownLines} \cup {<<a, b>> : a, b \in ShownLines}
ShownJobs ==
  {Job("redis", b, Typed, r, h, FALSE) : b \in SmallBatches, r \in {0, 1, WatchRepeat}, h \in BOOLEAN}
    \cup {Job("rocksdb", <<<<"FLUSHDB">>, <<"GET", "k">>>>, Typed, 1, FALSE, FALSE),
          Job("memcached", <<<<"STATS", "items">>, <<"STATS", "arg">>>>, Typed, 1, TRUE, FALSE),
          Job("redis", <<>>, Typed, 0, TRUE, FALSE)}

BatchJobs == TypedJobs \cup TranslatedJobs \cup (IF "redis" \in Stores THEN ShownJobs ELSE {})
=============================================================================
