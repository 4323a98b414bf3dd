----------------------------- MODULE MCHistory -----------------------------
(* Replies of all types of servers for the model of the history. *)
EXTENDS HistoryLog

\* A section with all its fields and one this program does not know.
Sent(section, value) ==
  << <<section.name>> >> \o [i \in DOMAIN section.fields |-> <<section.fields[i], value>>]
  \o << <<"unknown", value>> >>

\* The sections of a redis reply, by their numbers; 0 is one that is not known.
SentSections(numbers, value) ==
  FlattenSeq([i \in DOMAIN numbers |->
    IF numbers[i] = 0 THEN << <<"# Cluster">>, <<"cluster_enabled", value>> >>
    ELSE Sent(InfoFields["redis"][numbers[i]], value)])

\* A redis server, one with a section more, one that lacks a section, a sentinel
\* (Server, Clients, CPU, Stats), and a reply without sections.
RedisReplies ==
  {SentSections(<<1, 2, 3, 4, 5, 6, 7, 8>>, "fits"), SentSections(<<1, 2, 3, 4, 5, 6, 7, 0, 8>>, "wide"),
   SentSections(<<1, 2, 3, 5, 6, 7, 8>>, "fits"), SentSections(<<1, 2, 7, 5, 0>>, "fits"),
   Tail(SentSections(<<1>>, "fits"))}

MCReplies ==
  {[type |-> "redis", text |-> text] : text \in RedisReplies}
  \cup {[type |-> type, text |-> Tail(Sent(InfoFields[type][1], value))] :
          type \in InfoTypes \ {"redis"}, value \in {"fits", "wide"}}
  \cup {[type |-> type, text |-> <<>>] : type \in {"ssdb", "leveldb", "rocksdb"}}
=============================================================================
