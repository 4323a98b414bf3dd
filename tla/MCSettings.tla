----------------------------- MODULE MCSettings -----------------------------
(***************************************************************************)
(* Settings a user of the dialogs may enter: plain ones, and one for each  *)
(* thing the texts do not keep.                                            *)
(***************************************************************************)
EXTENDS Settings

Make(type, name, ms, option, value, ssh) ==
  [CreateFromType(type, name) EXCEPT !.ms = ms, !.config = With(@, option, value), !.ssh = ssh]

Tunnel == [host |-> "gate", method |-> "password"]
Value  == <<Word("x")>>
Comma  == <<<<"x", "y">>>>
Space  == <<Word("x"), Word("y")>>
OddName == <<"a", "b">>

MCConnections ==
  {Make("redis", <<"r">>, 10, "--latency-history", <<>>, Tunnel),
   Make("redis", <<"i">>, 0, "-i", <<Word("0.1")>>, NoSSH),
   Make("redis", <<"i">>, 0, "-i", <<Word("1.5")>>, NoSSH),
   Make("redis", <<"p">>, 0, "-p", <<Zero>>, NoSSH),
   Make("redis", OddName, 10, "--intrinsic-latency", Value, Tunnel),
   Make("memcached", <<"m">>, 10, "-u", Comma, NoSSH),
   Make("ssdb", <<"s">>, 0, "-a", Value, NoSSH),
   Make("leveldb", <<"l">>, 10, "-f", Comma, NoSSH),
   Make("lmdb", <<"r">>, 10, "-c", <<>>, NoSSH),
   Make("unqlite", <<"u">>, 0, "-ns", Space, NoSSH)}

Node(name) == Make("redis", <<name>>, 0, "-p", Value, Tunnel)

MCClusters == {Cluster(<<"c">>, <<>>), Cluster(<<"c">>, <<Node("1"), Node("2")>>)}

MCSentinels == {Sentinel(<<"s">>, <<Group(Node("1"), <<Node("2"), Node("3")>>),
                                    Group(Node("4"), <<>>)>>)}
=============================================================================
