---------------------------- MODULE MCConnections ----------------------------
(***************************************************************************)
(* Instance of RedisLink for TLC: every store, two keys, two values.       *)
(***************************************************************************)
EXTENDS RedisLink

\* Modes alone, and lists in which one mode inherits the stream or the interrupt flag
\* of another.
MCModeLists ==
  {<<"latency">>, <<"slave">>, <<"rdb">>, <<"bigkeys">>, <<"stat">>, <<"scan">>,
   <<"latency", "stat">>, <<"bigkeys", "scan">>}
=============================================================================
