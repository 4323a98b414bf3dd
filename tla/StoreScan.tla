----------------------------- MODULE StoreScan -----------------------------
(***************************************************************************)
(* The loops behind KEYS, DBKCOUNT and FLUSHDB of the stores.  The cursor  *)
(* walks the keys of a snapshot or of a read transaction in the order of   *)
(* the store; one step of a loop is one step here.  Keys and limits are    *)
(* integers, ordered as the strings they stand for.                        *)
(*                                                                         *)
(* What ssdb and redis list is up to their servers, and so is upscaledb's  *)
(* count.  FLUSHDB is modelled where it deletes behind an iterator that    *)
(* does not see the deletions (leveldb, rocksdb); whether the cursors of   *)
(* lmdb, unqlite and upscaledb skip keys then is up to those libraries.    *)
(***************************************************************************)
EXTENDS Integers, Sequences, Functions

CONSTANTS
  Backends,   \* stores to consider
  Keys,       \* keys a store may hold
  Limits,     \* values of <key_start> and <key_end>
  MaxLimit,   \* bound: largest <limit>
  MaxKeys,    \* bound: keys in the store
  LetterA,    \* "a" and "z", between which memcached
  LetterZ     \* counts its keys

Iterated == {"leveldb", "rocksdb"}
Sorted   == Iterated \cup {"lmdb", "upscaledb"}
Operations == {"keys", "dbkcount", "flushdb"}

ASSUME ConstantsAssumption ==
  /\ Backends \subseteq Sorted \cup {"unqlite", "memcached"}
  /\ Keys \subseteq Int /\ Limits \subseteq Int
  /\ MaxLimit \in Nat /\ MaxKeys \in Nat
  /\ LetterA \in Int /\ LetterZ \in Int

VARIABLES
  backend,    \* the store of this connection
  connected,  \* IsConnected
  op,         \* the command
  start, end, \* key_start and key_end, both of the call
  limit,      \* limit of the call
  walk,       \* the keys in the order of the cursor
  stored,     \* the keys in the store
  pos,        \* the position of the cursor in walk
  key,        \* position of the key in upscaledb's key buffer
  ret,        \* the keys listed
  count,      \* keys counted
  cut,        \* the cursor failed and the loop took that for the end
  pc          \* "call", "loop", "ok" or "error"

call == <<backend, connected, op, start, end, limit, walk>>
vars == <<call, stored, pos, key, ret, count, cut, pc>>

\* Walks over the keys of a store: each key once, ascending if the store sorts.
IsWalk(w, b) ==
  /\ w \in Seq(Keys)
  /\ \A i, j \in DOMAIN w : i < j => w[i] # w[j] /\ (b \in Sorted => w[i] < w[j])

Walks == UNION {[1 .. n -> Keys] : n \in 0 .. MaxKeys}

Init ==
  /\ backend \in Backends /\ connected \in BOOLEAN /\ op \in Operations
  /\ op = "flushdb" => backend \in Iterated
  /\ op = "dbkcount" => backend # "upscaledb"
  /\ walk \in Walks /\ IsWalk(walk, backend)
  /\ IF op = "keys"
     THEN start \in Limits /\ end \in Limits /\ limit \in 0 .. MaxLimit
     ELSE start = LetterA /\ end = LetterZ /\ limit = MaxLimit
  /\ stored = Range(walk)
  /\ pos = 1 /\ key = 1 /\ ret = <<>> /\ count = 0 /\ cut = FALSE /\ pc = "call"

-----------------------------------------------------------------------------
Valid == pos <= Len(walk)

\* Mutant: the cursor moves at the head of the loop and in its body.
AdvanceTwice == pos' = pos + 2

Advance == pos' = pos + 1

\* The loop ends and the call returns.
Return(result) == pc' = result /\ UNCHANGED <<call, stored, pos, key, ret, count, cut>>

\* Without a connection, or without the cursor that lmdb, unqlite and upscaledb can
\* fail to give, a call ends before its loop.
Refused ==
  /\ pc = "call"
  /\ connected => backend \in {"lmdb", "unqlite", "upscaledb"}
  /\ Return("error")

\* Seek(key_start): the first position whose key is not before key_start.
AtStart(p) == \A i \in DOMAIN walk : i < p <=> walk[i] < start

\* A cursor is opened; upscaledb's moves to the first key at once, and an empty
\* store ends the call there.
Open ==
  /\ pc = "call" /\ connected
  /\ pc' = IF backend = "upscaledb" /\ walk = <<>> THEN "ok" ELSE "loop"
  /\ IF op = "keys" /\ backend \in Iterated
     THEN \E p \in 1 .. Len(walk) + 1 : AtStart(p) /\ pos' = p
     ELSE pos' = 1
  /\ UNCHANGED <<call, stored, key, ret, count, cut>>

\* Mutant: the end of the range is taken as part of it.
BetweenUpToEnd(k) == start < k /\ k <= end

\* The test of lmdb, unqlite, upscaledb and memcached.
Between(k) == start < k /\ k < end

Listed(k) == ret' = IF Between(k) THEN Append(ret, k) ELSE ret

\* Mutant: one key too many.
FullLater == Len(ret) > limit

Full == Len(ret) >= limit

\* leveldb and rocksdb: the loop stops at key_end and at the limit.
IterateKeys ==
  /\ pc = "loop" /\ op = "keys" /\ backend \in Iterated
  /\ \/ /\ Valid /\ walk[pos] < end /\ ~Full
        /\ ret' = Append(ret, walk[pos]) /\ Advance
        /\ UNCHANGED <<call, stored, key, count, cut, pc>>
     \/ (Valid => walk[pos] >= end \/ Full) /\ Return("ok")

\* lmdb and unqlite: the loop visits every key until the limit is reached.
FilterKeys ==
  /\ pc = "loop" /\ op = "keys" /\ backend \in {"lmdb", "unqlite"}
  /\ \/ /\ Valid /\ ~Full
        /\ Listed(walk[pos]) /\ Advance
        /\ UNCHANGED <<call, stored, key, count, cut, pc>>
     \/ (~Valid \/ Full) /\ Return("ok")

\* memcached's DBKCOUNT is the size of a listing.
Counted == IF op = "dbkcount" /\ backend = "memcached" THEN Len(ret) ELSE count

\* memcached: the dump calls addKey, whose MEMCACHED_END at the limit ends it.
\* DBKCOUNT is such a dump between "a" and "z".
DumpKeys ==
  /\ pc = "loop" /\ backend = "memcached"
  /\ \/ /\ Valid /\ (op = "keys" => ~Full)
        /\ Listed(walk[pos]) /\ Advance
        /\ UNCHANGED <<call, stored, key, count, cut, pc>>
     \/ /\ ~Valid \/ (op = "keys" /\ Full)
        /\ pc' = "ok" /\ count' = Counted
        /\ UNCHANGED <<call, stored, pos, key, ret, cut>>

\* upscaledb: the cursor moves before its key is looked at.  A move beyond the
\* last key leaves the key buffer as it was, and that key is looked at once more.
MoveThenList ==
  LET moved == pos < Len(walk)
      seen  == IF moved THEN pos + 1 ELSE key
  IN /\ pc = "loop" /\ op = "keys" /\ backend = "upscaledb"
     /\ key' = seen
     /\ pos' = IF moved THEN pos + 1 ELSE pos
     /\ Listed(walk[seen])
     /\ pc' = IF moved /\ limit > Len(ret') THEN "loop" ELSE "ok"
     /\ UNCHANGED <<call, stored, count, cut>>

\* Mutant: only the keys between "a" and "z" are counted.
CountLetters == count' = IF Between(walk[pos]) THEN count + 1 ELSE count

CountOne == count' = count + 1

\* DBKCOUNT of the other stores.
CountKeys ==
  /\ pc = "loop" /\ op = "dbkcount" /\ backend # "memcached"
  /\ \/ /\ Valid /\ CountOne /\ Advance
        /\ UNCHANGED <<call, stored, key, ret, cut, pc>>
     \/ ~Valid /\ Return("ok")

\* Mutant: a key that cannot be deleted is passed over.
DeleteFailedSkips == Advance /\ UNCHANGED <<call, stored, key, ret, count, cut, pc>>

\* A deletion that fails ends the call.
DeleteFailed == Return("error")

FlushKeys ==
  /\ pc = "loop" /\ op = "flushdb"
  /\ \/ /\ Valid
        /\ stored' = stored \ {walk[pos]} /\ Advance
        /\ UNCHANGED <<call, key, ret, count, cut, pc>>
     \/ Valid /\ DeleteFailed
     \/ ~Valid /\ Return("ok")

\* The cursor fails.  leveldb and rocksdb look at the iterator's status after the
\* loop and upscaledb at that of the move; lmdb and unqlite only see that there is
\* no key, and memcached tells one of its error codes from an end.
CursorFails ==
  /\ pc = "loop"
  /\ \/ backend \in Iterated \cup {"upscaledb", "memcached"} /\ Return("error")
     \/ /\ backend \in {"lmdb", "unqlite", "memcached"}
        /\ pc' = "ok" /\ cut' = TRUE /\ count' = Counted
        /\ UNCHANGED <<call, stored, pos, key, ret>>

Next == \/ Refused \/ Open \/ IterateKeys \/ FilterKeys \/ DumpKeys \/ MoveThenList
        \/ CountKeys \/ FlushKeys \/ CursorFails

Spec == Init /\ [][Next]_vars

-----------------------------------------------------------------------------
(* Properties. *)

\* Types of all variables; the cursor never leaves the walk by more than one.
TypeOK ==
  /\ backend \in Backends /\ connected \in BOOLEAN /\ op \in Operations
  /\ start \in Int /\ end \in Int /\ limit \in 0 .. MaxLimit
  /\ walk \in Seq(Keys) /\ stored \subseteq Keys
  /\ pos \in 1 .. Len(walk) + 1 /\ key \in Nat \ {0}
  /\ ret \in Seq(Keys) /\ count \in Nat /\ cut \in BOOLEAN
  /\ pc \in {"call", "loop", "ok", "error"}

\* Keys that are within the limits of a call, as its store understands them.
Matching == {k \in Range(walk) : k < end /\ (start < k \/ (start = k /\ backend \in Iterated))}

\* KEYS lists nothing but stored keys within the limits, whatever happens to the
\* cursor.
KeysMatch == op = "keys" => Range(ret) \subseteq Matching

\* KEYS of every store but upscaledb lists every matching key, each once, or as many
\* as the limit allows, and then a store that sorts its keys lists the smallest.
KeysFound ==
  op = "keys" /\ backend # "upscaledb" /\ pc = "ok" /\ ~cut =>
    /\ \A i, j \in DOMAIN ret : i # j => ret[i] # ret[j]
    /\ Len(ret) <= limit
    /\ \A k \in Matching \ Range(ret) :
         /\ Len(ret) = limit
         /\ backend \in Sorted => \A i \in DOMAIN ret : ret[i] < k

\* "Return the number of keys in the selected database", of whichever store.
AllCounted == op = "dbkcount" /\ pc = "ok" /\ ~cut => count = Len(walk)

\* DBKCOUNT of every store but memcached counts each key once.
CountExact == backend # "memcached" => AllCounted

\* A FLUSHDB that reports no error has removed every key; one that fails has removed
\* those before the key it failed at and no other.
FlushEmpties ==
  op = "flushdb" => /\ pc = "ok" => stored = {}
                    /\ stored = {walk[i] : i \in pos .. Len(walk)}
=============================================================================
