-------------------------- MODULE StoreScanProofs --------------------------
(***************************************************************************)
(* Proofs about the loops of StoreScan, for stores of any size.            *)
(***************************************************************************)
EXTENDS StoreScan, TLAPS

\* Type correctness, with what the buffer of upscaledb may hold.
TypeInv ==
  /\ TypeOK
  /\ IsWalk(walk, backend)
  /\ pc = "call" => key = 1
  /\ op # "keys" => backend # "upscaledb"
  /\ backend = "upscaledb" /\ pc = "loop" => pos \in DOMAIN walk /\ key \in DOMAIN walk

\* The types hold at the beginning.
LEMMA InitType == Init => TypeInv
<1> SUFFICES ASSUME Init PROVE TypeInv
  OBVIOUS
<1>1. walk \in Seq(Keys) /\ IsWalk(walk, backend)
  BY DEF Init, IsWalk
<1>2. stored \subseteq Keys
  BY <1>1 DEF Init, Range
<1>3. Len(walk) \in Nat
  BY <1>1
<1>4. start \in Int /\ end \in Int /\ limit \in 0 .. MaxLimit
  <2>1. CASE op = "keys"
    <3>1. start \in Limits /\ end \in Limits /\ limit \in 0 .. MaxLimit
      BY <2>1, Zenon DEF Init
    <3> QED
      BY <3>1, ConstantsAssumption
  <2>2. CASE op # "keys"
    <3>1. start = LetterA /\ end = LetterZ /\ limit = MaxLimit
      BY <2>2, Zenon DEF Init
    <3> QED
      BY <3>1, ConstantsAssumption
  <2> QED
    BY <2>1, <2>2
<1>6. pos = 1 /\ key = 1 /\ ret = <<>> /\ count = 0 /\ pc = "call"
  BY Zenon DEF Init
<1>7. /\ pos \in 1 .. Len(walk) + 1 /\ key \in Nat \ {0} /\ ret \in Seq(Keys) /\ count \in Nat
      /\ pc \in {"call", "loop", "ok", "error"} /\ pc # "loop"
  BY <1>6, <1>3
<1>8. backend \in Backends /\ connected \in BOOLEAN /\ op \in Operations /\ cut \in BOOLEAN
  BY Zenon DEF Init
<1>9. op # "keys" => backend # "upscaledb"
  BY DEF Init, Operations, Iterated
<1> QED
  BY <1>1, <1>2, <1>4, <1>6, <1>7, <1>8, <1>9, Zenon DEF TypeInv, TypeOK

\* A call's arguments and the keys it finds do not change while it runs.
LEMMA CallKept == [Next]_vars => UNCHANGED call
  BY DEF Next, vars, call, Refused, Open, IterateKeys, FilterKeys, DumpKeys,
         MoveThenList, CountKeys, FlushKeys, CursorFails, Return, DeleteFailed

\* Every step keeps the types.
LEMMA NextType == TypeInv /\ [Next]_vars => TypeInv'
<1> SUFFICES ASSUME TypeInv, [Next]_vars PROVE TypeInv'
  OBVIOUS
<1>a. UNCHANGED call
  BY CallKept
<1>b. IsWalk(walk, backend)'
  BY <1>a DEF TypeInv, IsWalk, call
<1>c. Len(walk) \in Nat /\ DOMAIN walk = 1 .. Len(walk)
  BY DEF TypeInv, TypeOK
<1> DEFINE Moves == /\ stored' \subseteq Keys
                    /\ pos' \in 1 .. Len(walk) + 1 /\ key' \in Nat \ {0}
                    /\ ret' \in Seq(Keys) /\ count' \in Nat
                    /\ pc' \in {"call", "loop", "ok", "error"}
                    /\ pc' = "call" => key' = 1
                    /\ backend = "upscaledb" /\ pc' = "loop" =>
                         pos' \in DOMAIN walk /\ key' \in DOMAIN walk
<1>d. cut' \in BOOLEAN
  BY Zenon DEF TypeInv, TypeOK, Next, vars, Refused, Open, IterateKeys, FilterKeys,
         DumpKeys, MoveThenList, CountKeys, FlushKeys, CursorFails, Return, DeleteFailed
<1>g. /\ backend' \in Backends /\ connected' \in BOOLEAN /\ op' \in Operations
      /\ start' \in Int /\ end' \in Int /\ limit' \in 0 .. MaxLimit /\ walk' = walk
      /\ backend' = backend /\ op' = op
  BY <1>a, Zenon DEF call, TypeInv, TypeOK
<1> SUFFICES Moves
  BY <1>g, <1>b, <1>d DEF TypeInv, TypeOK, IsWalk
<1>e. ASSUME UNCHANGED <<stored, pos, key, ret, count>>,
             pc' \in {pc, "ok", "error"}
      PROVE  Moves
  BY <1>e DEF TypeInv, TypeOK
<1>f. ASSUME NEW k \in Keys, Listed(k) PROVE ret' \in Seq(Keys)
  BY <1>f DEF Listed, TypeInv, TypeOK
<1>1. CASE Refused
  BY <1>1, <1>e DEF Refused, Return
<1>2. CASE Open
  <2>1. pos' \in 1 .. Len(walk) + 1 /\ pc' \in {"ok", "loop"} /\ UNCHANGED <<stored, key, ret, count>>
    BY <1>2, <1>c DEF Open
  <2>2. ASSUME backend = "upscaledb", pc' = "loop" PROVE pos' \in DOMAIN walk /\ key' \in DOMAIN walk
    <3>1. walk # <<>> /\ pos' = 1 /\ key' = 1
      BY <1>2, <2>2 DEF Open, Iterated, TypeInv
    <3> QED
      BY <3>1, <1>c DEF TypeInv, TypeOK
  <2> QED
    BY <2>1, <2>2, <1>2 DEF TypeInv, TypeOK
<1>3. CASE IterateKeys
  <2>1. CASE Return("ok")
    BY <2>1, <1>e DEF Return
  <2>2. CASE Valid /\ ret' = Append(ret, walk[pos]) /\ Advance
             /\ UNCHANGED <<call, stored, key, count, cut, pc>>
    <3>1. walk[pos] \in Keys
      BY <2>2, <1>c DEF Valid, TypeInv, TypeOK
    <3> QED
      BY <1>3, <2>2, <3>1, <1>c DEF IterateKeys, Iterated, Valid, Advance, TypeInv, TypeOK
  <2> QED
    BY <1>3, <2>1, <2>2 DEF IterateKeys
<1>4. CASE FilterKeys
  <2>1. CASE Return("ok")
    BY <2>1, <1>e DEF Return
  <2>2. CASE Valid /\ Listed(walk[pos]) /\ Advance /\ UNCHANGED <<call, stored, key, count, cut, pc>>
    <3>1. walk[pos] \in Keys
      BY <2>2, <1>c DEF Valid, TypeInv, TypeOK
    <3>2. ret' \in Seq(Keys)
      BY <2>2, <3>1, <1>f
    <3> QED
      BY <1>4, <2>2, <3>2, <1>c DEF FilterKeys, Valid, Advance, TypeInv, TypeOK
  <2> QED
    BY <1>4, <2>1, <2>2 DEF FilterKeys
<1>5. CASE DumpKeys
  <2>1. CASE Valid /\ Listed(walk[pos]) /\ Advance /\ UNCHANGED <<call, stored, key, count, cut, pc>>
    <3>1. walk[pos] \in Keys
      BY <2>1, <1>c DEF Valid, TypeInv, TypeOK
    <3>2. ret' \in Seq(Keys)
      BY <2>1, <3>1, <1>f
    <3> QED
      BY <1>5, <2>1, <3>2, <1>c DEF DumpKeys, Valid, Advance, TypeInv, TypeOK
  <2>2. CASE pc' = "ok" /\ count' = Counted /\ UNCHANGED <<call, stored, pos, key, ret, cut>>
    BY <2>2, <1>c DEF Counted, TypeInv, TypeOK
  <2> QED
    BY <1>5, <2>1, <2>2 DEF DumpKeys
<1>6. CASE MoveThenList
  <2> DEFINE seen == IF pos < Len(walk) THEN pos + 1 ELSE key
  <2>1. /\ pos \in DOMAIN walk /\ key \in DOMAIN walk
        /\ seen \in DOMAIN walk
    BY <1>6, <1>c DEF MoveThenList, TypeInv, TypeOK
  <2>2. walk[seen] \in Keys /\ Listed(walk[seen])
    BY <1>6, <2>1 DEF MoveThenList, TypeInv, TypeOK
  <2>3. ret' \in Seq(Keys)
    BY <2>2, <1>f
  <2>4. /\ key' = seen /\ pos' = (IF pos < Len(walk) THEN pos + 1 ELSE pos)
        /\ pc' \in {"loop", "ok"} /\ UNCHANGED <<stored, count>>
    BY <1>6 DEF MoveThenList
  <2> QED
    BY <2>1, <2>3, <2>4, <1>c DEF TypeInv, TypeOK
<1>7. CASE CountKeys
  <2>1. CASE Return("ok")
    BY <2>1, <1>e DEF Return
  <2>2. CASE Valid /\ CountOne /\ Advance /\ UNCHANGED <<call, stored, key, ret, cut, pc>>
    BY <1>7, <2>2, <1>c DEF CountKeys, Valid, CountOne, Advance, TypeInv, TypeOK
  <2> QED
    BY <1>7, <2>1, <2>2 DEF CountKeys
<1>8. CASE FlushKeys
  <2>1. CASE Return("ok") \/ DeleteFailed
    BY <2>1, <1>e DEF Return, DeleteFailed
  <2>2. CASE Valid /\ stored' = stored \ {walk[pos]} /\ Advance
             /\ UNCHANGED <<call, key, ret, count, cut, pc>>
    BY <1>8, <2>2, <1>c DEF FlushKeys, Valid, Advance, TypeInv, TypeOK
  <2> QED
    BY <1>8, <2>1, <2>2 DEF FlushKeys
<1>9. CASE CursorFails
  <2>1. CASE Return("error")
    BY <2>1, <1>e DEF Return
  <2>2. CASE pc' = "ok" /\ count' = Counted /\ UNCHANGED <<stored, pos, key, ret>>
    BY <2>2, <1>c DEF Counted, TypeInv, TypeOK
  <2> QED
    BY <1>9, <2>1, <2>2 DEF CursorFails
<1>10. CASE UNCHANGED vars
  BY <1>10, <1>e DEF vars
<1> QED
  BY <1>1, <1>2, <1>3, <1>4, <1>5, <1>6, <1>7, <1>8, <1>9, <1>10 DEF Next

\* Every variable keeps its type and the cursor stays within the walk, whatever the
\* keys, the limits and the stores.
THEOREM ScanTypeCorrect == Spec => []TypeOK
<1>1. Init => TypeInv
  BY InitType
<1>2. TypeInv /\ [Next]_vars => TypeInv'
  BY NextType
<1>3. TypeInv => TypeOK
  BY DEF TypeInv
<1> QED
  BY <1>1, <1>2, <1>3, PTL DEF Spec

-----------------------------------------------------------------------------
\* The iterator of leveldb and rocksdb never stands before key_start; that is why
\* their loop need not test it.
SeekInv ==
  op = "keys" /\ backend \in Iterated /\ pc = "loop" =>
    \A p \in pos .. Len(walk) : start <= walk[p]

\* What a step of a listing does: it takes the key at the cursor, which matches,
\* or passes over it, which does not, or returns, or opens the cursor.
Takes ==
  /\ pc = "loop" /\ pos \in DOMAIN walk /\ pos' = pos + 1 /\ pc' = pc /\ cut' = cut
  /\ Len(ret) < limit /\ walk[pos] \in Matching /\ ret' = Append(ret, walk[pos])

Passes ==
  /\ pc = "loop" /\ pos \in DOMAIN walk /\ pos' = pos + 1 /\ pc' = pc /\ cut' = cut
  /\ walk[pos] \notin Matching /\ ret' = ret

Returns ==
  /\ UNCHANGED <<pos, ret>>
  /\ pc' \in {pc, "error"} \/ (pc = "loop" /\ pc' = "ok")
  /\ pc' = "ok" /\ ~cut' =>
       \/ pc = "ok" /\ ~cut
       \/ /\ pc = "loop" /\ ~cut
          /\ Len(ret) >= limit \/ \A p \in pos .. Len(walk) : walk[p] \notin Matching

Opens ==
  /\ pc = "call" /\ pc' = "loop" /\ ret' = ret /\ cut' = cut
  /\ pos' \in 1 .. Len(walk) + 1
  /\ \A p \in 1 .. pos' - 1 : walk[p] \notin Matching
  /\ backend \in Iterated => \A p \in pos' .. Len(walk) : start <= walk[p]

\* Keys and their positions.
LEMMA WalkFacts ==
  ASSUME TypeInv
  PROVE  /\ Len(walk) \in Nat /\ DOMAIN walk = 1 .. Len(walk)
         /\ \A p \in 1 .. Len(walk) : walk[p] \in Int /\ walk[p] \in Keys
         /\ \A p, q \in 1 .. Len(walk) : p < q => walk[p] # walk[q]
         /\ \A p, q \in 1 .. Len(walk) : p < q /\ backend \in Sorted => walk[p] < walk[q]
         /\ start \in Int /\ end \in Int /\ limit \in Nat
         /\ pos \in 1 .. Len(walk) + 1 /\ Len(ret) \in Nat /\ DOMAIN ret = 1 .. Len(ret)
<1>1. /\ walk \in Seq(Keys) /\ ret \in Seq(Keys) /\ start \in Int /\ end \in Int
      /\ limit \in 0 .. MaxLimit /\ pos \in 1 .. Len(walk) + 1 /\ IsWalk(walk, backend)
  BY Zenon DEF TypeInv, TypeOK
<1>2. Len(walk) \in Nat /\ DOMAIN walk = 1 .. Len(walk) /\ Len(ret) \in Nat /\ DOMAIN ret = 1 .. Len(ret)
  BY <1>1
<1>3. \A p \in 1 .. Len(walk) : walk[p] \in Int /\ walk[p] \in Keys
  <2>1. \A p \in 1 .. Len(walk) : walk[p] \in Keys
    BY <1>1, <1>2
  <2> QED
    BY <2>1, ConstantsAssumption
<1>4. /\ \A p, q \in 1 .. Len(walk) : p < q => walk[p] # walk[q]
      /\ \A p, q \in 1 .. Len(walk) : p < q /\ backend \in Sorted => walk[p] < walk[q]
  BY <1>1, <1>2 DEF IsWalk
<1>5. limit \in Nat
  BY <1>1, ConstantsAssumption
<1> QED
  BY <1>1, <1>2, <1>3, <1>4, <1>5

\* A key at a position matches if and only if it passes the tests of the loops.
LEMMA MatchFacts ==
  ASSUME TypeInv, NEW p \in 1 .. Len(walk)
  PROVE  /\ backend \notin Iterated => (walk[p] \in Matching <=> Between(walk[p]))
         /\ backend \in Iterated => (walk[p] \in Matching <=> start <= walk[p] /\ walk[p] < end)
<1>1. walk[p] \in Range(walk) /\ walk[p] \in Int /\ start \in Int /\ end \in Int
  BY WalkFacts DEF Range
<1> QED
  BY <1>1 DEF Matching, Between

\* Every step of a listing by a store other than upscaledb is one of the four.
LEMMA ListingSteps ==
  ASSUME TypeInv, SeekInv, [Next]_vars, op = "keys", backend # "upscaledb"
  PROVE  Takes \/ Passes \/ Returns \/ Opens
<1>1. CASE Refused
  BY <1>1 DEF Refused, Return, Returns
<1>2. CASE Open
  <2>1. pc = "call" /\ pc' = "loop" /\ ret' = ret /\ cut' = cut
    BY <1>2 DEF Open
  <2>2. CASE backend \in Iterated
    <3>1. PICK q \in 1 .. Len(walk) + 1 : AtStart(q) /\ pos' = q
      BY <1>2, <2>2 DEF Open
    <3>2. \A p \in 1 .. pos' - 1 : walk[p] \notin Matching
      BY <3>1, <2>2, WalkFacts, MatchFacts DEF AtStart
    <3>3. \A p \in pos' .. Len(walk) : start <= walk[p]
      BY <3>1, WalkFacts DEF AtStart
    <3> QED
      BY <2>1, <3>1, <3>2, <3>3 DEF Opens
  <2>3. CASE backend \notin Iterated
    <3>1. pos' = 1
      BY <1>2, <2>3 DEF Open
    <3> QED
      BY <2>1, <2>3, <3>1, WalkFacts DEF Opens
  <2> QED
    BY <2>2, <2>3
<1>3. CASE IterateKeys
  <2>1. CASE Valid /\ walk[pos] < end /\ ~Full /\ ret' = Append(ret, walk[pos]) /\ Advance
             /\ UNCHANGED <<call, stored, key, count, cut, pc>>
    <3>1. pos \in 1 .. Len(walk)
      BY <2>1, WalkFacts DEF Valid
    <3>2. walk[pos] \in Matching
      BY <1>3, <2>1, <3>1, MatchFacts, WalkFacts DEF IterateKeys, SeekInv
    <3> QED
      BY <1>3, <2>1, <3>1, <3>2, WalkFacts DEF IterateKeys, Takes, Full, Advance
  <2>2. CASE (Valid => walk[pos] >= end \/ Full) /\ Return("ok")
    <3>1. ASSUME ~Full, NEW p \in pos .. Len(walk) PROVE walk[p] \notin Matching
      <4>1. walk[pos] >= end /\ pos \in 1 .. Len(walk) /\ p \in 1 .. Len(walk)
        BY <2>2, <3>1, WalkFacts DEF Valid
      <4>2. walk[p] >= end
        BY <4>1, <3>1, <1>3, WalkFacts DEF IterateKeys, Sorted
      <4> QED
        BY <4>1, <4>2, <1>3, MatchFacts, WalkFacts DEF IterateKeys
    <3> QED
      BY <1>3, <2>2, <3>1 DEF IterateKeys, Return, Returns, Full
  <2> QED
    BY <1>3, <2>1, <2>2 DEF IterateKeys
<1>4. CASE FilterKeys
  <2>0. backend \notin Iterated
    BY <1>4 DEF FilterKeys, Iterated
  <2>1. CASE Valid /\ ~Full /\ Listed(walk[pos]) /\ Advance
             /\ UNCHANGED <<call, stored, key, count, cut, pc>>
    <3>1. pos \in 1 .. Len(walk)
      BY <2>1, WalkFacts DEF Valid
    <3>2. walk[pos] \in Matching <=> Between(walk[pos])
      BY <2>0, <3>1, MatchFacts
    <3>3. pc = "loop" /\ pos' = pos + 1 /\ pc' = pc /\ cut' = cut /\ Len(ret) < limit /\ pos \in DOMAIN walk
      BY <1>4, <2>1, <3>1, WalkFacts DEF FilterKeys, Full, Advance
    <3>4. CASE Between(walk[pos])
      BY <2>1, <3>2, <3>3, <3>4 DEF Takes, Listed
    <3>5. CASE ~Between(walk[pos])
      BY <2>1, <3>2, <3>3, <3>5 DEF Passes, Listed
    <3> QED
      BY <3>4, <3>5
  <2>2. CASE (~Valid \/ Full) /\ Return("ok")
    <3>1. ~Full => \A p \in pos .. Len(walk) : walk[p] \notin Matching
      BY <2>2, WalkFacts DEF Valid
    <3> QED
      BY <1>4, <2>2, <3>1 DEF FilterKeys, Return, Returns, Full
  <2> QED
    BY <1>4, <2>1, <2>2 DEF FilterKeys
<1>5. CASE DumpKeys
  <2>0. backend \notin Iterated
    BY <1>5 DEF DumpKeys, Iterated
  <2>1. CASE Valid /\ ~Full /\ Listed(walk[pos]) /\ Advance
             /\ UNCHANGED <<call, stored, key, count, cut, pc>>
    <3>1. pos \in 1 .. Len(walk)
      BY <2>1, WalkFacts DEF Valid
    <3>2. walk[pos] \in Matching <=> Between(walk[pos])
      BY <2>0, <3>1, MatchFacts
    <3>3. pc = "loop" /\ pos' = pos + 1 /\ pc' = pc /\ cut' = cut /\ Len(ret) < limit /\ pos \in DOMAIN walk
      BY <1>5, <2>1, <3>1, WalkFacts DEF DumpKeys, Full, Advance
    <3>4. CASE Between(walk[pos])
      BY <2>1, <3>2, <3>3, <3>4 DEF Takes, Listed
    <3>5. CASE ~Between(walk[pos])
      BY <2>1, <3>2, <3>3, <3>5 DEF Passes, Listed
    <3> QED
      BY <3>4, <3>5
  <2>2. CASE (~Valid \/ Full) /\ pc' = "ok" /\ UNCHANGED <<call, stored, pos, key, ret, cut>>
    <3>1. ~Full => \A p \in pos .. Len(walk) : walk[p] \notin Matching
      BY <2>2, WalkFacts DEF Valid
    <3> QED
      BY <1>5, <2>2, <3>1 DEF DumpKeys, Returns, Full
  <2> QED
    BY <1>5, <2>1, <2>2 DEF DumpKeys
<1>6. CASE CursorFails
  BY <1>6 DEF CursorFails, Return, Returns
<1>7. CASE UNCHANGED vars
  BY <1>7 DEF vars, Returns
<1> QED
  BY <1>1, <1>2, <1>3, <1>4, <1>5, <1>6, <1>7 DEF Next, MoveThenList, CountKeys, FlushKeys

\* What a listing has found so far: the matching keys before the cursor, each once;
\* and when it returns, the limit is reached or no key behind the cursor matches.
ListInv ==
  op = "keys" /\ backend # "upscaledb" =>
    /\ pc = "call" => ret = <<>>
    /\ Len(ret) <= limit
    /\ \A i \in DOMAIN ret : \E p \in 1 .. pos - 1 : walk[p] = ret[i]
    /\ \A i, j \in DOMAIN ret : i # j => ret[i] # ret[j]
    /\ pc \in {"loop", "ok"} =>
         \A p \in 1 .. pos - 1 : walk[p] \in Matching => \E i \in DOMAIN ret : ret[i] = walk[p]
    /\ pc = "ok" /\ ~cut =>
         Len(ret) = limit \/ \A p \in pos .. Len(walk) : walk[p] \notin Matching

\* The limits and the walk of a call are fixed, and so is what matches.
LEMMA MatchingKept == [Next]_vars => Matching' = Matching /\ UNCHANGED <<op, backend, limit, walk, start>>
<1> SUFFICES ASSUME [Next]_vars PROVE Matching' = Matching /\ UNCHANGED <<op, backend, limit, walk, start>>
  OBVIOUS
<1>1. UNCHANGED <<backend, op, start, end, limit, walk>>
  BY CallKept DEF call
<1> QED
  BY <1>1 DEF Matching

\* Every step leaves only smaller keys behind a seek.
LEMMA SeekKept == TypeInv /\ SeekInv /\ [Next]_vars => SeekInv'
<1> SUFFICES ASSUME TypeInv, SeekInv, [Next]_vars, op = "keys", backend \in Iterated, pc' = "loop"
             PROVE  \A p \in pos' .. Len(walk) : start <= walk[p]
  BY MatchingKept DEF SeekInv
<1>1. Takes \/ Passes \/ Returns \/ Opens
  BY ListingSteps DEF Iterated
<1> QED
  BY <1>1, WalkFacts DEF Takes, Passes, Returns, Opens, SeekInv

\* Every step keeps the list to the matching keys the cursor has passed.
LEMMA ListKept == TypeInv /\ SeekInv /\ ListInv /\ [Next]_vars => ListInv'
<1> SUFFICES ASSUME TypeInv, SeekInv, ListInv, [Next]_vars, op = "keys", backend # "upscaledb"
             PROVE  ListInv'
  BY MatchingKept DEF ListInv
<1>a. /\ Matching' = Matching /\ walk' = walk /\ limit' = limit
  BY MatchingKept
<1>b. Takes \/ Passes \/ Returns \/ Opens
  BY ListingSteps
<1>c. /\ Len(ret) \in Nat /\ DOMAIN ret = 1 .. Len(ret) /\ limit \in Nat /\ Len(walk) \in Nat
      /\ pos \in Nat /\ pos >= 1
  BY WalkFacts
<1>d. /\ pc = "call" => ret = <<>>
      /\ Len(ret) <= limit
      /\ \A i \in DOMAIN ret : \E p \in 1 .. pos - 1 : walk[p] = ret[i]
      /\ \A i, j \in DOMAIN ret : i # j => ret[i] # ret[j]
      /\ pc \in {"loop", "ok"} =>
           \A p \in 1 .. pos - 1 : walk[p] \in Matching => \E i \in DOMAIN ret : ret[i] = walk[p]
      /\ pc = "ok" /\ ~cut =>
           Len(ret) = limit \/ \A p \in pos .. Len(walk) : walk[p] \notin Matching
  BY Zenon DEF ListInv
<1> SUFFICES /\ pc' # "call" \/ ret' = <<>>
             /\ Len(ret') <= limit
             /\ \A i \in DOMAIN ret' : \E p \in 1 .. pos' - 1 : walk[p] = ret'[i]
             /\ \A i, j \in DOMAIN ret' : i # j => ret'[i] # ret'[j]
             /\ pc' \in {"loop", "ok"} =>
                  \A p \in 1 .. pos' - 1 :
                    walk[p] \in Matching => \E i \in DOMAIN ret' : ret'[i] = walk[p]
             /\ pc' = "ok" /\ ~cut' =>
                  Len(ret') = limit \/ \A p \in pos' .. Len(walk) : walk[p] \notin Matching
  BY <1>a DEF ListInv
<1>1. CASE Takes
  <2>1. /\ ret \in Seq(Keys) /\ walk[pos] \in Keys
    BY <1>1, WalkFacts DEF Takes, TypeInv, TypeOK
  <2>2. /\ DOMAIN ret' = 1 .. Len(ret) + 1 /\ Len(ret') = Len(ret) + 1
        /\ ret'[Len(ret) + 1] = walk[pos] /\ \A i \in DOMAIN ret : ret'[i] = ret[i]
    BY <1>1, <2>1, <1>c DEF Takes
  <2>3. \A i \in DOMAIN ret : ret[i] # walk[pos]
    BY <1>1, <1>d, WalkFacts DEF Takes
  <2>4. \A i \in DOMAIN ret' : \E p \in 1 .. pos' - 1 : walk[p] = ret'[i]
    BY <1>1, <1>c, <1>d, <2>2 DEF Takes
  <2>5. \A i, j \in DOMAIN ret' : i # j => ret'[i] # ret'[j]
    <3>1. SUFFICES ASSUME NEW i \in DOMAIN ret', NEW j \in DOMAIN ret', i # j
                   PROVE  ret'[i] # ret'[j]
      OBVIOUS
    <3>2. CASE i \in DOMAIN ret /\ j \in DOMAIN ret
      BY <3>1, <3>2, <1>d, <2>2
    <3>3. CASE i = Len(ret) + 1
      BY <3>1, <3>3, <1>c, <2>2, <2>3
    <3>4. CASE j = Len(ret) + 1
      BY <3>1, <3>4, <1>c, <2>2, <2>3
    <3> QED
      BY <3>1, <3>2, <3>3, <3>4, <1>c, <2>2
  <2>6. ASSUME NEW p \in 1 .. pos' - 1, walk[p] \in Matching
        PROVE  \E i \in DOMAIN ret' : ret'[i] = walk[p]
    <3>1. CASE p = pos
      <4>1. Len(ret) + 1 \in DOMAIN ret'
        BY <1>c, <2>2
      <4> QED
        BY <4>1, <3>1, <2>2
    <3>2. CASE p \in 1 .. pos - 1
      <4>1. PICK i \in DOMAIN ret : ret[i] = walk[p]
        BY <1>1, <1>d, <2>6, <3>2 DEF Takes
      <4>2. i \in DOMAIN ret' /\ ret'[i] = walk[p]
        BY <4>1, <1>c, <2>2
      <4> QED
        BY <4>2
    <3> QED
      BY <2>6, <3>1, <3>2, <1>1, <1>c DEF Takes
  <2>7. pc' = "loop" /\ Len(ret') <= limit
    BY <1>1, <1>c, <2>2 DEF Takes
  <2> QED
    BY <2>4, <2>5, <2>6, <2>7
<1>2. CASE Passes
  <2>1. \A i \in DOMAIN ret : \E p \in 1 .. pos' - 1 : walk[p] = ret[i]
    BY <1>2, <1>c, <1>d DEF Passes
  <2>2. \A p \in 1 .. pos' - 1 : walk[p] \in Matching => \E i \in DOMAIN ret : ret[i] = walk[p]
    BY <1>2, <1>c, <1>d DEF Passes
  <2>3. ret' = ret /\ pc' = "loop"
    BY <1>2 DEF Passes
  <2> QED
    BY <1>d, <2>1, <2>2, <2>3
<1>3. CASE Returns
  <2>1. ret' = ret /\ pos' = pos /\ (pc' = "call" => pc = "call")
    BY <1>3 DEF Returns
  <2>2. pc' \in {"loop", "ok"} => pc \in {"loop", "ok"}
    BY <1>3 DEF Returns
  <2>3. pc' = "ok" /\ ~cut' => \/ pc = "ok" /\ ~cut
                               \/ Len(ret) >= limit
                               \/ \A p \in pos .. Len(walk) : walk[p] \notin Matching
    BY <1>3, Zenon DEF Returns
  <2>4. pc' = "ok" /\ ~cut' => Len(ret) = limit \/ \A p \in pos .. Len(walk) : walk[p] \notin Matching
    <3>1. Len(ret) <= limit
      BY <1>d, Zenon
    <3>2. Len(ret) >= limit => Len(ret) = limit
      <4>1. Len(ret) \in Nat /\ limit \in Nat
        BY <1>c
      <4> QED
        BY <4>1, <3>1
    <3> QED
      BY <2>3, <3>2, <1>d, Zenon
  <2> QED
    BY <1>d, <2>1, <2>2, <2>4
<1>4. CASE Opens
  <2>1. ret' = <<>> /\ ret = <<>> /\ pc' = "loop" /\ Len(ret') <= limit
    BY <1>4, <1>c, <1>d DEF Opens
  <2>2. \A p \in 1 .. pos' - 1 : walk[p] \notin Matching
    BY <1>4 DEF Opens
  <2> QED
    BY <1>d, <2>1, <2>2
<1> QED
  BY <1>b, <1>1, <1>2, <1>3, <1>4

\* A listing that has returned has found what it should.
LEMMA FoundHere == TypeInv /\ ListInv => KeysFound
<1> SUFFICES ASSUME TypeInv, ListInv, op = "keys", backend # "upscaledb", pc = "ok", ~cut
             PROVE  /\ \A i, j \in DOMAIN ret : i # j => ret[i] # ret[j]
                    /\ Len(ret) <= limit
                    /\ \A k \in Matching \ Range(ret) :
                         /\ Len(ret) = limit
                         /\ backend \in Sorted => \A i \in DOMAIN ret : ret[i] < k
  BY Zenon DEF KeysFound
<1>2. /\ Len(ret) <= limit
      /\ \A i \in DOMAIN ret : \E p \in 1 .. pos - 1 : walk[p] = ret[i]
      /\ \A i, j \in DOMAIN ret : i # j => ret[i] # ret[j]
      /\ \A p \in 1 .. pos - 1 : walk[p] \in Matching => \E i \in DOMAIN ret : ret[i] = walk[p]
      /\ Len(ret) = limit \/ \A p \in pos .. Len(walk) : walk[p] \notin Matching
  BY Zenon DEF ListInv
<1>3. ASSUME NEW k \in Matching \ Range(ret)
      PROVE  /\ Len(ret) = limit
             /\ backend \in Sorted => \A i \in DOMAIN ret : ret[i] < k
  <2>1. PICK q \in 1 .. Len(walk) : walk[q] = k
    BY <1>3, WalkFacts DEF Matching, Range
  <2>2. q \notin 1 .. pos - 1
    BY <1>2, <1>3, <2>1 DEF Range
  <2>3. q \in pos .. Len(walk)
    BY <2>1, <2>2, WalkFacts
  <2>4. ASSUME backend \in Sorted, NEW i \in DOMAIN ret PROVE ret[i] < k
    <3>1. PICK p \in 1 .. pos - 1 : walk[p] = ret[i]
      BY <1>2, <2>4
    <3>2. p \in 1 .. Len(walk) /\ p < q
      BY <3>1, <2>3, WalkFacts
    <3> QED
      BY <3>1, <3>2, <2>1, <2>4, WalkFacts
  <2> QED
    BY <1>2, <1>3, <2>1, <2>3, <2>4
<1> QED
  BY <1>2, <1>3

\* KEYS of every store but upscaledb: a listing that reports no error and whose
\* cursor did not fail has each matching key once, or is full, and then has the
\* smallest ones if the store sorts; for stores, limits and walks of any size.
THEOREM ListingComplete == Spec => []KeysFound
<1>1. Init => TypeInv /\ SeekInv /\ ListInv
  <2> SUFFICES ASSUME Init PROVE TypeInv /\ SeekInv /\ ListInv
    OBVIOUS
  <2>1. TypeInv
    BY InitType
  <2>2. pc = "call" /\ ret = <<>> /\ pos = 1
    BY Zenon DEF Init
  <2>3. Len(ret) <= limit
    BY <2>1, <2>2, WalkFacts
  <2> QED
    BY <2>1, <2>2, <2>3 DEF SeekInv, ListInv
<1>2. TypeInv /\ SeekInv /\ ListInv /\ [Next]_vars => (TypeInv /\ SeekInv /\ ListInv)'
  BY NextType, SeekKept, ListKept
<1>3. TypeInv /\ SeekInv /\ ListInv => KeysFound
  BY FoundHere
<1> QED
  BY <1>1, <1>2, <1>3, PTL DEF Spec

-----------------------------------------------------------------------------
\* FLUSHDB: what is left is what the iterator has not passed yet.
FlushInv ==
  op = "flushdb" => /\ backend \in Iterated
                    /\ pc = "call" => pos = 1
                    /\ pc = "ok" => pos = Len(walk) + 1
                    /\ stored = {walk[i] : i \in pos .. Len(walk)}

\* Every step keeps the deleted keys to those before the cursor.
LEMMA FlushKept == TypeInv /\ FlushInv /\ [Next]_vars => FlushInv'
<1> SUFFICES ASSUME TypeInv, FlushInv, [Next]_vars, op = "flushdb" PROVE FlushInv'
  BY MatchingKept DEF FlushInv
<1>a. walk' = walk /\ backend' = backend /\ op' = op
  BY MatchingKept
<1>b. /\ backend \in Iterated /\ (pc = "call" => pos = 1)
      /\ (pc = "ok" => pos = Len(walk) + 1) /\ stored = {walk[i] : i \in pos .. Len(walk)}
  BY DEF FlushInv
<1>1. CASE FlushKeys
  <2>1. CASE Valid /\ stored' = stored \ {walk[pos]} /\ Advance /\ pc' = pc
    <3>1. pos \in 1 .. Len(walk) /\ pos' = pos + 1
      BY <2>1, WalkFacts DEF Valid, Advance
    <3>2. stored' = {walk[i] : i \in pos + 1 .. Len(walk)}
      <4>1. \A i \in pos + 1 .. Len(walk) : walk[i] # walk[pos]
        BY <3>1, WalkFacts
      <4>2. stored = {walk[i] : i \in pos + 1 .. Len(walk)} \cup {walk[pos]}
        BY <1>b, <3>1, WalkFacts
      <4> QED
        BY <2>1, <4>1, <4>2
    <3> QED
      BY <1>1, <1>a, <1>b, <2>1, <3>1, <3>2 DEF FlushKeys, FlushInv
  <2>2. CASE Valid /\ DeleteFailed
    BY <2>2, <1>a, <1>b DEF DeleteFailed, Return, FlushInv
  <2>3. CASE ~Valid /\ Return("ok")
    BY <2>3, <1>a, <1>b, WalkFacts DEF Return, Valid, FlushInv
  <2> QED
    BY <1>1, <2>1, <2>2, <2>3 DEF FlushKeys
<1>2. CASE Refused
  BY <1>2, <1>a, <1>b DEF Refused, Return, FlushInv
<1>3. CASE Open
  BY <1>3, <1>a, <1>b DEF Open, Iterated, FlushInv
<1>4. CASE CursorFails
  BY <1>4, <1>a, <1>b DEF CursorFails, Return, Iterated, FlushInv
<1>5. CASE UNCHANGED vars
  BY <1>5, <1>a, <1>b DEF vars, FlushInv
<1> QED
  BY <1>1, <1>2, <1>3, <1>4, <1>5, <1>b DEF Next, IterateKeys, FilterKeys, DumpKeys, MoveThenList,
       CountKeys, Iterated

\* FLUSHDB of leveldb and rocksdb removes every key or reports an error, and after
\* an error it is the keys from the failing one on that are left.
THEOREM FlushComplete == Spec => []FlushEmpties
<1>1. Init => TypeInv /\ FlushInv
  <2> SUFFICES ASSUME Init PROVE TypeInv /\ FlushInv
    OBVIOUS
  <2>1. TypeInv
    BY InitType
  <2>2. pc = "call" /\ pos = 1 /\ stored = Range(walk) /\ (op = "flushdb" => backend \in Iterated)
    BY Zenon DEF Init
  <2>3. Range(walk) = {walk[i] : i \in 1 .. Len(walk)}
    BY <2>1, WalkFacts DEF Range
  <2> QED
    BY <2>1, <2>2, <2>3 DEF FlushInv
<1>2. TypeInv /\ FlushInv /\ [Next]_vars => (TypeInv /\ FlushInv)'
  BY NextType, FlushKept
<1>3. TypeInv /\ FlushInv => FlushEmpties
  <2> SUFFICES ASSUME TypeInv, FlushInv, op = "flushdb" PROVE FlushEmpties
    BY DEF FlushEmpties
  <2>1. pc = "ok" => stored = {}
    BY WalkFacts DEF FlushInv
  <2> QED
    BY <2>1 DEF FlushInv, FlushEmpties
<1> QED
  BY <1>1, <1>2, <1>3, PTL DEF Spec

-----------------------------------------------------------------------------
\* A step of any listing leaves the list alone or adds a matching key to it; this
\* holds of upscaledb too, whose buffer can hold a key it has looked at before.
LEMMA ListedMatch ==
  ASSUME TypeInv, SeekInv, [Next]_vars, op = "keys"
  PROVE  ret' = ret \/ \E k \in Matching : ret' = Append(ret, k)
<1>1. CASE backend # "upscaledb"
  BY <1>1, ListingSteps DEF Takes, Passes, Returns, Opens
<1>2. CASE MoveThenList
  <2> DEFINE seen == IF pos < Len(walk) THEN pos + 1 ELSE key
  <2>1. backend = "upscaledb" /\ pc = "loop" /\ Listed(walk[seen])
    BY <1>2 DEF MoveThenList
  <2>2. seen \in 1 .. Len(walk)
    BY <2>1, WalkFacts DEF TypeInv
  <2>3. Between(walk[seen]) => walk[seen] \in Matching
    BY <2>1, <2>2, MatchFacts DEF Iterated
  <2> QED
    BY <2>1, <2>3 DEF Listed
<1>3. CASE backend = "upscaledb" /\ ~MoveThenList
  BY <1>3 DEF Next, vars, Refused, Open, IterateKeys, FilterKeys, DumpKeys, CountKeys, FlushKeys,
              CursorFails, Return, Iterated
<1> QED
  BY <1>1, <1>2, <1>3

\* Every step lists only keys that match.
LEMMA MatchKept == TypeInv /\ SeekInv /\ KeysMatch /\ [Next]_vars => KeysMatch'
<1> SUFFICES ASSUME TypeInv, SeekInv, KeysMatch, [Next]_vars, op = "keys"
             PROVE  Range(ret') \subseteq Matching
  BY MatchingKept DEF KeysMatch
<1>1. Range(ret) \subseteq Matching /\ ret \in Seq(Keys)
  BY DEF KeysMatch, TypeInv, TypeOK
<1>2. CASE ret' = ret
  BY <1>1, <1>2
<1>3. ASSUME NEW k \in Matching, ret' = Append(ret, k) PROVE Range(ret') \subseteq Matching
  <2>1. k \in Keys
    BY WalkFacts DEF Matching, Range
  <2>2. \A i \in DOMAIN ret' : ret'[i] = k \/ (i \in DOMAIN ret /\ ret'[i] = ret[i])
    BY <1>1, <1>3, <2>1
  <2> QED
    BY <1>1, <2>2 DEF Range
<1> QED
  BY <1>2, <1>3, ListedMatch

\* KEYS of every store, upscaledb included, lists nothing but stored keys within the
\* limits of the call, wherever its cursor fails.
THEOREM ListingSound == Spec => []KeysMatch
<1>1. Init => TypeInv /\ SeekInv /\ KeysMatch
  <2> SUFFICES ASSUME Init PROVE TypeInv /\ SeekInv /\ KeysMatch
    OBVIOUS
  <2>1. pc = "call" /\ ret = <<>>
    BY Zenon DEF Init
  <2>2. SeekInv /\ KeysMatch
    BY <2>1 DEF SeekInv, KeysMatch, Range
  <2> QED
    BY <2>2, InitType
<1>2. TypeInv /\ SeekInv /\ KeysMatch /\ [Next]_vars => (TypeInv /\ SeekInv /\ KeysMatch)'
  BY NextType, SeekKept, MatchKept
<1> QED
  BY <1>1, <1>2, PTL DEF Spec

-----------------------------------------------------------------------------
\* DBKCOUNT of a store other than memcached has counted the keys before its cursor,
\* and stops only behind the last one, at an error, or when its cursor was cut.
CountInv ==
  op = "dbkcount" /\ backend # "memcached" =>
    /\ count = pos - 1
    /\ pc = "call" => pos = 1
    /\ pc = "ok" /\ ~cut => pos = Len(walk) + 1

\* Every step keeps the count to the keys the cursor has passed.
LEMMA CountKept == TypeInv /\ CountInv /\ [Next]_vars => CountInv'
<1> SUFFICES ASSUME TypeInv, CountInv, [Next]_vars, op = "dbkcount", backend # "memcached"
             PROVE  /\ count' = pos' - 1
                    /\ pc' = "call" => pos' = 1
                    /\ pc' = "ok" /\ ~cut' => pos' = Len(walk) + 1
  BY MatchingKept DEF CountInv
<1>a. /\ count = pos - 1
      /\ pc = "call" => pos = 1
      /\ pc = "ok" /\ ~cut => pos = Len(walk) + 1
      /\ backend # "upscaledb" /\ pos \in 1 .. Len(walk) + 1 /\ Len(walk) \in Nat
  BY WalkFacts DEF CountInv, TypeInv
<1>1. CASE Refused
  BY <1>1, <1>a DEF Refused, Return
<1>2. CASE Open
  BY <1>2, <1>a DEF Open
<1>3. CASE CountKeys
  BY <1>3, <1>a DEF CountKeys, CountOne, Advance, Valid, Return
<1>4. CASE CursorFails
  BY <1>4, <1>a DEF CursorFails, Counted, Return
<1>5. CASE UNCHANGED vars
  BY <1>5, <1>a DEF vars
<1> QED
  BY <1>1, <1>2, <1>3, <1>4, <1>5 DEF Next, IterateKeys, FilterKeys, DumpKeys, MoveThenList, FlushKeys

\* DBKCOUNT of every store but memcached counts each key once, for stores of any size.
THEOREM CountComplete == Spec => []CountExact
<1>1. Init => TypeInv /\ CountInv
  <2> SUFFICES ASSUME Init PROVE TypeInv /\ CountInv
    OBVIOUS
  <2>1. pc = "call" /\ count = 0 /\ pos = 1
    BY Zenon DEF Init
  <2> QED
    BY <2>1, InitType DEF CountInv
<1>2. TypeInv /\ CountInv /\ [Next]_vars => (TypeInv /\ CountInv)'
  BY NextType, CountKept
<1>3. TypeInv /\ CountInv => CountExact
  BY WalkFacts DEF CountInv, CountExact, AllCounted
<1> QED
  BY <1>1, <1>2, <1>3, PTL DEF Spec
=============================================================================
