--------------------------- MODULE ExplorerProofs ---------------------------
(***************************************************************************)
(* Proofs about Explorer for any server, any keys and any number of        *)
(* requests.                                                               *)
(***************************************************************************)
EXTENDS Explorer, FiniteSetTheorems, SequenceTheorems, WellFoundedInduction, TLAPS

-----------------------------------------------------------------------------
(* The operators on the items of a database. *)

\* SetToSeq lists every element of a finite set once.
LEMMA SetToSeqLists ==
  ASSUME NEW S, IsFiniteSet(S)
  PROVE  /\ Cardinality(S) \in Nat
         /\ SetToSeq(S) \in Seq(S) /\ Len(SetToSeq(S)) = Cardinality(S)
         /\ Range(SetToSeq(S)) = S /\ IsInjective(SetToSeq(S))
<1> DEFINE n == Cardinality(S)
           f == SetToSeq(S)
<1>1. n \in Nat /\ \E g \in [1 .. n -> S] : IsInjective(g)
  BY FS_CardinalityType DEF ExistsBijection, Bijection, Injection
<1>2. f \in [1 .. n -> S] /\ IsInjective(f)
  BY <1>1 DEF SetToSeq
<1>3. f \in Injection(1 .. n, S)
  BY <1>2 DEF Injection
<1>4. Cardinality(1 .. n) = n
  BY <1>1, FS_Interval
<1>5. f \in Surjection(1 .. n, S)
  BY <1>3, <1>4, FS_Injection
<1>6. Range(f) = S
  BY <1>2, <1>5 DEF Surjection, Range
<1>7. f \in Seq(S) /\ Len(f) = n
  BY <1>1, <1>2
<1> QED BY <1>1, <1>2, <1>6, <1>7

\* Adding keys shows those that were shown and the new ones, none twice.
LEMMA WithKeysShows ==
  ASSUME NEW K, IsFiniteSet(K), NEW shown \in Seq(K), NEW keys \in SUBSET K
  PROVE  /\ WithKeys(shown, keys) \in Seq(K)
         /\ Range(WithKeys(shown, keys)) = Range(shown) \cup keys
         /\ IsInjective(shown) => IsInjective(WithKeys(shown, keys))
<1> DEFINE new == keys \ Range(shown)
           t   == SetToSeq(new)
           all == shown \o t
<1>1. IsFiniteSet(new) /\ new \subseteq K
  BY FS_Subset
<1>2. t \in Seq(new) /\ Range(t) = new /\ IsInjective(t)
  BY <1>1, SetToSeqLists
<1>3. t \in Seq(K)
  BY <1>1, <1>2, SeqMonotonic
<1> HIDE DEF t
<1>4. all \in Seq(K) /\ Range(all) = Range(shown) \cup keys
  <2>1. all \in Seq(K) BY <1>3, ConcatProperties
  <2>2. Range(all) = Range(shown) \cup Range(t) BY <1>3, RangeConcatenation
  <2> QED BY <2>1, <2>2, <1>2
<1>5. ASSUME IsInjective(shown) PROVE IsInjective(all)
  <2>1. DOMAIN all = 1 .. Len(shown) + Len(t) /\ Len(shown) \in Nat /\ Len(t) \in Nat
    BY <1>3, <1>4, ConcatProperties, LenProperties
  <2>2. \A i \in 1 .. Len(shown) + Len(t) :
          all[i] = IF i <= Len(shown) THEN shown[i] ELSE t[i - Len(shown)]
    BY <1>3, ConcatProperties
  <2>3. \A i \in 1 .. Len(shown) : shown[i] \in Range(shown)
    BY DEF Range
  <2>4. \A i \in 1 .. Len(t) : t[i] \notin Range(shown)
    BY <1>2
  <2> HIDE DEF all
  <2>5. SUFFICES ASSUME NEW a \in DOMAIN all, NEW b \in DOMAIN all, all[a] = all[b], a < b
                 PROVE  FALSE
    BY <2>1 DEF IsInjective
  <2>6. CASE b <= Len(shown)
    BY <2>1, <2>2, <2>5, <2>6, <1>5 DEF IsInjective
  <2>7. CASE a <= Len(shown) /\ b > Len(shown)
    BY <2>1, <2>2, <2>3, <2>4, <2>5, <2>7
  <2>8. CASE a > Len(shown)
    <3>1. a - Len(shown) \in 1 .. Len(t) /\ b - Len(shown) \in 1 .. Len(t)
      BY <2>1, <2>5, <2>8
    <3>2. t[a - Len(shown)] = t[b - Len(shown)]
      BY <2>1, <2>2, <2>5, <2>8
    <3>3. DOMAIN t = 1 .. Len(t)
      BY <1>3, LenProperties
    <3> QED BY <3>1, <3>2, <3>3, <1>2, <2>1, <2>5 DEF IsInjective
  <2> QED BY <2>1, <2>6, <2>7, <2>8
<1> QED BY <1>4, <1>5 DEF WithKeys, t

\* The first item of a name is found when there is one.
LEMMA FindFinds ==
  ASSUME NEW K, NEW shown \in Seq(K), NEW keys, Range(shown) \cap keys # {}
  PROVE  Find(shown, keys) \in 1 .. Len(shown) /\ shown[Find(shown, keys)] \in keys
<1> DEFINE M == {i \in 1 .. Len(shown) : shown[i] \in keys}
<1>1. DOMAIN shown = 1 .. Len(shown) /\ Len(shown) \in Nat
  BY LenProperties
<1>2. M # {} /\ M \subseteq Nat
  BY <1>1 DEF Range
<1>3. PICK m \in M : \A y \in M : ~ <<y, m>> \in OpToRel(<, Nat)
  BY <1>2, NatLessThanWellFounded, WFMin, Zenon
<1>4. \A y \in M : ~ (y < m)
  BY <1>2, <1>3 DEF OpToRel
<1>5. \A j \in 1 .. m - 1 : shown[j] \notin keys
  BY <1>1, <1>4
<1>6. \E i \in DOMAIN shown : shown[i] \in keys /\ \A j \in 1 .. i - 1 : shown[j] \notin keys
  BY <1>1, <1>5
<1> QED BY <1>1, <1>6 DEF Find

\* Taking an item out takes out no other.
LEMMA RemoveAtRemoves ==
  ASSUME NEW K, NEW s \in Seq(K), NEW i \in 1 .. Len(s)
  PROVE  /\ RemoveAt(s, i) \in Seq(K)
         /\ Range(s) \ {s[i]} \subseteq Range(RemoveAt(s, i))
         /\ IsInjective(s) => /\ IsInjective(RemoveAt(s, i))
                              /\ Range(RemoveAt(s, i)) \subseteq Range(s) \ {s[i]}
<1> DEFINE a == SubSeq(s, 1, i - 1)
           b == SubSeq(s, i + 1, Len(s))
           r == a \o b
<1>1. DOMAIN s = 1 .. Len(s) /\ Len(s) \in Nat /\ \A j \in 1 .. Len(s) : s[j] \in K
  BY LenProperties
<1>2. a \in Seq(K) /\ Len(a) = i - 1 /\ \A j \in 1 .. i - 1 : a[j] = s[j]
  BY <1>1, SubSeqProperties
<1>3. b \in Seq(K) /\ Len(b) = Len(s) - i /\ \A j \in 1 .. Len(s) - i : b[j] = s[i + j]
  <2>1. i + 1 \in Int /\ Len(s) \in Int /\ \A j \in i + 1 .. Len(s) : s[j] \in K
    BY <1>1
  <2>2. /\ b \in Seq(K) /\ Len(b) = IF i + 1 <= Len(s) THEN Len(s) - (i + 1) + 1 ELSE 0
        /\ \A j \in 1 .. Len(s) - (i + 1) + 1 : b[j] = s[(i + 1) + j - 1]
    BY <2>1, SubSeqProperties
  <2> HIDE DEF b
  <2>3. Len(b) = Len(s) - i /\ Len(s) - (i + 1) + 1 = Len(s) - i
    <3>1. Len(b) = IF i + 1 <= Len(s) THEN Len(s) - (i + 1) + 1 ELSE 0
      BY <2>2
    <3>2. Len(s) \in Nat /\ i \in Nat /\ i <= Len(s)
      BY <1>1
    <3>3. Len(s) - (i + 1) + 1 = Len(s) - i
      BY <3>2
    <3>4. CASE i + 1 <= Len(s)
      BY <3>1, <3>3, <3>4
    <3>5. CASE ~(i + 1 <= Len(s))
      <4>1. Len(s) - i = 0 BY <3>2, <3>5
      <4> QED BY <3>1, <3>3, <3>5, <4>1
    <3> QED BY <3>4, <3>5
  <2>4. ASSUME NEW j \in 1 .. Len(s) - i PROVE b[j] = s[i + j]
    <3>1. (i + 1) + j - 1 = i + j BY <1>1
    <3> QED BY <2>2, <2>3, <3>1
  <2> QED BY <2>2, <2>3, <2>4
<1> HIDE DEF a, b
<1>4. /\ r \in Seq(K) /\ Len(r) = Len(s) - 1 /\ DOMAIN r = 1 .. Len(s) - 1
      /\ \A j \in 1 .. Len(s) - 1 : r[j] = IF j < i THEN s[j] ELSE s[j + 1]
  <2>1. /\ r \in Seq(K) /\ Len(r) = Len(a) + Len(b)
        /\ \A j \in 1 .. Len(a) + Len(b) : r[j] = IF j <= Len(a) THEN a[j] ELSE b[j - Len(a)]
    BY <1>2, <1>3, ConcatProperties
  <2>2. DOMAIN r = 1 .. Len(r)
    BY <2>1, LenProperties
  <2> HIDE DEF r
  <2>3. Len(a) + Len(b) = Len(s) - 1
    BY <1>1, <1>2, <1>3
  <2>4. ASSUME NEW j \in 1 .. Len(s) - 1 PROVE r[j] = IF j < i THEN s[j] ELSE s[j + 1]
    <3>1. CASE j < i
      BY <3>1, <1>1, <1>2, <2>1, <2>3
    <3>2. CASE ~(j < i)
      <4>1. j - Len(a) \in 1 .. Len(s) - i /\ i + (j - Len(a)) = j + 1 /\ ~(j <= Len(a))
        BY <3>2, <1>1, <1>2
      <4>2. r[j] = b[j - Len(a)] BY <4>1, <2>1, <2>3
      <4> QED BY <4>1, <4>2, <1>3, <3>2
    <3> QED BY <3>1, <3>2
  <2> QED BY <2>1, <2>2, <2>3, <2>4
<1> HIDE DEF r
<1>5. Range(s) \ {s[i]} \subseteq Range(r)
  <2> SUFFICES ASSUME NEW j \in 1 .. Len(s), s[j] # s[i] PROVE s[j] \in Range(r)
    BY <1>1 DEF Range
  <2>1. CASE j < i
    <3>1. j \in 1 .. Len(s) - 1 /\ r[j] = s[j]
      BY <1>1, <1>4, <2>1
    <3> QED BY <3>1, <1>4 DEF Range
  <2>2. CASE j > i
    <3>1. j - 1 \in 1 .. Len(s) - 1 /\ r[j - 1] = s[j]
      BY <1>1, <1>4, <2>2
    <3> QED BY <3>1, <1>4 DEF Range
  <2> QED BY <1>1, <2>1, <2>2
<1>6. ASSUME IsInjective(s) PROVE IsInjective(r) /\ Range(r) \subseteq Range(s) \ {s[i]}
  <2>1. IsInjective(r)
    <3>1. SUFFICES ASSUME NEW x \in 1 .. Len(s) - 1, NEW y \in 1 .. Len(s) - 1, r[x] = r[y]
                   PROVE  x = y
      BY <1>4 DEF IsInjective
    <3> DEFINE at(j) == IF j < i THEN j ELSE j + 1
    <3>2. at(x) \in DOMAIN s /\ at(y) \in DOMAIN s /\ r[x] = s[at(x)] /\ r[y] = s[at(y)]
      BY <1>1, <1>4
    <3>3. at(x) = at(y)
      BY <3>1, <3>2, <1>6 DEF IsInjective
    <3> QED BY <3>3, <1>1
  <2>2. \A j \in 1 .. Len(s) - 1 : r[j] \in Range(s) \ {s[i]}
    BY <1>1, <1>4, <1>6 DEF IsInjective, Range
  <2> QED BY <2>1, <2>2, <1>4 DEF Range
<1> QED BY <1>4, <1>5, <1>6 DEF RemoveAt, a, b, r

\* Renaming an item keeps the others.
LEMMA RenamedRenames ==
  ASSUME NEW K, NEW shown \in Seq(K), NEW k \in K, k \in Range(shown), NEW new \in K
  PROVE  /\ Renamed(shown, {k}, new) \in Seq(K)
         /\ (Range(shown) \ {k}) \cup {new} \subseteq Range(Renamed(shown, {k}, new))
         /\ IsInjective(shown) /\ new \notin Range(shown) =>
              /\ IsInjective(Renamed(shown, {k}, new))
              /\ Range(Renamed(shown, {k}, new)) \subseteq (Range(shown) \ {k}) \cup {new}
<1> DEFINE i == Find(shown, {k})
           r == [shown EXCEPT ![i] = new]
<1>1. i \in 1 .. Len(shown) /\ shown[i] = k
  BY FindFinds
<1>2. DOMAIN shown = 1 .. Len(shown) /\ Len(shown) \in Nat
  BY LenProperties
<1> HIDE DEF i
<1>3. /\ r \in Seq(K) /\ DOMAIN r = 1 .. Len(shown)
      /\ \A j \in 1 .. Len(shown) : r[j] = IF j = i THEN new ELSE shown[j]
  BY <1>1, <1>2, ExceptSeq
<1> HIDE DEF r
<1>4. (Range(shown) \ {k}) \cup {new} \subseteq Range(r)
  BY <1>1, <1>2, <1>3 DEF Range
<1>5. ASSUME IsInjective(shown), new \notin Range(shown)
      PROVE  IsInjective(r) /\ Range(r) \subseteq (Range(shown) \ {k}) \cup {new}
  <2>1. \A j \in 1 .. Len(shown) : shown[j] \in Range(shown) /\ (j # i => shown[j] # k)
    BY <1>1, <1>2, <1>5 DEF IsInjective, Range
  <2>2. IsInjective(r)
    BY <1>1, <1>2, <1>3, <1>5, <2>1 DEF IsInjective
  <2>3. \A j \in 1 .. Len(shown) : r[j] \in (Range(shown) \ {k}) \cup {new}
    BY <1>3, <2>1
  <2> QED BY <2>2, <2>3, <1>3 DEF Range
<1> QED BY <1>3, <1>4, <1>5 DEF Renamed, i, r

-----------------------------------------------------------------------------
(* Events still queued, as changes of the set of keys that are shown. *)

\* What showing A becomes when the tree handles e.
Kept(A, e) ==
  CASE e.type \in {"content", "added"} -> A \cup e.keys
    [] e.type = "cleared" -> {}
    [] e.type = "removed" -> A \ e.keys
    [] e.type = "renamed" -> IF A \cap e.keys = {} THEN A ELSE (A \ e.keys) \cup {e.new}
    [] OTHER -> A

\* A tree that shows at least A shows at least X once it has handled es.
ShowsAll(K, A, es, X) ==
  \E T \in [0 .. Len(es) -> SUBSET K] :
    /\ T[0] \subseteq A /\ X \subseteq T[Len(es)]
    /\ \A i \in 1 .. Len(es) : T[i] \subseteq Kept(T[i - 1], es[i])

\* A tree that shows at most A shows at most X once it has handled es.
ShowsOnly(K, A, es, X) ==
  \E T \in [0 .. Len(es) -> SUBSET K] :
    /\ A \subseteq T[0] /\ T[Len(es)] \subseteq X
    /\ \A i \in 1 .. Len(es) : Kept(T[i - 1], es[i]) \subseteq T[i]

\* More shown before an event is more shown after it.
LEMMA KeptMonotonic ==
  ASSUME NEW A, NEW B, A \subseteq B, NEW e
  PROVE  Kept(A, e) \subseteq Kept(B, e)
<1>1. CASE e.type = "renamed"
  BY <1>1 DEF Kept
<1>2. CASE e.type # "renamed"
  BY <1>2 DEF Kept
<1> QED BY <1>1, <1>2

\* With nothing queued the tree shows what it shows.
LEMMA ShowsAllNone ==
  ASSUME NEW K, NEW A \in SUBSET K, NEW X \in SUBSET K
  PROVE  ShowsAll(K, A, <<>>, X) <=> X \subseteq A
<1>1. ASSUME X \subseteq A PROVE ShowsAll(K, A, <<>>, X)
  <2> DEFINE T == [i \in 0 .. 0 |-> X]
  <2>1. T \in [0 .. 0 -> SUBSET K] /\ T[0] = X
    OBVIOUS
  <2> HIDE DEF T
  <2>2. Len(<<>>) = 0 /\ 1 .. 0 = {}
    OBVIOUS
  <2>3. T \in [0 .. Len(<<>>) -> SUBSET K]
    BY <2>1, <2>2, Zenon
  <2>4. T[0] \subseteq A /\ X \subseteq T[Len(<<>>)]
    BY <1>1, <2>1, <2>2
  <2>5. \A i \in 1 .. Len(<<>>) : T[i] \subseteq Kept(T[i - 1], <<>>[i])
    BY <2>2
  <2> QED BY <2>3, <2>4, <2>5, Zenon DEF ShowsAll
<1>2. ASSUME ShowsAll(K, A, <<>>, X) PROVE X \subseteq A
  BY <1>2 DEF ShowsAll
<1> QED BY <1>1, <1>2

\* One event queued.
LEMMA ShowsAllOne ==
  ASSUME NEW K, NEW A \in SUBSET K, NEW X \in SUBSET K, NEW e, X \subseteq Kept(A, e)
  PROVE  ShowsAll(K, A, <<e>>, X)
<1> DEFINE T == [i \in 0 .. 1 |-> IF i = 0 THEN A ELSE X]
           es == <<e>>
<1>1. Len(es) = 1 /\ es[1] = e
  OBVIOUS
<1>2. T \in [0 .. 1 -> SUBSET K] /\ T[0] = A /\ T[1] = X
  OBVIOUS
<1> HIDE DEF T, es
<1>3. \A i \in 1 .. Len(es) : T[i] \subseteq Kept(T[i - 1], es[i])
  <2> SUFFICES ASSUME NEW i \in 1 .. 1 PROVE T[i] \subseteq Kept(T[i - 1], es[i])
    BY <1>1
  <2>1. i = 1 /\ i - 1 = 0
    OBVIOUS
  <2> QED BY <2>1, <1>1, <1>2
<1>4. ShowsAll(K, A, es, X)
  BY <1>1, <1>2, <1>3 DEF ShowsAll
<1> QED BY <1>4 DEF es

\* Events queued behind others.
LEMMA ShowsAllJoin ==
  ASSUME NEW K, NEW E, NEW A \in SUBSET K, NEW X \in SUBSET K, NEW Y \in SUBSET K,
         NEW es \in Seq(E), NEW fs \in Seq(E), ShowsAll(K, A, es, X), ShowsAll(K, X, fs, Y)
  PROVE  ShowsAll(K, A, es \o fs, Y)
<1> DEFINE m == Len(es)
           n == Len(fs)
           gs == es \o fs
<1>1. PICK S \in [0 .. m -> SUBSET K] :
        /\ S[0] \subseteq A /\ X \subseteq S[m]
        /\ \A i \in 1 .. m : S[i] \subseteq Kept(S[i - 1], es[i])
  BY DEF ShowsAll
<1>2. PICK T \in [0 .. n -> SUBSET K] :
        /\ T[0] \subseteq X /\ Y \subseteq T[n]
        /\ \A i \in 1 .. n : T[i] \subseteq Kept(T[i - 1], fs[i])
  BY DEF ShowsAll
<1> DEFINE R == [i \in 0 .. m + n |->
                  IF i <= m THEN (IF i = m /\ n > 0 THEN X ELSE S[i]) ELSE T[i - m]]
<1>3. /\ m \in Nat /\ n \in Nat /\ Len(gs) = m + n
      /\ \A i \in 1 .. m + n : gs[i] = IF i <= m THEN es[i] ELSE fs[i - m]
  BY ConcatProperties, LenProperties
<1> HIDE DEF m, n, gs
<1>4. R \in [0 .. m + n -> SUBSET K]
  BY <1>3
<1>5. R[0] \subseteq A
  <2>1. CASE m = 0 /\ n > 0
    BY <2>1, <1>1, <1>3
  <2>2. CASE ~(m = 0 /\ n > 0)
    BY <2>2, <1>1, <1>3
  <2> QED BY <2>1, <2>2
<1>6. Y \subseteq R[m + n]
  <2>1. CASE n = 0
    <3>1. R[m + n] = S[m] BY <2>1, <1>3
    <3>2. Y \subseteq X BY <2>1, <1>2
    <3> QED BY <3>1, <3>2, <1>1
  <2>2. CASE n > 0
    BY <2>2, <1>2, <1>3
  <2> QED BY <2>1, <2>2, <1>3
<1>7. ASSUME NEW i \in 1 .. m + n PROVE R[i] \subseteq Kept(R[i - 1], gs[i])
  <2>1. CASE i < m \/ (i = m /\ n = 0)
    <3>1. R[i] = S[i] /\ R[i - 1] = S[i - 1] /\ gs[i] = es[i] /\ i \in 1 .. m
      BY <2>1, <1>3
    <3> QED BY <3>1, <1>1
  <2>2. CASE i = m /\ n > 0
    <3>1. R[i] = X /\ R[i - 1] = S[i - 1] /\ gs[i] = es[i] /\ i \in 1 .. m
      BY <2>2, <1>3
    <3> QED BY <3>1, <1>1, <2>2
  <2>3. CASE i = m + 1
    <3>1. R[i] = T[1] /\ R[i - 1] = X /\ gs[i] = fs[1] /\ 1 \in 1 .. n /\ 1 - 1 = 0
      BY <2>3, <1>3
    <3>2. T[1] \subseteq Kept(T[0], fs[1])
      BY <3>1, <1>2
    <3>3. Kept(T[0], fs[1]) \subseteq Kept(X, fs[1])
      BY <1>2, KeptMonotonic
    <3> QED BY <3>1, <3>2, <3>3
  <2>4. CASE i > m + 1
    <3>1. /\ i - m \in 1 .. n /\ (i - 1) - m = (i - m) - 1 /\ i - 1 \in 0 .. m + n
          /\ i \in 0 .. m + n /\ ~(i <= m) /\ ~(i - 1 <= m)
      BY <2>4, <1>3
    <3>2. R[i] = T[i - m] /\ gs[i] = fs[i - m]
      BY <3>1, <1>3
    <3>3. R[i - 1] = T[(i - m) - 1]
      BY <3>1
    <3>4. T[i - m] \subseteq Kept(T[(i - m) - 1], fs[i - m])
      BY <3>1, <1>2
    <3> HIDE DEF R
    <3> QED BY <3>2, <3>3, <3>4, Zenon
  <2>5. \/ i < m \/ (i = m /\ n = 0) \/ (i = m /\ n > 0)
        \/ i = m + 1 \/ i > m + 1
    BY <1>3
  <2> QED BY <2>1, <2>2, <2>3, <2>4, <2>5, Zenon
<1>8. ShowsAll(K, A, gs, Y)
  <2> HIDE DEF R
  <2>1. R \in [0 .. Len(gs) -> SUBSET K] /\ R[0] \subseteq A /\ Y \subseteq R[Len(gs)]
    BY <1>3, <1>4, <1>5, <1>6
  <2>2. \A i \in 1 .. Len(gs) : R[i] \subseteq Kept(R[i - 1], gs[i])
    BY <1>3, <1>7
  <2> QED BY <2>1, <2>2 DEF ShowsAll
<1> QED BY <1>8 DEF gs

\* The tree handles the first event.
LEMMA ShowsAllTail ==
  ASSUME NEW K, NEW E, NEW A \in SUBSET K, NEW B \in SUBSET K, NEW X \in SUBSET K,
         NEW es \in Seq(E), es # <<>>, ShowsAll(K, A, es, X), Kept(A, Head(es)) \subseteq B
  PROVE  ShowsAll(K, B, Tail(es), X)
<1> DEFINE n == Len(es)
           ts == Tail(es)
<1>1. PICK T \in [0 .. n -> SUBSET K] :
        /\ T[0] \subseteq A /\ X \subseteq T[n]
        /\ \A i \in 1 .. n : T[i] \subseteq Kept(T[i - 1], es[i])
  BY DEF ShowsAll
<1>2. /\ n \in Nat /\ n > 0 /\ Len(ts) = n - 1 /\ Head(es) = es[1]
      /\ \A i \in 1 .. n - 1 : ts[i] = es[i + 1]
  BY HeadTailProperties, LenProperties, EmptySeq
<1> DEFINE R == [i \in 0 .. n - 1 |-> T[i + 1]]
<1> HIDE DEF n, ts
<1>3. R \in [0 .. n - 1 -> SUBSET K]
  BY <1>2
<1>4. R[0] \subseteq B /\ X \subseteq R[n - 1]
  <2>1. 1 \in 1 .. n /\ 1 - 1 = 0 /\ R[0] = T[1] /\ R[n - 1] = T[n]
    BY <1>2
  <2>2. T[1] \subseteq Kept(T[0], es[1])
    BY <2>1, <1>1
  <2>3. Kept(T[0], es[1]) \subseteq Kept(A, es[1])
    BY <1>1, KeptMonotonic
  <2> QED BY <2>1, <2>2, <2>3, <1>1, <1>2
<1>5. ASSUME NEW i \in 1 .. n - 1 PROVE R[i] \subseteq Kept(R[i - 1], ts[i])
  <2>1. R[i] = T[i + 1] /\ R[i - 1] = T[(i + 1) - 1] /\ ts[i] = es[i + 1] /\ i + 1 \in 1 .. n
    BY <1>2
  <2> QED BY <2>1, <1>1
<1>6. ShowsAll(K, B, ts, X)
  <2> HIDE DEF R
  <2> QED BY <1>2, <1>3, <1>4, <1>5 DEF ShowsAll
<1> QED BY <1>6 DEF ts

\* The same four facts for what is shown at most; nothing queued.
LEMMA ShowsOnlyNone ==
  ASSUME NEW K, NEW A \in SUBSET K, NEW X \in SUBSET K
  PROVE  ShowsOnly(K, A, <<>>, X) <=> A \subseteq X
<1>1. ASSUME A \subseteq X PROVE ShowsOnly(K, A, <<>>, X)
  <2> DEFINE T == [i \in 0 .. 0 |-> X]
  <2>1. T \in [0 .. 0 -> SUBSET K] /\ T[0] = X
    OBVIOUS
  <2> HIDE DEF T
  <2>2. Len(<<>>) = 0 /\ 1 .. 0 = {}
    OBVIOUS
  <2>3. T \in [0 .. Len(<<>>) -> SUBSET K]
    BY <2>1, <2>2, Zenon
  <2>4. A \subseteq T[0] /\ T[Len(<<>>)] \subseteq X
    BY <1>1, <2>1, <2>2
  <2>5. \A i \in 1 .. Len(<<>>) : Kept(T[i - 1], <<>>[i]) \subseteq T[i]
    BY <2>2
  <2> QED BY <2>3, <2>4, <2>5, Zenon DEF ShowsOnly
<1>2. ASSUME ShowsOnly(K, A, <<>>, X) PROVE A \subseteq X
  BY <1>2 DEF ShowsOnly
<1> QED BY <1>1, <1>2

\* One event queued.
LEMMA ShowsOnlyOne ==
  ASSUME NEW K, NEW A \in SUBSET K, NEW X \in SUBSET K, NEW e, Kept(A, e) \subseteq X
  PROVE  ShowsOnly(K, A, <<e>>, X)
<1> DEFINE T == [i \in 0 .. 1 |-> IF i = 0 THEN A ELSE X]
           es == <<e>>
<1>1. Len(es) = 1 /\ es[1] = e
  OBVIOUS
<1>2. T \in [0 .. 1 -> SUBSET K] /\ T[0] = A /\ T[1] = X
  OBVIOUS
<1> HIDE DEF T, es
<1>3. \A i \in 1 .. Len(es) : Kept(T[i - 1], es[i]) \subseteq T[i]
  <2> SUFFICES ASSUME NEW i \in 1 .. 1 PROVE Kept(T[i - 1], es[i]) \subseteq T[i]
    BY <1>1
  <2>1. i = 1 /\ i - 1 = 0
    OBVIOUS
  <2> QED BY <2>1, <1>1, <1>2
<1>4. ShowsOnly(K, A, es, X)
  BY <1>1, <1>2, <1>3 DEF ShowsOnly
<1> QED BY <1>4 DEF es

\* Events queued behind others.
LEMMA ShowsOnlyJoin ==
  ASSUME NEW K, NEW E, NEW A \in SUBSET K, NEW X \in SUBSET K, NEW Y \in SUBSET K,
         NEW es \in Seq(E), NEW fs \in Seq(E), ShowsOnly(K, A, es, X), ShowsOnly(K, X, fs, Y)
  PROVE  ShowsOnly(K, A, es \o fs, Y)
<1> DEFINE m == Len(es)
           n == Len(fs)
           gs == es \o fs
<1>1. PICK S \in [0 .. m -> SUBSET K] :
        /\ A \subseteq S[0] /\ S[m] \subseteq X
        /\ \A i \in 1 .. m : Kept(S[i - 1], es[i]) \subseteq S[i]
  BY DEF ShowsOnly
<1>2. PICK T \in [0 .. n -> SUBSET K] :
        /\ X \subseteq T[0] /\ T[n] \subseteq Y
        /\ \A i \in 1 .. n : Kept(T[i - 1], fs[i]) \subseteq T[i]
  BY DEF ShowsOnly
<1> DEFINE R == [i \in 0 .. m + n |->
                  IF i <= m THEN (IF i = m /\ n > 0 THEN X ELSE S[i]) ELSE T[i - m]]
<1>3. /\ m \in Nat /\ n \in Nat /\ Len(gs) = m + n
      /\ \A i \in 1 .. m + n : gs[i] = IF i <= m THEN es[i] ELSE fs[i - m]
  BY ConcatProperties, LenProperties
<1> HIDE DEF m, n, gs
<1>4. R \in [0 .. m + n -> SUBSET K]
  BY <1>3
<1>5. A \subseteq R[0]
  <2>1. CASE m = 0 /\ n > 0
    BY <2>1, <1>1, <1>3
  <2>2. CASE ~(m = 0 /\ n > 0)
    BY <2>2, <1>1, <1>3
  <2> QED BY <2>1, <2>2
<1>6. R[m + n] \subseteq Y
  <2>1. CASE n = 0
    <3>1. R[m + n] = S[m] BY <2>1, <1>3
    <3>2. X \subseteq Y BY <2>1, <1>2
    <3> QED BY <3>1, <3>2, <1>1
  <2>2. CASE n > 0
    BY <2>2, <1>2, <1>3
  <2> QED BY <2>1, <2>2, <1>3
<1>7. ASSUME NEW i \in 1 .. m + n PROVE Kept(R[i - 1], gs[i]) \subseteq R[i]
  <2>1. CASE i < m \/ (i = m /\ n = 0)
    <3>1. R[i] = S[i] /\ R[i - 1] = S[i - 1] /\ gs[i] = es[i] /\ i \in 1 .. m
      BY <2>1, <1>3
    <3> QED BY <3>1, <1>1
  <2>2. CASE i = m /\ n > 0
    <3>1. R[i] = X /\ R[i - 1] = S[i - 1] /\ gs[i] = es[i] /\ i \in 1 .. m
      BY <2>2, <1>3
    <3> QED BY <3>1, <1>1, <2>2
  <2>3. CASE i = m + 1
    <3>1. R[i] = T[1] /\ R[i - 1] = X /\ gs[i] = fs[1] /\ 1 \in 1 .. n /\ 1 - 1 = 0
      BY <2>3, <1>3
    <3>2. Kept(T[0], fs[1]) \subseteq T[1]
      BY <3>1, <1>2
    <3>3. Kept(X, fs[1]) \subseteq Kept(T[0], fs[1])
      BY <1>2, KeptMonotonic
    <3> QED BY <3>1, <3>2, <3>3
  <2>4. CASE i > m + 1
    <3>1. /\ i - m \in 1 .. n /\ (i - 1) - m = (i - m) - 1 /\ i - 1 \in 0 .. m + n
          /\ i \in 0 .. m + n /\ ~(i <= m) /\ ~(i - 1 <= m)
      BY <2>4, <1>3
    <3>2. R[i] = T[i - m] /\ gs[i] = fs[i - m]
      BY <3>1, <1>3
    <3>3. R[i - 1] = T[(i - m) - 1]
      BY <3>1
    <3>4. Kept(T[(i - m) - 1], fs[i - m]) \subseteq T[i - m]
      BY <3>1, <1>2
    <3> HIDE DEF R
    <3> QED BY <3>2, <3>3, <3>4, Zenon
  <2>5. \/ i < m \/ (i = m /\ n = 0) \/ (i = m /\ n > 0)
        \/ i = m + 1 \/ i > m + 1
    BY <1>3
  <2> QED BY <2>1, <2>2, <2>3, <2>4, <2>5, Zenon
<1>8. ShowsOnly(K, A, gs, Y)
  <2> HIDE DEF R
  <2>1. R \in [0 .. Len(gs) -> SUBSET K] /\ A \subseteq R[0] /\ R[Len(gs)] \subseteq Y
    BY <1>3, <1>4, <1>5, <1>6
  <2>2. \A i \in 1 .. Len(gs) : Kept(R[i - 1], gs[i]) \subseteq R[i]
    BY <1>3, <1>7
  <2> QED BY <2>1, <2>2 DEF ShowsOnly
<1> QED BY <1>8 DEF gs

\* The tree handles the first event.
LEMMA ShowsOnlyTail ==
  ASSUME NEW K, NEW E, NEW A \in SUBSET K, NEW B \in SUBSET K, NEW X \in SUBSET K,
         NEW es \in Seq(E), es # <<>>, ShowsOnly(K, A, es, X), B \subseteq Kept(A, Head(es))
  PROVE  ShowsOnly(K, B, Tail(es), X)
<1> DEFINE n == Len(es)
           ts == Tail(es)
<1>1. PICK T \in [0 .. n -> SUBSET K] :
        /\ A \subseteq T[0] /\ T[n] \subseteq X
        /\ \A i \in 1 .. n : Kept(T[i - 1], es[i]) \subseteq T[i]
  BY DEF ShowsOnly
<1>2. /\ n \in Nat /\ n > 0 /\ Len(ts) = n - 1 /\ Head(es) = es[1]
      /\ \A i \in 1 .. n - 1 : ts[i] = es[i + 1]
  BY HeadTailProperties, LenProperties, EmptySeq
<1> DEFINE R == [i \in 0 .. n - 1 |-> T[i + 1]]
<1> HIDE DEF n, ts
<1>3. R \in [0 .. n - 1 -> SUBSET K]
  BY <1>2
<1>4. B \subseteq R[0] /\ R[n - 1] \subseteq X
  <2>1. 1 \in 1 .. n /\ 1 - 1 = 0 /\ R[0] = T[1] /\ R[n - 1] = T[n]
    BY <1>2
  <2>2. Kept(T[0], es[1]) \subseteq T[1]
    BY <2>1, <1>1
  <2>3. Kept(A, es[1]) \subseteq Kept(T[0], es[1])
    BY <1>1, KeptMonotonic
  <2> QED BY <2>1, <2>2, <2>3, <1>1, <1>2
<1>5. ASSUME NEW i \in 1 .. n - 1 PROVE Kept(R[i - 1], ts[i]) \subseteq R[i]
  <2>1. R[i] = T[i + 1] /\ R[i - 1] = T[(i + 1) - 1] /\ ts[i] = es[i + 1] /\ i + 1 \in 1 .. n
    BY <1>2
  <2> QED BY <2>1, <1>1
<1>6. ShowsOnly(K, B, ts, X)
  <2> HIDE DEF R
  <2> QED BY <1>2, <1>3, <1>4, <1>5 DEF ShowsOnly
<1> QED BY <1>6 DEF ts

\* The signals of a deletion take the deleted keys off, and no others.
LEMMA RemovalsShow ==
  ASSUME NEW K, NEW A \in SUBSET K, NEW gone \in SUBSET K, IsFiniteSet(gone),
         NEW X \in SUBSET K
  PROVE  /\ X \subseteq A \ gone => ShowsAll(K, A, Removals(gone), X)
         /\ A \ gone \subseteq X => ShowsOnly(K, A, Removals(gone), X)
<1> DEFINE o == SetToSeq(gone)
           n == Cardinality(gone)
           es == Removals(gone)
           T == [i \in 0 .. n |-> A \ {o[j] : j \in 1 .. i}]
<1>1. n \in Nat /\ o \in Seq(gone) /\ Len(o) = n /\ Range(o) = gone /\ DOMAIN o = 1 .. n
  BY SetToSeqLists, LenProperties
<1>2. Len(es) = n /\ \A i \in 1 .. n : es[i] = Event("removed", label, {o[i]}, NoKey)
  BY <1>1 DEF Removals
<1>3. \A i \in 1 .. n : es[i].type = "removed" /\ es[i].keys = {o[i]}
  BY <1>2 DEF Event
<1> HIDE DEF o, n, es
<1>4. T \in [0 .. n -> SUBSET K] /\ T[0] = A /\ T[n] = A \ gone
  <2>1. {o[j] : j \in 1 .. n} = gone
    BY <1>1 DEF Range
  <2> QED BY <1>1, <2>1
<1>5. \A i \in 1 .. n : T[i] = Kept(T[i - 1], es[i])
  <2> SUFFICES ASSUME NEW i \in 1 .. n PROVE T[i] = Kept(T[i - 1], es[i])
    OBVIOUS
  <2>1. 1 .. i = (1 .. i - 1) \cup {i} /\ i - 1 \in 0 .. n /\ i \in 0 .. n
    BY <1>1
  <2>2. T[i] = A \ {o[j] : j \in 1 .. i} /\ T[i - 1] = A \ {o[j] : j \in 1 .. i - 1}
    BY <2>1
  <2>3. T[i] = T[i - 1] \ {o[i]}
    BY <2>1, <2>2
  <2>4. Kept(T[i - 1], es[i]) = T[i - 1] \ {o[i]}
    <3> HIDE DEF T
    <3> QED BY <1>3 DEF Kept
  <2> QED BY <2>3, <2>4
<1> HIDE DEF T
<1>6. ASSUME X \subseteq A \ gone PROVE ShowsAll(K, A, es, X)
  BY <1>2, <1>4, <1>5, <1>6 DEF ShowsAll
<1>7. ASSUME A \ gone \subseteq X PROVE ShowsOnly(K, A, es, X)
  BY <1>2, <1>4, <1>5, <1>7 DEF ShowsOnly
<1> QED BY <1>6, <1>7 DEF es

-----------------------------------------------------------------------------
(* Inductive invariants. *)

\* Requests as the menus and consoles make them: those about a whole database name
\* one that has an item.
DriverRequests(N, K, L) ==
  {r \in [kind : Kinds, db : N, keys : SUBSET K, new : Nat] :
     /\ r.kind \in {"loadContent", "clear", "setDefault"} => r.db \in L
     /\ r.kind = "rename" => r.new \in K /\ \E k \in K : r.keys = {k}}

\* Events as the driver makes them.
TreeEvents(N, K, L) ==
  {e \in [type : Types, db : N, keys : SUBSET (K \cup N), new : Nat] :
     /\ e.type = "databases" => e.keys \subseteq N
     /\ e.type \in {"content", "added"} => e.keys \subseteq K
     /\ e.type \in {"content", "cleared", "default"} => e.db \in L
     /\ e.type \in {"removed", "renamed"} => \E k \in K : e.keys = {k}
     /\ e.type = "renamed" => e.new \in K}

\* The types, with what is queued well formed and keys only under listed databases.
TypeInv ==
  /\ server \in Servers
  /\ requests \in Seq(DriverRequests(Names, Keys, listed))
  /\ events \in Seq(TreeEvents(Names, Keys, listed))
  /\ asked \in 0 .. MaxRequests
  /\ stored \in [Stores -> SUBSET Keys]
  /\ connected \in BOOLEAN /\ selected \in Stores /\ label \in Names
  /\ held \subseteq Names /\ listed \subseteq Names
  /\ shared \subseteq listed /\ defaults \subseteq listed
  /\ items \in [Names -> Seq(Keys)] /\ loaded \subseteq listed
  /\ moved \in BOOLEAN /\ slips \subseteq Slips
  /\ \A n \in Names \ listed : items[n] = <<>>

-----------------------------------------------------------------------------
(* What the steps do, as the invariants see it. *)

\* What is assumed of a server.
LEMMA ServerFacts ==
  ASSUME server \in Servers
  PROVE  /\ Redis \in BOOLEAN /\ Stores \subseteq Names /\ Start \in Stores
         /\ server.first \in Stores /\ Keys \subseteq Nat /\ IsFiniteSet(Keys)
BY ConstantsAssumption DEF Redis, Stores, Names, Keys

\* The user adds one request, which is well formed.
UserStep ==
  /\ \E r \in DriverRequests(Names, Keys, listed) : requests' = Append(requests, r)
  /\ asked' \in 0 .. MaxRequests
  /\ UNCHANGED <<server, events, stored, connected, selected, label, held, listed, shared,
                 defaults, items, loaded, moved, slips>>

\* Every menu entry and console command is such a step.
LEMMA UserSteps ==
  ASSUME TypeInv, User
  PROVE  UserStep
<1> DEFINE R == DriverRequests(Names, Keys, listed)
<1>1. ASSUME NEW r \in R, Ask(r) PROVE UserStep
  BY <1>1, ConstantsAssumption DEF TypeInv, Ask, UserStep, driverVars, treeVars
<1>2. Stores \subseteq Names /\ Start \in Names /\ Keys \subseteq Nat /\ defaults \subseteq Names
  BY ServerFacts DEF TypeInv
<1>3. ASSUME NEW kind \in Kinds \ {"loadContent", "clear", "setDefault", "rename"},
             NEW db \in Names, NEW keys \in SUBSET Keys
      PROVE  Request(kind, db, keys, NoKey) \in R
  BY <1>3 DEF Request, DriverRequests, NoKey
<1>4. ASSUME NEW kind \in {"loadContent", "clear", "setDefault"}, NEW db \in listed
      PROVE  Request(kind, db, {}, NoKey) \in R
  BY <1>4 DEF Request, DriverRequests, NoKey, TypeInv, Kinds
<1>5. ASSUME NEW db \in Names, NEW k \in Keys, NEW new \in Keys
      PROVE  Request("rename", db, {k}, new) \in R
  BY <1>2 DEF Request, DriverRequests, Kinds
<1> HIDE DEF R
<1>6. ASSUME NEW db \in Names, NEW k \in Keys, Store(db, k) PROVE UserStep
  <2>1. Request("set", db, {k}, NoKey) \in R /\ Request("push", db, {k}, NoKey) \in R
    BY <1>3 DEF Kinds
  <2> QED BY <1>1, <1>6, <2>1 DEF Store
<1>7. ASSUME UseMenu PROVE UserStep
  <2>1. ASSUME Ask(Request("loadDatabases", Start, {}, NoKey)) PROVE UserStep
    BY <1>1, <1>2, <1>3, <2>1 DEF Kinds
  <2>2. ASSUME NEW n \in defaults, Ask(Request("loadContent", n, {}, NoKey)) PROVE UserStep
    BY <1>1, <1>4, <2>2 DEF TypeInv
  <2>3. ASSUME NEW n \in defaults, Ask(Request("clear", n, {}, NoKey)) PROVE UserStep
    BY <1>1, <1>4, <2>3 DEF TypeInv
  <2>4. ASSUME NEW n \in defaults, NEW k \in Keys, Store(n, k) PROVE UserStep
    BY <1>2, <1>6, <2>4
  <2>5. ASSUME NEW n \in listed \ defaults, Ask(Request("setDefault", n, {}, NoKey))
        PROVE  UserStep
    BY <1>1, <1>4, <2>5
  <2>6. ASSUME Ask(Request(IF connected THEN "disconnect" ELSE "connect", Start, {}, NoKey))
        PROVE  UserStep
    <3>1. (IF connected THEN "disconnect" ELSE "connect") \in
            Kinds \ {"loadContent", "clear", "setDefault", "rename"}
      BY DEF Kinds
    <3> QED BY <1>1, <1>2, <1>3, <2>6, <3>1
  <2> QED BY <1>7, <2>1, <2>2, <2>3, <2>4, <2>5, <2>6 DEF UseMenu
<1>8. ASSUME UseItem PROVE UserStep
  <2>1. PICK n \in listed : \E k \in Range(items[n]) :
          \/ Store(n, k) \/ Ask(Request("del", n, {k}, NoKey))
          \/ \E new \in Keys \ {k} : Ask(Request("rename", n, {k}, new))
    BY <1>8 DEF UseItem
  <2>2. n \in Names /\ Range(items[n]) \subseteq Keys
    <3>1. n \in Names /\ items[n] \in Seq(Keys)
      BY DEF TypeInv
    <3> QED BY <3>1, RangeOfSeq
  <2>3. PICK k \in Keys :
          \/ Store(n, k) \/ Ask(Request("del", n, {k}, NoKey))
          \/ \E new \in Keys \ {k} : Ask(Request("rename", n, {k}, new))
    BY <2>1, <2>2
  <2>4. /\ Request("del", n, {k}, NoKey) \in R
        /\ \A new \in Keys : Request("rename", n, {k}, new) \in R
    BY <1>3, <1>5, <2>2 DEF Kinds
  <2> QED BY <1>1, <1>6, <2>2, <2>3, <2>4
<1>9. ASSUME UseConsole PROVE UserStep
  <2>1. ASSUME NEW k \in Keys, NEW kind \in {"set", "push"}, Ask(Request(kind, Start, {k}, NoKey))
        PROVE  UserStep
    BY <1>1, <1>2, <1>3, <2>1 DEF Kinds
  <2>2. ASSUME NEW ks \in SUBSET Keys, Ask(Request("del", Start, ks, NoKey)) PROVE UserStep
    BY <1>1, <1>2, <1>3, <2>2 DEF Kinds
  <2>3. ASSUME NEW k \in Keys, NEW new \in Keys, Ask(Request("rename", Start, {k}, new))
        PROVE  UserStep
    BY <1>1, <1>2, <1>5, <2>3
  <2>4. ASSUME NEW n \in Names, Ask(Request("select", n, {}, NoKey)) PROVE UserStep
    BY <1>1, <1>3, <2>4 DEF Kinds
  <2>5. ASSUME Ask(Request("flushdb", Start, {}, NoKey)) PROVE UserStep
    BY <1>1, <1>2, <1>3, <2>5 DEF Kinds
  <2> QED BY <1>9, <2>1, <2>2, <2>3, <2>4, <2>5 DEF UseConsole
<1> QED BY <1>7, <1>8, <1>9 DEF User

\* What makes the tree show too much, and what makes it show too little.
Overshown  == {"rename", "flush", "delete", "double", "refused"}
Undershown == {"push", "left"}

\* The driver takes the first request and queues es for the tree.  Its events are
\* about the current database by its label, unless they answer a request about
\* another.  Label and connection stay, or they move (a connect, the console's
\* SELECT), or a set-default is answered.  What becomes of the stored keys is what the
\* events make of the shown ones, up to the slips.
DriverStep(es) ==
  /\ requests # <<>> /\ requests' = Tail(requests) /\ events' = events \o es
  /\ UNCHANGED <<server, asked, held, listed, shared, defaults, items, loaded>>
  /\ stored' \in [Stores -> SUBSET Keys] /\ connected' \in BOOLEAN
  /\ slips \subseteq slips' /\ slips' \subseteq Slips
  /\ \A i \in 1 .. Len(es) :
       /\ es[i].type \notin {"content", "cleared", "default"} => es[i].db = label
       /\ es[i].type = "databases" => /\ es[i].keys \in {Stores, {label}, {}}
                                      /\ es[i].keys \in {Stores, {}} \/ "short" \in slips'
       /\ es[i].type = "databasesFailed" => "load" \in slips'
       /\ es[i].type = "content" /\ es[i].new = 1 =>
            es = <<es[i]>> /\ es[i].keys = stored'[selected]
  /\ \/ /\ label' = label /\ selected' = selected /\ moved' = moved
        /\ \A i \in 1 .. Len(es) : es[i].type # "default"
     \/ /\ label' \in Names /\ selected' \in Stores /\ moved' \in BOOLEAN /\ es = <<>>
        /\ label' \in {label, Start} \/ "select" \in slips'
        /\ label' = selected' \/ "refused" \in slips'
        /\ ~moved' => ~moved /\ selected' = selected /\ label' = selected'
     \/ /\ label' \in listed /\ selected' \in Stores /\ moved' \in BOOLEAN
        /\ label' = selected' \/ "refused" \in slips'
        /\ ~moved' => label' = selected'
        /\ \E e \in TreeEvents(Names, Keys, listed) :
             es = <<e>> /\ e.type = "default" /\ e.db = label'
  /\ slips' \cap Undershown = {} => ShowsAll(Keys, stored[selected], es, stored'[selected])
  /\ slips' \cap Overshown = {} => ShowsOnly(Keys, stored[selected], es, stored'[selected])

\* A step that queues nothing.
LEMMA SilentStep ==
  ASSUME TypeInv, NEW kind, Run(kind, <<>>), stored' \in [Stores -> SUBSET Keys],
         connected' \in BOOLEAN, slips \subseteq slips', slips' \subseteq Slips,
         slips' \cap Undershown = {} => stored'[selected] \subseteq stored[selected],
         slips' \cap Overshown = {} => stored[selected] \subseteq stored'[selected],
         \/ label' = label /\ selected' = selected /\ moved' = moved
         \/ /\ label' \in Names /\ selected' \in Stores /\ moved' \in BOOLEAN
            /\ label' \in {label, Start} \/ "select" \in slips'
            /\ label' = selected' \/ "refused" \in slips'
            /\ ~moved' => ~moved /\ selected' = selected /\ label' = selected'
  PROVE  DriverStep(<<>>)
<1>1. stored[selected] \in SUBSET Keys /\ stored'[selected] \in SUBSET Keys
  BY DEF TypeInv
<1>2. slips' \cap Undershown = {} => ShowsAll(Keys, stored[selected], <<>>, stored'[selected])
  BY <1>1, ShowsAllNone
<1>3. slips' \cap Overshown = {} => ShowsOnly(Keys, stored[selected], <<>>, stored'[selected])
  BY <1>1, ShowsOnlyNone
<1>4. Len(<<>>) = 0 /\ 1 .. 0 = {}
  OBVIOUS
<1>5. /\ requests # <<>> /\ requests' = Tail(requests) /\ events' = events \o <<>>
      /\ UNCHANGED <<server, asked, held, listed, shared, defaults, items, loaded>>
  BY DEF Run, Due, treeVars
<1>6. \/ /\ label' = label /\ selected' = selected /\ moved' = moved
         /\ \A i \in 1 .. Len(<<>>) : <<>>[i].type # "default"
      \/ /\ label' \in Names /\ selected' \in Stores /\ moved' \in BOOLEAN
         /\ label' \in {label, Start} \/ "select" \in slips'
         /\ label' = selected' \/ "refused" \in slips'
         /\ ~moved' => ~moved /\ selected' = selected /\ label' = selected'
  BY <1>4, Zenon
<1> QED BY <1>2, <1>3, <1>4, <1>5, <1>6, Zenon DEF DriverStep

\* A step that queues one event and leaves the selected database.
LEMMA TellingStep ==
  ASSUME TypeInv, NEW kind, NEW e \in TreeEvents(Names, Keys, listed), Run(kind, <<e>>),
         stored' \in [Stores -> SUBSET Keys], connected' \in BOOLEAN,
         slips \subseteq slips', slips' \subseteq Slips,
         slips' \cap Undershown = {} => stored'[selected] \subseteq Kept(stored[selected], e),
         Kept(stored[selected], e) \subseteq stored'[selected],
         label' = label /\ selected' = selected /\ moved' = moved,
         e.type \notin {"content", "cleared", "default"} => e.db = label,
         e.type = "databases" => /\ e.keys \in {Stores, {label}, {}}
                                 /\ e.keys \in {Stores, {}} \/ "short" \in slips',
         e.type = "databasesFailed" => "load" \in slips',
         e.type = "content" /\ e.new = 1 => e.keys = stored'[selected],
         e.type # "default"
  PROVE  DriverStep(<<e>>)
<1>1. stored[selected] \in SUBSET Keys /\ stored'[selected] \in SUBSET Keys
  BY DEF TypeInv
<1>2. /\ slips' \cap Undershown = {} => ShowsAll(Keys, stored[selected], <<e>>, stored'[selected])
      /\ ShowsOnly(Keys, stored[selected], <<e>>, stored'[selected])
  BY <1>1, ShowsAllOne, ShowsOnlyOne
<1> DEFINE es == <<e>>
<1>3. Len(es) = 1 /\ es[1] = e /\ \A i \in 1 .. 1 : i = 1
  OBVIOUS
<1>4. /\ requests # <<>> /\ requests' = Tail(requests) /\ events' = events \o es
      /\ UNCHANGED <<server, asked, held, listed, shared, defaults, items, loaded>>
  BY DEF Run, Due, treeVars
<1>5. \A i \in 1 .. Len(es) :
        /\ es[i].type \notin {"content", "cleared", "default"} => es[i].db = label
        /\ es[i].type = "databases" => /\ es[i].keys \in {Stores, {label}, {}}
                                       /\ es[i].keys \in {Stores, {}} \/ "short" \in slips'
        /\ es[i].type = "databasesFailed" => "load" \in slips'
        /\ es[i].type = "content" /\ es[i].new = 1 =>
             es = <<es[i]>> /\ es[i].keys = stored'[selected]
        /\ es[i].type # "default"
  <2> SUFFICES ASSUME NEW i \in 1 .. Len(es), i = 1
               PROVE  /\ e.type \notin {"content", "cleared", "default"} => e.db = label
                      /\ e.type = "databases" =>
                           /\ e.keys \in {Stores, {label}, {}}
                           /\ e.keys \in {Stores, {}} \/ "short" \in slips'
                      /\ e.type = "databasesFailed" => "load" \in slips'
                      /\ e.type = "content" /\ e.new = 1 => es = <<e>> /\ e.keys = stored'[selected]
                      /\ e.type # "default"
    BY <1>3, Zenon
  <2> QED OBVIOUS
<1> HIDE DEF es
<1>6. /\ slips' \cap Undershown = {} => ShowsAll(Keys, stored[selected], es, stored'[selected])
      /\ ShowsOnly(Keys, stored[selected], es, stored'[selected])
  BY <1>2 DEF es
<1>7. DriverStep(es)
  BY <1>4, <1>5, <1>6, Zenon DEF DriverStep
<1> QED BY <1>7 DEF es

\* Well-formed events of each kind.
LEMMA EventForms ==
  ASSUME TypeInv
  PROVE  LET E == TreeEvents(Names, Keys, listed) IN
         /\ Event("databasesFailed", label, {}, NoKey) \in E
         /\ \A keys \in SUBSET Names : Event("databases", label, keys, NoKey) \in E
         /\ \A n \in listed : \A keys \in SUBSET Keys : \A new \in {0, 1} :
              Event("content", n, keys, new) \in E
         /\ \A n \in listed : /\ Event("cleared", n, {}, NoKey) \in E
                              /\ Event("default", n, {}, NoKey) \in E
         /\ \A keys \in SUBSET Keys : Event("added", label, keys, NoKey) \in E
         /\ \A k \in Keys : Event("removed", label, {k}, NoKey) \in E
         /\ \A k, new \in Keys : Event("renamed", label, {k}, new) \in E
<1>1. label \in Names /\ listed \subseteq Names /\ Keys \subseteq Nat
  BY ServerFacts DEF TypeInv
<1> DEFINE E == TreeEvents(Names, Keys, listed)
<1>2. Event("databasesFailed", label, {}, NoKey) \in E
  BY <1>1 DEF TreeEvents, Event, NoKey, Types
<1>3. \A keys \in SUBSET Names : Event("databases", label, keys, NoKey) \in E
  BY <1>1 DEF TreeEvents, Event, NoKey, Types
<1>4. \A n \in listed : \A keys \in SUBSET Keys : \A new \in {0, 1} :
        Event("content", n, keys, new) \in E
  <2> SUFFICES ASSUME NEW n \in listed, NEW keys \in SUBSET Keys, NEW new \in {0, 1}
               PROVE  Event("content", n, keys, new) \in E
    OBVIOUS
  <2>1. n \in Names /\ keys \in SUBSET (Keys \cup Names) /\ new \in Nat
    BY <1>1
  <2> QED BY <2>1 DEF TreeEvents, Event, Types
<1>5. \A n \in listed : Event("cleared", n, {}, NoKey) \in E /\ Event("default", n, {}, NoKey) \in E
  BY <1>1 DEF TreeEvents, Event, NoKey, Types
<1>6. \A keys \in SUBSET Keys : Event("added", label, keys, NoKey) \in E
  BY <1>1 DEF TreeEvents, Event, NoKey, Types
<1>7. \A k \in Keys : Event("removed", label, {k}, NoKey) \in E
  BY <1>1 DEF TreeEvents, Event, NoKey, Types
<1>8. \A k, new \in Keys : Event("renamed", label, {k}, new) \in E
  BY <1>1 DEF TreeEvents, Event, Types
<1> QED BY <1>2, <1>3, <1>4, <1>5, <1>6, <1>7, <1>8

\* The request at the head of the queue.
LEMMA HeadRequest ==
  ASSUME TypeInv, NEW kind, Due(kind)
  PROVE  /\ Head(requests) \in DriverRequests(Names, Keys, listed)
         /\ Head(requests).kind = kind
         /\ Head(requests).db \in Names /\ Head(requests).keys \subseteq Keys
         /\ kind \in {"loadContent", "clear", "setDefault"} => Head(requests).db \in listed
         /\ kind = "rename" => /\ Head(requests).new \in Keys
                               /\ TheKey \in Keys /\ Head(requests).keys = {TheKey}
<1>1. Head(requests) \in DriverRequests(Names, Keys, listed)
  BY HeadTailProperties DEF TypeInv, Due
<1>2. Head(requests).kind = kind
  BY DEF Due
<1>3. ASSUME kind = "rename"
      PROVE  TheKey \in Keys /\ Head(requests).keys = {TheKey}
  <2>1. \E k \in Keys : Head(requests).keys = {k}
    BY <1>1, <1>2, <1>3 DEF DriverRequests
  <2> QED BY <2>1 DEF TheKey
<1> QED BY <1>1, <1>2, <1>3 DEF DriverRequests

\* Every action of the driver is such a step.
LEMMA DriverSteps ==
  ASSUME TypeInv, Driver
  PROVE  \E es \in Seq(TreeEvents(Names, Keys, listed)) : DriverStep(es)
<1> DEFINE E == TreeEvents(Names, Keys, listed)
           A == stored[selected]
           Goal == \E es \in Seq(E) : DriverStep(es)
<1>1. /\ A \in SUBSET Keys /\ selected \in Stores /\ stored \in [Stores -> SUBSET Keys]
      /\ slips \subseteq Slips /\ IsFiniteSet(Keys) /\ Redis \in BOOLEAN /\ Stores \subseteq Names
      /\ label \in Names /\ connected \in BOOLEAN /\ moved \in BOOLEAN
      /\ Start \in Stores /\ server.first \in Stores
  BY ServerFacts DEF TypeInv
<1>2. ASSUME DriverStep(<<>>) PROVE Goal
  <2>1. <<>> \in Seq(E) OBVIOUS
  <2> QED BY <1>2, <2>1
<1>3. ASSUME NEW e \in E, DriverStep(<<e>>) PROVE Goal
  <2>1. <<e>> \in Seq(E) OBVIOUS
  <2> QED BY <1>3, <2>1
<1>4. ASSUME NEW X \in SUBSET Keys, stored' = [stored EXCEPT ![selected] = X]
      PROVE  stored' \in [Stores -> SUBSET Keys] /\ stored'[selected] = X
  BY <1>1, <1>4
<1>5. ASSUME NEW kind, NEW es, RunOn(kind, es)
       PROVE  Run(kind, es) /\ connected' \in BOOLEAN
  BY <1>1, <1>5 DEF RunOn
<1> HIDE DEF Goal, E
<1>6. ASSUME Fail PROVE Goal
  <2> DEFINE kind == Head(requests).kind
             e == Event("databasesFailed", label, {}, NoKey)
  <2>1. /\ requests # <<>> /\ UNCHANGED <<stored, connected, selected, label, moved>>
        /\ Run(kind, IF kind = "loadDatabases" THEN <<e>> ELSE <<>>)
        /\ slips' = IF kind = "loadDatabases" THEN slips \cup {"load"} ELSE slips
    BY <1>6 DEF Fail, driverVars
  <2> HIDE DEF kind
  <2>2. CASE kind = "loadDatabases"
    <3>1. e \in E BY EventForms DEF E
    <3>2. Run(kind, <<e>>) BY <2>1, <2>2
    <3>3. e.type = "databasesFailed" /\ e.db = label BY DEF Event
    <3>4. slips \subseteq slips' /\ slips' \subseteq Slips /\ "load" \in slips'
      BY <2>1, <2>2, <1>1 DEF Slips
    <3>5. UNCHANGED <<stored, connected, selected, label, moved>> BY <2>1
    <3> HIDE DEF e
    <3>6. Kept(A, e) = A BY <3>3 DEF Kept
    <3>7. DriverStep(<<e>>)
      BY <3>1, <3>2, <3>3, <3>4, <3>5, <3>6, <1>1, TellingStep DEF E
    <3> QED BY <3>1, <3>7, <1>3
  <2>3. CASE kind # "loadDatabases"
    <3>1. Run(kind, <<>>) BY <2>1, <2>3
    <3>2. slips' = slips /\ UNCHANGED <<stored, connected, selected, label, moved>>
      BY <2>1, <2>3
    <3>3. DriverStep(<<>>) BY <3>1, <3>2, <1>1, SilentStep
    <3> QED BY <3>3, <1>2
  <2> QED BY <2>2, <2>3
<1>7. ASSUME LoadDatabases PROVE Goal
  <2>1. PICK dbs \in Found :
          /\ Run("loadDatabases", <<Event("databases", label, dbs, NoKey)>>)
          /\ slips' = IF dbs \in {Stores, {}} THEN slips ELSE slips \cup {"short"}
          /\ UNCHANGED <<stored, connected, selected, label, moved>>
    BY <1>7 DEF LoadDatabases, driverVars
  <2> DEFINE e == Event("databases", label, dbs, NoKey)
  <2>2. dbs \in SUBSET Names /\ dbs \in {Stores, {label}, {}} BY <1>1 DEF Found
  <2>3. e \in E BY <2>2, EventForms DEF E
  <2>4. e.type = "databases" /\ e.db = label /\ e.keys = dbs BY DEF Event
  <2>5. Run("loadDatabases", <<e>>) BY <2>1
  <2> HIDE DEF e
  <2>6. Kept(A, e) = A BY <2>4 DEF Kept
  <2>7. /\ slips \subseteq slips' /\ slips' \subseteq Slips
        /\ e.keys \in {Stores, {}} \/ "short" \in slips'
    BY <2>1, <2>4, <1>1 DEF Slips
  <2>8. DriverStep(<<e>>)
    BY <2>1, <2>2, <2>3, <2>4, <2>5, <2>6, <2>7, <1>1, TellingStep DEF E
  <2> QED BY <2>3, <2>8, <1>3
<1>8. ASSUME LoadContent PROVE Goal
  <2>1. PICK found \in SUBSET A :
          /\ RunOn("loadContent", <<Event("content", Head(requests).db, found,
                                          IF found = A THEN 1 ELSE NoKey)>>)
          /\ UNCHANGED <<stored, selected, label, moved, slips>>
    BY <1>8 DEF LoadContent
  <2> DEFINE new == IF found = A THEN 1 ELSE NoKey
             e == Event("content", Head(requests).db, found, new)
  <2>2. Head(requests).db \in listed
    BY <2>1, HeadRequest DEF Run, RunOn
  <2>3. new \in {0, 1} /\ (new = 1 => found = A)
    BY DEF NoKey
  <2>4. Run("loadContent", <<e>>) /\ connected' \in BOOLEAN BY <2>1, <1>5
  <2> HIDE DEF new
  <2>5. e \in E BY <2>2, <2>3, <1>1, EventForms DEF E
  <2>6. e.type = "content" /\ e.keys = found /\ e.new = new BY DEF Event
  <2> HIDE DEF e
  <2>7. Kept(A, e) = A BY <2>6 DEF Kept
  <2>8. DriverStep(<<e>>)
    BY <2>1, <2>3, <2>4, <2>5, <2>6, <2>7, <1>1, TellingStep DEF E
  <2> QED BY <2>5, <2>8, <1>3
<1>9. ASSUME ClearDatabase PROVE Goal
  <2> DEFINE e == Event("cleared", Head(requests).db, {}, NoKey)
  <2>1. PICK left \in SUBSET A, failed \in BOOLEAN :
          /\ RunOn("clear", IF failed THEN <<>> ELSE <<e>>)
          /\ Leaves(left, failed)
          /\ slips' = slips \cup (IF left = {} THEN {} ELSE IF failed THEN {"flush"} ELSE {"left"})
    BY <1>9 DEF ClearDatabase
  <2>2. /\ stored' \in [Stores -> SUBSET Keys] /\ stored'[selected] = left
        /\ UNCHANGED <<selected, label, moved>> /\ (failed => left # {})
    BY <2>1, <1>1, <1>4 DEF Leaves
  <2>3. slips \subseteq slips' /\ slips' \subseteq Slips BY <2>1, <1>1 DEF Slips
  <2>4. CASE ~failed
    <3>1. RunOn("clear", <<e>>) BY <2>1, <2>4
    <3>2. Run("clear", <<e>>) /\ connected' \in BOOLEAN BY <3>1, <1>5
    <3>3. e \in E BY <3>2, HeadRequest, EventForms DEF E, Run
    <3>4. e.type = "cleared" BY DEF Event
    <3> HIDE DEF e
    <3>5. Kept(A, e) = {} BY <3>4 DEF Kept
    <3>6. slips' \cap Undershown = {} => stored'[selected] \subseteq Kept(A, e)
      BY <2>1, <2>2, <2>4, <3>5 DEF Undershown
    <3>7. DriverStep(<<e>>)
      BY <2>2, <2>3, <3>2, <3>3, <3>4, <3>5, <3>6, <1>1, TellingStep DEF E
    <3> QED BY <3>3, <3>7, <1>3
  <2>5. CASE failed
    <3>1. RunOn("clear", <<>>) BY <2>1, <2>5
    <3>2. Run("clear", <<>>) /\ connected' \in BOOLEAN BY <3>1, <1>5
    <3>3. slips' \cap Overshown # {}
      BY <2>1, <2>2, <2>5 DEF Overshown
    <3>4. DriverStep(<<>>) BY <2>1, <2>2, <2>3, <3>2, <3>3, SilentStep
    <3> QED BY <3>4, <1>2
  <2> QED BY <2>4, <2>5
<1>10. ASSUME Flushdb PROVE Goal
  <2>1. PICK left \in SUBSET A, failed \in BOOLEAN :
          /\ RunOn("flushdb", <<>>)
          /\ Leaves(left, failed)
          /\ slips' = slips \cup {"flush"}
    BY <1>10 DEF Flushdb
  <2>2. /\ stored' \in [Stores -> SUBSET Keys] /\ stored'[selected] = left
        /\ UNCHANGED <<selected, label, moved>>
    BY <2>1, <1>1, <1>4 DEF Leaves
  <2>3. slips' \cap Overshown # {} /\ slips \subseteq slips' /\ slips' \subseteq Slips
    BY <2>1, <1>1 DEF Slips, Overshown
  <2>4. Run("flushdb", <<>>) /\ connected' \in BOOLEAN BY <2>1, <1>5
  <2>5. DriverStep(<<>>) BY <2>1, <2>2, <2>3, <2>4, SilentStep
  <2> QED BY <2>5, <1>2
<1>11. ASSUME SetDefaultDatabase PROVE Goal
  <2> DEFINE db == Head(requests).db
             e == Event("default", db, {}, NoKey)
  <2>1. /\ RunOn("setDefault", <<e>>) /\ label' = db /\ stored' = stored
        /\ selected' \in (Stores \cap {db}) \cup (IF Redis THEN {selected} ELSE {})
        /\ moved' = (Unsaid # {}) /\ slips' = slips \cup Unsaid
    BY <1>11 DEF SetDefaultDatabase, SelectTo
  <2>2. Run("setDefault", <<e>>) /\ connected' \in BOOLEAN BY <2>1, <1>5
  <2>3. db \in listed BY <2>2, HeadRequest DEF Run
  <2> HIDE DEF db
  <2>4. e \in E BY <2>3, EventForms DEF E
  <2>5. e.type = "default" /\ e.db = db BY DEF Event
  <2> HIDE DEF e
  <2>6. Kept(A, e) = A BY <2>5 DEF Kept
  <2>7. /\ ShowsAll(Keys, A, <<e>>, A) /\ ShowsOnly(Keys, A, <<e>>, A)
    BY <2>6, <1>1, ShowsAllOne, ShowsOnlyOne
  <2>8. /\ selected' \in Stores /\ moved' \in BOOLEAN
        /\ slips \subseteq slips' /\ slips' \subseteq Slips
        /\ label' = selected' \/ "refused" \in slips'
        /\ ~moved' => label' = selected'
    BY <2>1, <1>1 DEF Unsaid, Slips
  <2> DEFINE es == <<e>>
  <2>9. Len(es) = 1 /\ es[1] = e /\ \A i \in 1 .. 1 : i = 1
    OBVIOUS
  <2>10. /\ requests # <<>> /\ requests' = Tail(requests) /\ events' = events \o es
         /\ UNCHANGED <<server, asked, held, listed, shared, defaults, items, loaded>>
    BY <2>2 DEF Run, Due, treeVars
  <2>11. \E d \in E : es = <<d>> /\ d.type = "default" /\ d.db = label'
    BY <2>1, <2>4, <2>5
  <2>12. ShowsAll(Keys, A, es, A) /\ ShowsOnly(Keys, A, es, A)
    BY <2>7
  <2> HIDE DEF es
  <2>13. \A i \in 1 .. Len(es) : es[i].type = "default"
    BY <2>5, <2>9
  <2>14. label' \in listed /\ stored' = stored BY <2>1, <2>3
  <2>15. DriverStep(es)
    BY <2>2, <2>8, <2>10, <2>11, <2>12, <2>13, <2>14, <1>1 DEF DriverStep, E
  <2> QED BY <2>4, <2>15, <1>3 DEF es
<1>12. ASSUME Select PROVE Goal
  <2> DEFINE db == Head(requests).db
  <2>1. /\ RunOn("select", <<>>) /\ label' = db /\ stored' = stored
        /\ selected' \in (Stores \cap {db}) \cup (IF Redis THEN {selected} ELSE {})
        /\ moved' = TRUE /\ slips' = slips \cup {"select"} \cup Unsaid
    BY <1>12 DEF Select, SelectTo
  <2>2. Run("select", <<>>) /\ connected' \in BOOLEAN BY <2>1, <1>5
  <2>3. db \in Names BY <2>2, HeadRequest DEF Run
  <2> HIDE DEF db
  <2>4. /\ slips \subseteq slips' /\ slips' \subseteq Slips /\ "select" \in slips'
        /\ selected' \in Stores /\ (label' = selected' \/ "refused" \in slips')
    BY <2>1, <1>1 DEF Unsaid, Slips
  <2>5. DriverStep(<<>>) BY <2>1, <2>2, <2>3, <2>4, <1>1, SilentStep
  <2> QED BY <2>5, <1>2
<1>13. ASSUME Set PROVE Goal
  <2> DEFINE keys == Head(requests).keys
             e == Event("added", label, keys, NoKey)
  <2>1. /\ Run("set", <<e>>) /\ stored' = [stored EXCEPT ![selected] = A \cup keys]
        /\ connected' \in BOOLEAN /\ UNCHANGED <<selected, label, moved, slips>>
    BY <1>13, <1>5 DEF Set
  <2>2. keys \subseteq Keys BY <2>1, HeadRequest DEF Run
  <2> HIDE DEF keys
  <2>3. stored' \in [Stores -> SUBSET Keys] /\ stored'[selected] = A \cup keys
    BY <2>1, <2>2, <1>1, <1>4
  <2>4. e \in E BY <2>2, EventForms DEF E
  <2>5. e.type = "added" /\ e.db = label /\ e.keys = keys BY DEF Event
  <2> HIDE DEF e
  <2>6. Kept(A, e) = A \cup keys BY <2>5 DEF Kept
  <2>7. DriverStep(<<e>>)
    BY <2>1, <2>3, <2>4, <2>5, <2>6, <1>1, TellingStep DEF E
  <2> QED BY <2>4, <2>7, <1>3
<1>14. ASSUME Delete PROVE Goal
  <2> DEFINE keys == Head(requests).keys
  <2>1. Due("del") /\ keys \subseteq Keys BY <1>14, HeadRequest DEF Delete
  <2>2. PICK tried \in SUBSET keys :
          LET gone == Reported(tried, A)
              lost == Redis /\ tried # keys
          IN /\ RunOn("del", IF lost THEN <<>> ELSE Removals(gone))
             /\ stored' = [stored EXCEPT ![selected] = A \ tried]
             /\ slips' = IF lost /\ gone # {} THEN slips \cup {"delete"} ELSE slips
             /\ UNCHANGED <<selected, label, moved>>
    BY <1>14 DEF Delete
  <2> DEFINE gone == Reported(tried, A)
             lost == Redis /\ tried # keys
             es == Removals(gone)
  <2>3. gone \in SUBSET Keys /\ gone \subseteq tried /\ tried \cap A \subseteq gone
    BY <2>1 DEF Reported
  <2>4. IsFiniteSet(gone) BY <2>3, <1>1, FS_Subset
  <2>5. stored' \in [Stores -> SUBSET Keys] /\ stored'[selected] = A \ tried
    BY <2>2, <1>1, <1>4
  <2>6. slips \subseteq slips' /\ slips' \subseteq Slips BY <2>2, <1>1 DEF Slips
  <2>7. CASE lost
    <3>1. Run("del", <<>>) /\ connected' \in BOOLEAN BY <2>2, <2>7, <1>5
    <3>2. slips' \cap Overshown = {} => A \ tried = A BY <2>2, <2>3, <2>7 DEF Overshown
    <3>3. DriverStep(<<>>) BY <2>2, <2>5, <2>6, <3>1, <3>2, SilentStep
    <3> QED BY <3>3, <1>2
  <2>8. CASE ~lost
    <3>1. Run("del", es) /\ slips' = slips /\ connected' \in BOOLEAN BY <2>2, <2>8, <1>5
    <3> HIDE DEF gone, lost
    <3>2. /\ ShowsAll(Keys, A, es, stored'[selected])
          /\ ShowsOnly(Keys, A, es, stored'[selected])
      BY <2>3, <2>4, <2>5, <1>1, RemovalsShow
    <3>3. /\ Cardinality(gone) \in Nat /\ DOMAIN SetToSeq(gone) = 1 .. Cardinality(gone)
          /\ \A i \in 1 .. Cardinality(gone) : SetToSeq(gone)[i] \in Keys
      BY <2>3, <2>4, SetToSeqLists, LenProperties, SeqMonotonic
    <3> DEFINE n == Cardinality(gone)
               ev(i) == Event("removed", label, {SetToSeq(gone)[i]}, NoKey)
    <3>4. \A i \in 1 .. n : ev(i) \in E
      BY <3>3, EventForms DEF E
    <3>5. \A i \in 1 .. n : ev(i).type = "removed" /\ ev(i).db = label
      BY DEF Event
    <3>6. es = [i \in 1 .. n |-> ev(i)] /\ n \in Nat
      BY <3>3 DEF Removals
    <3> HIDE DEF n, ev, es
    <3>7. /\ es \in Seq(E) /\ Len(es) = n
          /\ \A i \in 1 .. Len(es) : es[i].type = "removed" /\ es[i].db = label
      BY <3>4, <3>5, <3>6
    <3>8. /\ requests # <<>> /\ requests' = Tail(requests) /\ events' = events \o es
          /\ UNCHANGED <<server, asked, held, listed, shared, defaults, items, loaded>>
      BY <3>1 DEF Run, Due, treeVars
    <3>9. DriverStep(es)
      BY <2>2, <2>5, <2>6, <3>1, <3>2, <3>7, <3>8 DEF DriverStep
    <3> QED BY <3>7, <3>9 DEF Goal
  <2> QED BY <2>7, <2>8
<1>15. ASSUME Rename PROVE Goal
  <2> DEFINE k == TheKey
             new == Head(requests).new
             e == Event("renamed", label, {k}, new)
  <2>1. Due("rename") /\ k \in A /\ k \in Keys /\ new \in Keys
    BY <1>15, HeadRequest DEF Rename
  <2>2. PICK finished \in BOOLEAN :
          /\ RunOn("rename", IF finished THEN <<e>> ELSE <<>>)
          /\ stored' = [stored EXCEPT ![selected] = (A \ {k}) \cup (IF finished THEN {new} ELSE {})]
          /\ slips' = IF finished THEN slips ELSE slips \cup {"rename"}
          /\ UNCHANGED <<selected, label, moved>>
    BY <1>15 DEF Rename
  <2> HIDE DEF k, new
  <2>3. CASE finished
    <3>1. /\ Run("rename", <<e>>) /\ slips' = slips /\ UNCHANGED <<selected, label, moved>>
          /\ connected' \in BOOLEAN
      BY <2>2, <2>3, <1>5
    <3>2. stored' \in [Stores -> SUBSET Keys] /\ stored'[selected] = (A \ {k}) \cup {new}
      BY <2>1, <2>2, <2>3, <1>1, <1>4
    <3>3. e \in E BY <2>1, EventForms DEF E
    <3>4. e.type = "renamed" /\ e.db = label /\ e.keys = {k} /\ e.new = new BY DEF Event
    <3> HIDE DEF e
    <3>5. Kept(A, e) = (A \ {k}) \cup {new} BY <2>1, <3>4 DEF Kept
    <3>6. DriverStep(<<e>>)
      BY <3>1, <3>2, <3>3, <3>4, <3>5, <1>1, TellingStep DEF E
    <3> QED BY <3>3, <3>6, <1>3
  <2>4. CASE ~finished
    <3>1. /\ Run("rename", <<>>) /\ UNCHANGED <<selected, label, moved>>
          /\ connected' \in BOOLEAN
      BY <2>2, <2>4, <1>5
    <3>2. stored' \in [Stores -> SUBSET Keys] /\ stored'[selected] = A \ {k}
      BY <2>1, <2>2, <2>4, <1>1, <1>4
    <3>3. slips \subseteq slips' /\ slips' \subseteq Slips /\ slips' \cap Overshown # {}
      BY <2>2, <2>4, <1>1 DEF Slips, Overshown
    <3>4. DriverStep(<<>>) BY <3>1, <3>2, <3>3, SilentStep
    <3> QED BY <3>4, <1>2
  <2> QED BY <2>3, <2>4
<1>16. ASSUME Push PROVE Goal
  <2> DEFINE keys == Head(requests).keys
  <2>1. /\ Run("push", <<>>) /\ stored' = [stored EXCEPT ![selected] = A \cup keys]
        /\ slips' = IF keys \subseteq A THEN slips ELSE slips \cup {"push"}
        /\ connected' \in BOOLEAN /\ UNCHANGED <<selected, label, moved>>
    BY <1>5, <1>16 DEF Push
  <2>2. keys \subseteq Keys BY <2>1, HeadRequest DEF Run
  <2> HIDE DEF keys
  <2>3. stored' \in [Stores -> SUBSET Keys] /\ stored'[selected] = A \cup keys
    BY <2>1, <2>2, <1>1, <1>4
  <2>4. /\ slips \subseteq slips' /\ slips' \subseteq Slips
        /\ slips' \cap Undershown = {} => A \cup keys = A
    BY <2>1, <1>1 DEF Slips, Undershown
  <2>5. DriverStep(<<>>) BY <2>1, <2>3, <2>4, SilentStep
  <2> QED BY <2>5, <1>2
<1>17. ASSUME Disconnect PROVE Goal
  <2>1. /\ Run("disconnect", <<>>) /\ connected' \in BOOLEAN
        /\ UNCHANGED <<stored, selected, label, moved, slips>>
    BY <1>17 DEF Disconnect
  <2>2. DriverStep(<<>>) BY <2>1, <1>1, SilentStep
  <2> QED BY <2>2, <1>2
<1>18. ASSUME Connect PROVE Goal
  <2>1. Run("connect", <<>>) /\ connected' \in BOOLEAN /\ stored' = stored
    BY <1>18 DEF Connect
  <2>2. \/ UNCHANGED <<selected, label, moved, slips>>
        \/ /\ \/ selected' = Start /\ label' = Start
              \/ selected' = server.first /\ label' \in {Start, label}
           /\ moved' = (moved \/ ~(selected = Start /\ selected' = Start /\ label' = Start))
           /\ slips' = slips \cup Unsaid
    BY <1>18 DEF Connect
  <2>3. CASE UNCHANGED <<selected, label, moved, slips>>
    <3>1. DriverStep(<<>>) BY <2>1, <2>3, <1>1, SilentStep
    <3> QED BY <3>1, <1>2
  <2>4. CASE ~UNCHANGED <<selected, label, moved, slips>>
    <3>1. /\ selected' \in Stores /\ label' \in Names /\ moved' \in BOOLEAN
          /\ slips \subseteq slips' /\ slips' \subseteq Slips
          /\ label' \in {label, Start} /\ (label' = selected' \/ "refused" \in slips')
          /\ ~moved' => ~moved /\ selected' = selected /\ label' = selected'
      BY <2>2, <2>4, <1>1 DEF Unsaid, Slips
    <3>2. DriverStep(<<>>) BY <2>1, <3>1, <1>1, SilentStep
    <3> QED BY <3>2, <1>2
  <2> QED BY <2>3, <2>4
<1> QED
  BY <1>6, <1>7, <1>8, <1>9, <1>10, <1>11, <1>12, <1>13, <1>14, <1>15, <1>16, <1>17, <1>18
  DEF Driver, Goal, E

\* The event at the head of the queue.
LEMMA HeadEvent ==
  ASSUME TypeInv, NEW type, Handle(type)
  PROVE  /\ events # <<>> /\ events' = Tail(events)
         /\ events' \in Seq(TreeEvents(Names, Keys, listed))
         /\ Head(events) \in TreeEvents(Names, Keys, listed) /\ Head(events).type = type
         /\ UNCHANGED <<server, requests, asked, stored, connected, selected, label, moved>>
BY HeadTailProperties DEF TypeInv, Handle, driverVars

\* The tree changes the items under the database d that the event names, if it is
\* listed, to s, as the event says: what it keeps stays shown, and unless the same
\* key is shown twice nothing else is.
ItemsBecome(e, d, s) ==
  /\ s \in Seq(Keys)
  /\ Kept(Range(items[d]), e) \subseteq Range(s)
  /\ IsInjective(items[d]) /\ slips' \cap Overshown = {} =>
       IsInjective(s) /\ Range(s) \subseteq Kept(Range(items[d]), e)

ItemTypes == {"content", "cleared", "added", "removed", "renamed"}

ItemStep(e) ==
  /\ events # <<>> /\ e = Head(events) /\ e.type \in ItemTypes /\ events' = Tail(events)
  /\ UNCHANGED <<server, requests, asked, stored, connected, selected, label, held, listed, shared,
                 defaults, moved>>
  /\ slips \subseteq slips' /\ slips' \subseteq slips \cup {"double"}
  /\ loaded' = IF e.type = "content" /\ e.new = 1 THEN loaded \cup {e.db} ELSE loaded
  /\ \/ /\ e.db \in listed
        /\ \E s : ItemsBecome(e, e.db, s) /\ items' = [items EXCEPT ![e.db] = s]
     \/ e.db \notin listed /\ e.type \notin {"content", "cleared"} /\ items' = items

\* Every action of the tree about keys is such a step.
LEMMA ItemSteps ==
  ASSUME TypeInv, FinishLoadContent \/ FinishClear \/ AddKey \/ RemoveKey \/ UpdateKey
  PROVE  ItemStep(Head(events))
<1> DEFINE e == Head(events)
           d == e.db
           shown == items[d]
           E == TreeEvents(Names, Keys, listed)
<1>1. IsFiniteSet(Keys) /\ listed \subseteq Names /\ items \in [Names -> Seq(Keys)]
  BY ServerFacts DEF TypeInv
<1>2. ASSUME e \in E PROVE d \in Names /\ shown \in Seq(Keys)
  BY <1>1, <1>2 DEF TreeEvents
<1>3. ASSUME NEW s, s = shown PROVE [items EXCEPT ![d] = s] = items
  BY <1>1, <1>3
<1>4. ASSUME NEW type, Handle(type), UNCHANGED <<held, listed, shared, defaults>>
      PROVE  /\ events # <<>> /\ events' = Tail(events) /\ e \in E /\ e.type = type
             /\ UNCHANGED <<server, requests, asked, stored, connected, selected, label, held,
                            listed, shared, defaults, moved>>
  BY <1>4, HeadEvent
<1> HIDE DEF shown, d, e
<1>5. ASSUME FinishLoadContent PROVE ItemStep(e)
  <2>1. /\ Handle("content") /\ UNCHANGED <<held, listed, shared, defaults>> /\ slips' = slips
        /\ items' = [items EXCEPT ![d] = WithKeys(@, e.keys)]
        /\ loaded' = IF e.new = 1 THEN loaded \cup {d} ELSE loaded
    BY <1>5 DEF FinishLoadContent, d, e
  <2>2. e \in E /\ e.type = "content" BY <1>4, <2>1
  <2>3. d \in listed /\ e.keys \in SUBSET Keys BY <2>2 DEF TreeEvents, d
  <2> DEFINE s == WithKeys(shown, e.keys)
  <2>4. shown \in Seq(Keys) BY <1>2, <2>2
  <2>5. items' = [items EXCEPT ![d] = s] BY <2>1 DEF shown
  <2>6. s \in Seq(Keys) /\ Range(s) = Range(shown) \cup e.keys /\ (IsInjective(shown) => IsInjective(s))
    BY <2>3, <2>4, <1>1, WithKeysShows
  <2>7. Kept(Range(shown), e) = Range(shown) \cup e.keys BY <2>2 DEF Kept
  <2> HIDE DEF s
  <2>8. ItemsBecome(e, d, s) BY <2>6, <2>7 DEF ItemsBecome, shown
  <2>9. e.type \in ItemTypes BY <2>2 DEF ItemTypes
  <2> QED BY <1>4, <2>1, <2>2, <2>3, <2>5, <2>8, <2>9 DEF ItemStep, e, d
<1>6. ASSUME FinishClear PROVE ItemStep(e)
  <2>1. /\ Handle("cleared") /\ UNCHANGED <<held, listed, shared, defaults>> /\ slips' = slips
        /\ items' = [items EXCEPT ![d] = <<>>] /\ loaded' = loaded
    BY <1>6 DEF FinishClear, d, e
  <2>2. e \in E /\ e.type = "cleared" BY <1>4, <2>1
  <2>3. d \in listed BY <2>2 DEF TreeEvents, d
  <2>4. Kept(Range(shown), e) = {} BY <2>2 DEF Kept
  <2>5. <<>> \in Seq(Keys) /\ Range(<<>>) = {} /\ IsInjective(<<>>)
    BY DEF Range, IsInjective
  <2>6. ItemsBecome(e, d, <<>>) BY <2>4, <2>5 DEF ItemsBecome, shown
  <2>7. e.type \in ItemTypes BY <2>2 DEF ItemTypes
  <2> QED BY <1>4, <2>1, <2>2, <2>3, <2>6, <2>7 DEF ItemStep, e, d
<1>7. ASSUME AddKey PROVE ItemStep(e)
  <2>1. /\ Handle("added") /\ UNCHANGED <<held, listed, shared, defaults>> /\ slips' = slips
        /\ items' = IF d \in listed THEN [items EXCEPT ![d] = WithKeys(@, e.keys)] ELSE items
        /\ loaded' = loaded
    BY <1>7 DEF AddKey, d, e
  <2>2. e \in E /\ e.type = "added" BY <1>4, <2>1
  <2>3. e.keys \in SUBSET Keys BY <2>2 DEF TreeEvents
  <2> DEFINE s == WithKeys(shown, e.keys)
  <2>4. shown \in Seq(Keys) BY <1>2, <2>2
  <2>5. d \in listed => items' = [items EXCEPT ![d] = s] BY <2>1 DEF shown
  <2>6. s \in Seq(Keys) /\ Range(s) = Range(shown) \cup e.keys /\ (IsInjective(shown) => IsInjective(s))
    BY <2>3, <2>4, <1>1, WithKeysShows
  <2>7. Kept(Range(shown), e) = Range(shown) \cup e.keys BY <2>2 DEF Kept
  <2> HIDE DEF s
  <2>8. ItemsBecome(e, d, s) BY <2>6, <2>7 DEF ItemsBecome, shown
  <2>9. e.type \in ItemTypes BY <2>2 DEF ItemTypes
  <2>10. CASE d \in listed
    BY <1>4, <2>1, <2>2, <2>5, <2>8, <2>9, <2>10 DEF ItemStep, e, d
  <2>11. CASE d \notin listed
    BY <1>4, <2>1, <2>2, <2>9, <2>11 DEF ItemStep, e, d
  <2> QED BY <2>10, <2>11
<1>8. ASSUME RemoveKey PROVE ItemStep(e)
  <2>1. /\ Handle("removed") /\ UNCHANGED <<held, listed, shared, defaults>> /\ slips' = slips
        /\ items' = IF d \in listed /\ Range(shown) \cap e.keys # {}
                    THEN [items EXCEPT ![d] = RemoveAt(@, Find(@, e.keys))] ELSE items
        /\ loaded' = loaded
    BY <1>8 DEF RemoveKey, d, e, shown
  <2>2. e \in E /\ e.type = "removed" BY <1>4, <2>1
  <2>3. PICK k \in Keys : e.keys = {k} BY <2>2 DEF TreeEvents
  <2>4. shown \in Seq(Keys) BY <1>2, <2>2
  <2>5. Kept(Range(shown), e) = Range(shown) \ {k} BY <2>2, <2>3 DEF Kept
  <2>6. e.type \in ItemTypes BY <2>2 DEF ItemTypes
  <2>7. CASE d \in listed /\ k \in Range(shown)
    <3> DEFINE s == RemoveAt(shown, Find(shown, e.keys))
    <3>1. items' = [items EXCEPT ![d] = s] BY <2>1, <2>3, <2>7 DEF shown
    <3>2. Find(shown, e.keys) \in 1 .. Len(shown) /\ shown[Find(shown, e.keys)] = k
      BY <2>3, <2>4, <2>7, FindFinds
    <3>3. /\ s \in Seq(Keys) /\ Range(shown) \ {k} \subseteq Range(s)
          /\ IsInjective(shown) => IsInjective(s) /\ Range(s) \subseteq Range(shown) \ {k}
      BY <2>4, <3>2, RemoveAtRemoves
    <3> HIDE DEF s
    <3>4. ItemsBecome(e, d, s) BY <2>5, <3>3 DEF ItemsBecome, shown
    <3> QED BY <1>4, <2>1, <2>2, <2>6, <2>7, <3>1, <3>4 DEF ItemStep, e, d
  <2>8. CASE d \in listed /\ k \notin Range(shown)
    <3>1. items' = items BY <2>1, <2>3, <2>8
    <3>2. items' = [items EXCEPT ![d] = shown] BY <3>1, <1>3
    <3>3. Range(shown) \ {k} = Range(shown) BY <2>8
    <3>4. ItemsBecome(e, d, shown) BY <2>4, <2>5, <3>3 DEF ItemsBecome, shown
    <3> QED BY <1>4, <2>1, <2>2, <2>6, <2>8, <3>2, <3>4 DEF ItemStep, e, d
  <2>9. CASE d \notin listed
    BY <1>4, <2>1, <2>2, <2>6, <2>9 DEF ItemStep, e, d
  <2> QED BY <2>7, <2>8, <2>9
<1>9. ASSUME UpdateKey PROVE ItemStep(e)
  <2>1. /\ Handle("renamed") /\ UNCHANGED <<held, listed, shared, defaults>> /\ loaded' = loaded
        /\ IF d \in listed /\ Range(shown) \cap e.keys # {}
           THEN /\ items' = [items EXCEPT ![d] = Renamed(@, e.keys, e.new)]
                /\ slips' = IF e.new \in Range(shown) THEN slips \cup {"double"} ELSE slips
           ELSE items' = items /\ slips' = slips
    BY <1>9 DEF UpdateKey, d, e, shown
  <2>2. e \in E /\ e.type = "renamed" BY <1>4, <2>1
  <2>3. PICK k \in Keys : e.keys = {k} BY <2>2 DEF TreeEvents
  <2>4. shown \in Seq(Keys) /\ e.new \in Keys BY <1>2, <2>2 DEF TreeEvents
  <2>5. /\ k \in Range(shown) => Kept(Range(shown), e) = (Range(shown) \ {k}) \cup {e.new}
        /\ k \notin Range(shown) => Kept(Range(shown), e) = Range(shown)
    BY <2>2, <2>3 DEF Kept
  <2>6. e.type \in ItemTypes BY <2>2 DEF ItemTypes
  <2>7. CASE d \in listed /\ k \in Range(shown)
    <3> DEFINE s == Renamed(shown, {k}, e.new)
    <3>1. items' = [items EXCEPT ![d] = s] BY <2>1, <2>3, <2>7 DEF shown
    <3>2. slips' = IF e.new \in Range(shown) THEN slips \cup {"double"} ELSE slips
      BY <2>1, <2>3, <2>7
    <3>3. /\ s \in Seq(Keys) /\ (Range(shown) \ {k}) \cup {e.new} \subseteq Range(s)
          /\ IsInjective(shown) /\ e.new \notin Range(shown) =>
               IsInjective(s) /\ Range(s) \subseteq (Range(shown) \ {k}) \cup {e.new}
      <4> DEFINE new == e.new
      <4>1. shown \in Seq(Keys) /\ k \in Keys /\ k \in Range(shown) /\ new \in Keys
        BY <2>4, <2>7
      <4> HIDE DEF new
      <4>2. LET t == Renamed(shown, {k}, new) IN
            /\ t \in Seq(Keys) /\ (Range(shown) \ {k}) \cup {new} \subseteq Range(t)
            /\ IsInjective(shown) /\ new \notin Range(shown) =>
                 IsInjective(t) /\ Range(t) \subseteq (Range(shown) \ {k}) \cup {new}
        BY <4>1, RenamedRenames
      <4> QED BY <4>2 DEF new
    <3> HIDE DEF s
    <3>4. ItemsBecome(e, d, s) BY <2>5, <2>7, <3>2, <3>3 DEF ItemsBecome, shown, Overshown
    <3> QED BY <1>4, <2>1, <2>2, <2>6, <2>7, <3>1, <3>2, <3>4 DEF ItemStep, e, d
  <2>8. CASE d \in listed /\ k \notin Range(shown)
    <3>1. items' = items /\ slips' = slips BY <2>1, <2>3, <2>8
    <3>2. items' = [items EXCEPT ![d] = shown] BY <3>1, <1>3
    <3>3. ItemsBecome(e, d, shown) BY <2>4, <2>5, <2>8 DEF ItemsBecome, shown
    <3> QED BY <1>4, <2>1, <2>2, <2>6, <2>8, <3>1, <3>2, <3>3 DEF ItemStep, e, d
  <2>9. CASE d \notin listed
    BY <1>4, <2>1, <2>2, <2>6, <2>9 DEF ItemStep, e, d
  <2> QED BY <2>7, <2>8, <2>9
<1> QED BY <1>5, <1>6, <1>7, <1>8, <1>9 DEF e

-----------------------------------------------------------------------------
(* Types. *)

\* What is well formed stays so when more databases are listed.
LEMMA FormedGrows ==
  ASSUME NEW N, NEW K, NEW L, NEW M, L \subseteq M
  PROVE  /\ DriverRequests(N, K, L) \subseteq DriverRequests(N, K, M)
         /\ TreeEvents(N, K, L) \subseteq TreeEvents(N, K, M)
BY DEF DriverRequests, TreeEvents

\* The names of a server stay as they are.
LEMMA SameServer ==
  ASSUME server' = server
  PROVE  Names' = Names /\ Stores' = Stores /\ Keys' = Keys /\ Redis' = Redis
BY DEF Names, Stores, Keys, Redis

\* The three steps of the tree that are about databases.
ListStep ==
  /\ events # <<>> /\ events' = Tail(events)
  /\ UNCHANGED <<server, requests, asked, stored, connected, selected, label, items, loaded,
                 moved, slips>>
  /\ LET e == Head(events) IN
     \/ /\ e.type = "databases"
        /\ held' = held \cup e.keys /\ listed' = listed \cup e.keys
        /\ shared' = shared \cup ((e.keys \ held) \ listed)
        /\ defaults' = defaults \cup ((e.keys \ listed) \cap {e.db})
     \/ /\ e.type = "databasesFailed"
        /\ held' = {} /\ shared' = {} /\ UNCHANGED <<listed, defaults>>
     \/ /\ e.type = "default"
        /\ defaults' = (defaults \ shared) \cup {e.db} /\ UNCHANGED <<held, listed, shared>>

\* Every step is one of these four.
LEMMA Steps ==
  ASSUME TypeInv, Next
  PROVE  \/ UserStep
         \/ \E es \in Seq(TreeEvents(Names, Keys, listed)) : DriverStep(es)
         \/ ItemStep(Head(events))
         \/ ListStep
<1>1. ASSUME FinishLoadDatabases \/ FailLoadDatabases \/ FinishSetDefault PROVE ListStep
  BY <1>1 DEF FinishLoadDatabases, FailLoadDatabases, FinishSetDefault, Marked, Unset, Handle,
              driverVars, ListStep
<1> QED BY <1>1, UserSteps, DriverSteps, ItemSteps DEF Next, Tree

\* Every step keeps types and forms.
LEMMA TypeStep ==
  ASSUME TypeInv, [Next]_vars
  PROVE  TypeInv'
<1>1. CASE UNCHANGED vars
  <2>1. server' = server /\ UNCHANGED <<requests, events, asked, stored, connected, selected,
                                        label, held, listed, shared, defaults, items, loaded,
                                        moved, slips>>
    BY <1>1 DEF vars, driverVars, treeVars
  <2>2. Names' = Names /\ Stores' = Stores /\ Keys' = Keys BY <2>1, SameServer
  <2> QED BY <2>1, <2>2 DEF TypeInv
<1>2. CASE UserStep
  <2>1. Names' = Names /\ Stores' = Stores /\ Keys' = Keys BY <1>2, SameServer DEF UserStep
  <2>2. requests' \in Seq(DriverRequests(Names, Keys, listed))
    BY <1>2, AppendProperties DEF UserStep, TypeInv
  <2> QED BY <1>2, <2>1, <2>2 DEF TypeInv, UserStep
<1>3. ASSUME NEW es \in Seq(TreeEvents(Names, Keys, listed)), DriverStep(es) PROVE TypeInv'
  <2>1. Names' = Names /\ Stores' = Stores /\ Keys' = Keys BY <1>3, SameServer DEF DriverStep
  <2>2. requests' \in Seq(DriverRequests(Names, Keys, listed))
    BY <1>3, HeadTailProperties DEF DriverStep, TypeInv
  <2>3. events' \in Seq(TreeEvents(Names, Keys, listed))
    BY <1>3, ConcatProperties DEF DriverStep, TypeInv
  <2>4. selected' \in Stores /\ label' \in Names /\ moved' \in BOOLEAN
    <3>1. /\ label \in Names /\ selected \in Stores /\ listed \subseteq Names
          /\ moved \in BOOLEAN
      BY DEF TypeInv
    <3>2. \/ label' = label /\ selected' = selected /\ moved' = moved
          \/ label' \in Names /\ selected' \in Stores /\ moved' \in BOOLEAN
          \/ label' \in listed /\ selected' \in Stores /\ moved' \in BOOLEAN
      BY <1>3 DEF DriverStep
    <3> QED BY <3>1, <3>2
  <2>5. /\ UNCHANGED <<server, asked, held, listed, shared, defaults, items, loaded>>
        /\ stored' \in [Stores -> SUBSET Keys] /\ connected' \in BOOLEAN /\ slips' \subseteq Slips
    BY <1>3 DEF DriverStep
  <2> QED BY <2>1, <2>2, <2>3, <2>4, <2>5 DEF TypeInv
<1>4. CASE ItemStep(Head(events))
  <2> DEFINE e == Head(events)
  <2>1. Names' = Names /\ Stores' = Stores /\ Keys' = Keys BY <1>4, SameServer DEF ItemStep
  <2>2. e \in TreeEvents(Names, Keys, listed) /\ events' \in Seq(TreeEvents(Names, Keys, listed))
    BY <1>4, HeadTailProperties DEF ItemStep, TypeInv
  <2>3. /\ UNCHANGED <<server, requests, asked, stored, connected, selected, label, held, listed, shared,
                 defaults, moved>>
        /\ slips' \subseteq Slips
    BY <1>4 DEF ItemStep, TypeInv, Slips
  <2>4. loaded' \subseteq listed
    <3>1. e.type = "content" => e.db \in listed BY <2>2 DEF TreeEvents
    <3> QED BY <1>4, <3>1 DEF ItemStep, TypeInv
  <2>5. items' \in [Names -> Seq(Keys)] /\ \A n \in Names \ listed : items'[n] = <<>>
    <3>1. /\ items \in [Names -> Seq(Keys)] /\ listed \subseteq Names
          /\ \A n \in Names \ listed : items[n] = <<>>
      BY DEF TypeInv
    <3>2. \/ items' = items
          \/ e.db \in listed /\ \E s \in Seq(Keys) : items' = [items EXCEPT ![e.db] = s]
      BY <1>4 DEF ItemStep, ItemsBecome
    <3> QED BY <3>1, <3>2
  <2> QED BY <2>1, <2>2, <2>3, <2>4, <2>5 DEF TypeInv
<1>5. CASE ListStep
  <2> DEFINE e == Head(events)
  <2>1. Names' = Names /\ Stores' = Stores /\ Keys' = Keys BY <1>5, SameServer DEF ListStep
  <2>2. e \in TreeEvents(Names, Keys, listed) /\ events' \in Seq(TreeEvents(Names, Keys, listed))
    BY <1>5, HeadTailProperties DEF ListStep, TypeInv
  <2>3. UNCHANGED <<server, requests, asked, stored, connected, selected, label, items, loaded,
                 moved, slips>>
    BY <1>5 DEF ListStep
  <2>4. /\ held' \subseteq Names /\ listed' \subseteq Names /\ listed \subseteq listed'
        /\ shared' \subseteq listed' /\ defaults' \subseteq listed'
    <3>1. /\ e.type = "databases" => e.keys \subseteq Names
          /\ e.type = "default" => e.db \in listed
      BY <2>2 DEF TreeEvents
    <3>2. /\ held \subseteq Names /\ listed \subseteq Names
          /\ shared \subseteq listed /\ defaults \subseteq listed
      BY DEF TypeInv
    <3> HIDE DEF e
    <3>3. \/ /\ e.type = "databases"
             /\ held' = held \cup e.keys /\ listed' = listed \cup e.keys
             /\ shared' = shared \cup ((e.keys \ held) \ listed)
             /\ defaults' = defaults \cup ((e.keys \ listed) \cap {e.db})
          \/ /\ e.type = "databasesFailed"
             /\ held' = {} /\ shared' = {} /\ UNCHANGED <<listed, defaults>>
          \/ /\ e.type = "default"
             /\ defaults' = (defaults \ shared) \cup {e.db} /\ UNCHANGED <<held, listed, shared>>
      BY <1>5 DEF ListStep, e
    <3> QED BY <3>1, <3>2, <3>3
  <2>5. /\ requests' \in Seq(DriverRequests(Names, Keys, listed'))
        /\ events' \in Seq(TreeEvents(Names, Keys, listed'))
    BY <2>2, <2>3, <2>4, FormedGrows, SeqMonotonic DEF TypeInv
  <2> QED BY <2>1, <2>3, <2>4, <2>5 DEF TypeInv
<1> QED BY <1>1, <1>2, <1>3, <1>4, <1>5, Steps

\* They hold at the beginning.
LEMMA TypeStart ==
  ASSUME Init
  PROVE  TypeInv
<1>1. server \in Servers BY DEF Init
<1>2. Stores \subseteq Names /\ Start \in Stores BY <1>1, ServerFacts
<1>3. \A S : <<>> \in Seq(S) OBVIOUS
<1>4. connected \in BOOLEAN /\ moved \in BOOLEAN BY Zenon DEF Init
<1> QED BY <1>1, <1>2, <1>3, <1>4, ConstantsAssumption DEF Init, TypeInv

\* They include the types that are checked.
LEMMA TypeInvImplies ==
  ASSUME TypeInv
  PROVE  TypeOK
<1>1. listed \subseteq Names /\ loaded \subseteq Names BY DEF TypeInv
<1>2. /\ DriverRequests(Names, Keys, listed) \subseteq
           [kind : Kinds, db : Names, keys : SUBSET Keys, new : Nat]
      /\ TreeEvents(Names, Keys, listed) \subseteq
           [type : Types, db : Names, keys : SUBSET (Keys \cup Names), new : Nat]
  BY DEF DriverRequests, TreeEvents
<1> QED BY <1>1, <1>2, SeqMonotonic DEF TypeInv, TypeOK

\* They hold always.
LEMMA TypeAlways == Spec => []TypeInv
BY TypeStart, TypeStep, PTL DEF Spec

\* Every variable of the tree, the store and the queues between them keeps its type.
THEOREM TreeTypeCorrect == Spec => []TypeOK
BY TypeAlways, TypeInvImplies, PTL

-----------------------------------------------------------------------------
(* The default database. *)

Records(N, K) == [type : Types, db : N, keys : SUBSET (K \cup N), new : Nat]

\* Events about the databases S and no other.
PlacedEvents(N, K, S) ==
  {e \in Records(N, K) : e.db \in S /\ (e.type = "databases" => e.keys \subseteq S)}

\* No LoadDatabases failed.
SoundEvents(N, K) == {e \in Records(N, K) : e.type # "databasesFailed"}

\* Each LoadDatabases listed all databases, or none.
WholeEvents(N, K, S) == {e \in Records(N, K) : e.type = "databases" => e.keys \in {S, {}}}

\* Each LoadDatabases listed all databases, none or the current one, which was that of
\* the settings if not all are listed in the tree.
StartEvents(N, K, S, L) ==
  {e \in Records(N, K) : e.type = "databases" =>
     /\ e.db \in S /\ e.keys \in {S, {e.db}, {}}
     /\ e.db = Start \/ L = S}

\* Until redis refuses a name, label and connection agree, and the tree knows the
\* databases of the server only.
PlaceInv ==
  "refused" \notin slips =>
    label = selected /\ listed \subseteq Stores /\ events \in Seq(PlacedEvents(Names, Keys, Stores))

\* Until a LoadDatabases fails, each listed database has the info object that a later
\* set-default resets.
SharedInv ==
  "load" \notin slips =>
    held = listed /\ shared = listed /\ events \in Seq(SoundEvents(Names, Keys))

\* Until a LoadDatabases lists the current database alone, all are listed at once.
WholeInv ==
  "short" \notin slips =>
    listed \in {{}, Stores} /\ events \in Seq(WholeEvents(Names, Keys, Stores))

\* Until a console selects a database, that of the settings is the first listed, and
\* it is the current one until all are.
StartInv ==
  "select" \notin slips =>
    /\ listed \in {{}, {Start}, Stores} /\ label \in Stores /\ (label = Start \/ listed = Stores)
    /\ events \in Seq(StartEvents(Names, Keys, Stores, listed))

\* A set-default is queued behind the event i.
Chosen(es, i) == \E j \in 1 .. Len(es) : j > i /\ es[j].type = "default"

\* The databases queued to be marked, and those marked already, are the database s
\* unless a later set-default follows.
Settles(es, s, ds) ==
  /\ \A i \in 1 .. Len(es) :
       es[i].type \in {"databases", "default"} => es[i].db = s \/ Chosen(es, i)
  /\ ds \subseteq {s} \/ Chosen(es, 0)

\* The last set-default that is queued is for the database the connection uses, and so
\* are the listings behind it; when none is queued that database is marked.
ChosenInv ==
  "load" \notin slips /\ ~moved => label = selected /\ Settles(events, selected, defaults)

\* Well-formed events have the fields of events.
LEMMA FormedAreRecords ==
  ASSUME NEW N, NEW K, NEW L
  PROVE  TreeEvents(N, K, L) \subseteq Records(N, K)
BY DEF TreeEvents, Records

\* How each step changes the queue of events; slips are not forgotten.
LEMMA QueueStep ==
  ASSUME TypeInv, [Next]_vars
  PROVE  /\ server' = server /\ Names' = Names /\ Keys' = Keys /\ Stores' = Stores
         /\ slips \subseteq slips'
         /\ \/ /\ UNCHANGED <<events, selected, label, held, listed, shared, defaults, moved>>
            \/ \E es \in Seq(TreeEvents(Names, Keys, listed)) : DriverStep(es)
            \/ /\ events # <<>> /\ events' = Tail(events) /\ Head(events).type \in ItemTypes
               /\ UNCHANGED <<selected, label, held, listed, shared, defaults, moved>>
            \/ ListStep
<1>1. CASE UNCHANGED vars
  <2>1. UNCHANGED <<server, events, selected, label, held, listed, shared, defaults, moved, slips>>
    BY <1>1 DEF vars, driverVars, treeVars
  <2> QED BY <2>1, SameServer
<1>2. CASE UserStep
  BY <1>2, SameServer DEF UserStep
<1>3. ASSUME NEW es \in Seq(TreeEvents(Names, Keys, listed)), DriverStep(es)
      PROVE  server' = server /\ slips \subseteq slips'
  BY <1>3 DEF DriverStep
<1>4. CASE ItemStep(Head(events))
  BY <1>4, SameServer DEF ItemStep
<1>5. CASE ListStep
  BY <1>5, SameServer DEF ListStep
<1> QED BY <1>1, <1>2, <1>3, <1>4, <1>5, Steps, SameServer

\* Every step keeps the tree to the databases of the server.
LEMMA PlaceStep ==
  ASSUME TypeInv, PlaceInv, [Next]_vars
  PROVE  PlaceInv'
<1> DEFINE P == PlacedEvents(Names, Keys, Stores)
           New == label' = selected' /\ listed' \subseteq Stores /\ events' \in Seq(P)
<1> SUFFICES ASSUME "refused" \notin slips' PROVE New
  BY QueueStep DEF PlaceInv
<1>1. label = selected /\ listed \subseteq Stores /\ events \in Seq(P)
  BY QueueStep DEF PlaceInv
<1>2. selected \in Stores BY DEF TypeInv
<1> HIDE DEF P
<1>3. CASE UNCHANGED <<events, selected, label, listed>>
  BY <1>1, <1>3
<1>4. ASSUME NEW es \in Seq(TreeEvents(Names, Keys, listed)), DriverStep(es) PROVE New
  <2>1. /\ listed' = listed /\ events' = events \o es
        /\ \A i \in 1 .. Len(es) :
             /\ es[i].type \notin {"content", "cleared", "default"} => es[i].db = label
             /\ es[i].type = "databases" => es[i].keys \in {Stores, {label}, {}}
    BY <1>4 DEF DriverStep
  <2>2. label' = selected'
    <3>1. \/ label' = label /\ selected' = selected
          \/ label' = selected' \/ "refused" \in slips'
      BY <1>4 DEF DriverStep
    <3> QED BY <1>1, <3>1
  <2>3. ASSUME NEW i \in 1 .. Len(es) PROVE es[i] \in P
    <3>1. es[i] \in TreeEvents(Names, Keys, listed) BY ElementOfSeq
    <3>2. es[i].type \in {"content", "cleared", "default"} => es[i].db \in listed
      BY <3>1 DEF TreeEvents
    <3>3. es[i].db \in Stores BY <1>1, <1>2, <2>1, <3>2
    <3>4. es[i].type = "databases" => es[i].keys \subseteq Stores BY <1>1, <1>2, <2>1
    <3> QED BY <3>1, <3>3, <3>4, FormedAreRecords DEF P, PlacedEvents
  <2>4. es \in Seq(P)
    BY <2>3, LenProperties
  <2> QED BY <1>1, <2>1, <2>2, <2>4, ConcatProperties
<1>5. CASE events # <<>> /\ events' = Tail(events) /\ UNCHANGED <<selected, label, listed>>
  BY <1>1, <1>5, HeadTailProperties
<1>6. CASE ListStep
  <2> DEFINE e == Head(events)
  <2>1. /\ UNCHANGED <<label, selected>> /\ events # <<>> /\ events' = Tail(events)
        /\ listed' = listed \/ (e.type = "databases" /\ listed' = listed \cup e.keys)
    BY <1>6 DEF ListStep
  <2>2. e \in P /\ events' \in Seq(P) BY <1>1, <2>1, HeadTailProperties
  <2>3. e.type = "databases" => e.keys \subseteq Stores BY <2>2 DEF P, PlacedEvents
  <2> QED BY <1>1, <2>1, <2>2, <2>3
<1> QED BY <1>3, <1>4, <1>5, <1>6, QueueStep

\* Every step keeps the info objects shared.
LEMMA SharedStep ==
  ASSUME TypeInv, SharedInv, [Next]_vars
  PROVE  SharedInv'
<1> DEFINE P == SoundEvents(Names, Keys)
           New == held' = listed' /\ shared' = listed' /\ events' \in Seq(P)
<1> SUFFICES ASSUME "load" \notin slips' PROVE New
  BY QueueStep DEF SharedInv
<1>1. held = listed /\ shared = listed /\ events \in Seq(P)
  BY QueueStep DEF SharedInv
<1> HIDE DEF P
<1>2. CASE UNCHANGED <<events, held, listed, shared>>
  BY <1>1, <1>2
<1>3. ASSUME NEW es \in Seq(TreeEvents(Names, Keys, listed)), DriverStep(es) PROVE New
  <2>1. /\ UNCHANGED <<held, listed, shared>> /\ events' = events \o es
        /\ \A i \in 1 .. Len(es) : es[i].type = "databasesFailed" => "load" \in slips'
    BY <1>3 DEF DriverStep
  <2>2. ASSUME NEW i \in 1 .. Len(es) PROVE es[i] \in P
    <3>1. es[i] \in TreeEvents(Names, Keys, listed) BY ElementOfSeq
    <3> QED BY <2>1, <3>1, FormedAreRecords DEF P, SoundEvents
  <2>3. es \in Seq(P) BY <2>2, LenProperties
  <2> QED BY <1>1, <2>1, <2>3, ConcatProperties
<1>4. CASE events # <<>> /\ events' = Tail(events) /\ UNCHANGED <<held, listed, shared>>
  BY <1>1, <1>4, HeadTailProperties
<1>5. CASE ListStep
  <2> DEFINE e == Head(events)
  <2>1. /\ events # <<>> /\ events' = Tail(events)
        /\ \/ /\ held' = held \cup e.keys /\ listed' = listed \cup e.keys
              /\ shared' = shared \cup ((e.keys \ held) \ listed)
           \/ e.type = "databasesFailed"
           \/ UNCHANGED <<held, listed, shared>>
    BY <1>5 DEF ListStep
  <2>2. e \in P /\ events' \in Seq(P) BY <1>1, <2>1, HeadTailProperties
  <2>3. e.type # "databasesFailed" BY <2>2 DEF P, SoundEvents
  <2> HIDE DEF e
  <2> QED BY <1>1, <2>1, <2>2, <2>3
<1> QED BY <1>2, <1>3, <1>4, <1>5, QueueStep

\* Every step lists all databases or none.
LEMMA WholeStep ==
  ASSUME TypeInv, WholeInv, [Next]_vars
  PROVE  WholeInv'
<1> DEFINE P == WholeEvents(Names, Keys, Stores)
           New == listed' \in {{}, Stores} /\ events' \in Seq(P)
<1> SUFFICES ASSUME "short" \notin slips' PROVE New
  BY QueueStep DEF WholeInv
<1>1. listed \in {{}, Stores} /\ events \in Seq(P)
  BY QueueStep DEF WholeInv
<1> HIDE DEF P
<1>2. CASE UNCHANGED <<events, listed>>
  BY <1>1, <1>2
<1>3. ASSUME NEW es \in Seq(TreeEvents(Names, Keys, listed)), DriverStep(es) PROVE New
  <2>1. /\ listed' = listed /\ events' = events \o es
        /\ \A i \in 1 .. Len(es) :
             es[i].type = "databases" => es[i].keys \in {Stores, {}} \/ "short" \in slips'
    BY <1>3 DEF DriverStep
  <2>2. ASSUME NEW i \in 1 .. Len(es) PROVE es[i] \in P
    <3>1. es[i] \in TreeEvents(Names, Keys, listed) BY ElementOfSeq
    <3> QED BY <2>1, <3>1, FormedAreRecords DEF P, WholeEvents
  <2>3. es \in Seq(P) BY <2>2, LenProperties
  <2> QED BY <1>1, <2>1, <2>3, ConcatProperties
<1>4. CASE events # <<>> /\ events' = Tail(events) /\ listed' = listed
  BY <1>1, <1>4, HeadTailProperties
<1>5. CASE ListStep
  <2> DEFINE e == Head(events)
  <2>1. /\ events # <<>> /\ events' = Tail(events)
        /\ listed' = listed \/ (e.type = "databases" /\ listed' = listed \cup e.keys)
    BY <1>5 DEF ListStep
  <2>2. e \in P /\ events' \in Seq(P) BY <1>1, <2>1, HeadTailProperties
  <2>3. e.type = "databases" => e.keys \in {Stores, {}} BY <2>2 DEF P, WholeEvents
  <2> HIDE DEF e
  <2>4. listed' \in {{}, Stores} BY <1>1, <2>1, <2>3
  <2> QED BY <2>2, <2>4
<1> QED BY <1>2, <1>3, <1>4, <1>5, QueueStep

\* Every step lists the database of the settings first.
LEMMA StartStep ==
  ASSUME TypeInv, StartInv, [Next]_vars
  PROVE  StartInv'
<1> DEFINE P(L) == StartEvents(Names, Keys, Stores, L)
           New == /\ listed' \in {{}, {Start}, Stores} /\ label' \in Stores
                  /\ label' = Start \/ listed' = Stores
                  /\ events' \in Seq(P(listed'))
<1> SUFFICES ASSUME "select" \notin slips' PROVE New
  BY QueueStep DEF StartInv
<1>1. /\ listed \in {{}, {Start}, Stores} /\ label \in Stores /\ (label = Start \/ listed = Stores)
      /\ events \in Seq(P(listed))
  BY QueueStep DEF StartInv
<1>2. Start \in Stores BY ServerFacts DEF TypeInv
<1>3. CASE UNCHANGED <<events, label, listed>>
  BY <1>1, <1>3
<1>4. ASSUME NEW es \in Seq(TreeEvents(Names, Keys, listed)), DriverStep(es) PROVE New
  <2>1. /\ listed' = listed /\ events' = events \o es
        /\ \A i \in 1 .. Len(es) :
             /\ es[i].type = "databases" => es[i].db = label
             /\ es[i].type = "databases" => es[i].keys \in {Stores, {label}, {}}
    BY <1>4 DEF DriverStep
  <2>2. label' \in {label, Start} \/ label' \in listed
    BY <1>4 DEF DriverStep
  <2>3. label' \in Stores /\ (label' = Start \/ listed = Stores)
    BY <1>1, <1>2, <2>2
  <2>4. ASSUME NEW i \in 1 .. Len(es) PROVE es[i] \in P(listed)
    <3>1. es[i] \in Records(Names, Keys) BY ElementOfSeq, FormedAreRecords
    <3> QED BY <1>1, <2>1, <3>1 DEF StartEvents
  <2> HIDE DEF P
  <2>5. es \in Seq(P(listed)) BY <2>4, LenProperties
  <2>6. events' \in Seq(P(listed)) BY <1>1, <2>1, <2>5, ConcatProperties
  <2> QED BY <1>1, <2>1, <2>3, <2>6
<1>5. CASE events # <<>> /\ events' = Tail(events) /\ UNCHANGED <<label, listed>>
  <2> HIDE DEF P
  <2>1. events' \in Seq(P(listed)) BY <1>1, <1>5, HeadTailProperties
  <2> QED BY <1>1, <1>5, <2>1
<1>6. CASE ListStep
  <2> DEFINE e == Head(events)
  <2>1. /\ label' = label /\ events # <<>> /\ events' = Tail(events)
        /\ listed' = listed \/ (e.type = "databases" /\ listed' = listed \cup e.keys)
    BY <1>6 DEF ListStep
  <2>2. e \in P(listed) /\ events' \in Seq(P(listed))
    <3> HIDE DEF P
    <3> QED BY <1>1, <2>1, HeadTailProperties
  <2>3. e.type = "databases" =>
          e.db \in Stores /\ e.keys \in {Stores, {e.db}, {}} /\ (e.db = Start \/ listed = Stores)
    BY <2>2 DEF StartEvents
  <2> HIDE DEF e
  <2>4. listed' \in {{}, {Start}, Stores} /\ (listed = Stores => listed' = Stores)
    <3>1. CASE listed' = listed BY <1>1, <3>1
    <3>2. CASE e.type = "databases" /\ listed' = listed \cup e.keys /\ listed = Stores
      BY <3>2, <2>3
    <3>3. CASE e.type = "databases" /\ listed' = listed \cup e.keys /\ listed # Stores
      BY <3>3, <1>1, <1>2, <2>3
    <3> QED BY <2>1, <3>1, <3>2, <3>3
  <2>5. P(listed) \subseteq P(listed') BY <2>4 DEF StartEvents
  <2> HIDE DEF P
  <2>6. events' \in Seq(P(listed')) BY <2>2, <2>5, SeqMonotonic
  <2> QED BY <1>1, <2>1, <2>4, <2>6
<1> QED BY <1>3, <1>4, <1>5, <1>6, QueueStep

\* Every step keeps one default.
LEMMA DefaultStep ==
  ASSUME TypeInv, SharedInv, WholeInv, StartInv, OneDefault, [Next]_vars
  PROVE  OneDefault'
<1> SUFFICES ASSUME "load" \notin slips', ~({"short", "select"} \subseteq slips')
             PROVE  \A m, n \in defaults' : m = n
  BY DEF OneDefault
<1>1. /\ "load" \notin slips /\ ("short" \notin slips \/ "select" \notin slips)
      /\ \A m, n \in defaults : m = n
  BY QueueStep DEF OneDefault
<1>2. defaults \subseteq listed /\ shared = listed BY <1>1 DEF SharedInv, TypeInv
<1>3. CASE defaults' = defaults BY <1>1, <1>3
<1>4. CASE ListStep
  <2> DEFINE e == Head(events)
  <2>1. /\ events # <<>>
        /\ \/ /\ e.type = "databases"
              /\ defaults' = defaults \cup ((e.keys \ listed) \cap {e.db})
           \/ defaults' = defaults
           \/ defaults' = (defaults \ shared) \cup {e.db}
    BY <1>4 DEF ListStep
  <2>2. CASE "short" \notin slips
    <3>1. listed \in {{}, Stores} /\ events \in Seq(WholeEvents(Names, Keys, Stores))
      BY <2>2 DEF WholeInv
    <3>2. e \in WholeEvents(Names, Keys, Stores) BY <2>1, <3>1, HeadTailProperties
    <3>3. e.type = "databases" => e.keys \in {Stores, {}} BY <3>2 DEF WholeEvents
    <3> HIDE DEF e
    <3>4. CASE listed = {} BY <1>2, <2>1, <3>4
    <3>5. CASE listed = Stores BY <1>1, <1>2, <2>1, <3>3, <3>5
    <3> QED BY <3>1, <3>4, <3>5
  <2>3. CASE "select" \notin slips
    <3>1. /\ listed \in {{}, {Start}, Stores}
          /\ events \in Seq(StartEvents(Names, Keys, Stores, listed))
      BY <2>3 DEF StartInv
    <3>2. e \in StartEvents(Names, Keys, Stores, listed) BY <2>1, <3>1, HeadTailProperties
    <3>3. e.type = "databases" => e.db \in Stores /\ (e.db = Start \/ listed = Stores)
      BY <3>2 DEF StartEvents
    <3> HIDE DEF e
    <3>4. CASE listed = {} BY <1>2, <2>1, <3>4
    <3>5. CASE e.type = "databases" /\ listed # {}
      <4>1. e.db \in listed BY <3>1, <3>3, <3>5
      <4> QED BY <1>1, <1>2, <2>1, <4>1
    <3>6. CASE e.type # "databases" BY <1>1, <1>2, <2>1, <3>6
    <3> QED BY <3>4, <3>5, <3>6
  <2> QED BY <1>1, <2>2, <2>3
<1>5. ASSUME NEW es \in Seq(TreeEvents(Names, Keys, listed)), DriverStep(es)
      PROVE  defaults' = defaults
  BY <1>5 DEF DriverStep
<1> QED BY <1>3, <1>4, <1>5, QueueStep

\* What is queued behind the first event settles the rest.
LEMMA SettlesTail ==
  ASSUME NEW E, NEW es \in Seq(E), es # <<>>, NEW s, NEW ds, Settles(es, s, ds),
         NEW new, \/ /\ Head(es).type = "default" /\ new = {Head(es).db}
                  \/ /\ Head(es).type = "databases" /\ new \subseteq ds \cup {Head(es).db}
                  \/ Head(es).type # "default" /\ new = ds
  PROVE  Settles(Tail(es), s, new)
<1> DEFINE n == Len(es)
           ts == Tail(es)
<1>1. /\ n \in Nat /\ n > 0 /\ Len(ts) = n - 1 /\ Head(es) = es[1]
      /\ \A i \in 1 .. n - 1 : ts[i] = es[i + 1]
  BY HeadTailProperties, LenProperties, EmptySeq
<1> HIDE DEF ts
<1>2. ASSUME NEW i \in 1 .. n, Chosen(es, i) PROVE Chosen(ts, i - 1)
  <2>1. PICK j \in 1 .. n : j > i /\ es[j].type = "default" BY <1>2 DEF Chosen
  <2>2. PICK k \in 1 .. n - 1 : k = j - 1 BY <1>1, <2>1
  <2>3. ts[k].type = "default" /\ k > i - 1
    <3>1. ts[k] = es[k + 1] /\ k + 1 = j BY <1>1, <2>2
    <3> QED BY <3>1, <2>1, <2>2
  <2> QED BY <1>1, <2>3 DEF Chosen
<1>3. ASSUME NEW i \in 1 .. n - 1, ts[i].type \in {"databases", "default"}
      PROVE  ts[i].db = s \/ Chosen(ts, i)
  <2>1. PICK k \in 1 .. n : k = i + 1 BY <1>1
  <2>2. ts[i] = es[k] /\ k - 1 = i BY <1>1, <2>1
  <2>3. es[k].db = s \/ Chosen(es, k) BY <1>3, <2>2 DEF Settles
  <2> QED BY <1>2, <2>2, <2>3
<1>4. 1 \in 1 .. n /\ 1 - 1 = 0 BY <1>1
<1>5. CASE Head(es).type \in {"databases", "default"} /\ Head(es).db # s
  <2>1. Chosen(es, 1) BY <1>1, <1>4, <1>5 DEF Settles
  <2>2. Chosen(ts, 0) BY <1>2, <1>4, <2>1
  <2> QED BY <1>1, <1>3, <2>2 DEF Settles, ts
<1>6. CASE Head(es).type = "default" /\ Head(es).db = s
  BY <1>1, <1>3, <1>6 DEF Settles, ts
<1>7. CASE Head(es).type # "default" /\ (Head(es).type = "databases" => Head(es).db = s)
  <2>1. new \subseteq ds \cup {s} BY <1>7
  <2>2. CASE ds \subseteq {s} BY <1>1, <1>3, <2>1, <2>2 DEF Settles, ts
  <2>3. CASE Chosen(es, 0)
    <3>1. PICK j \in 1 .. n : j > 0 /\ es[j].type = "default" BY <2>3 DEF Chosen
    <3>2. j # 1 BY <1>1, <1>7, <3>1
    <3>3. j > 1 BY <1>1, <3>1, <3>2
    <3>4. Chosen(es, 1) BY <3>1, <3>3 DEF Chosen
    <3>5. Chosen(ts, 0) BY <1>2, <1>4, <3>4
    <3> QED BY <1>1, <1>3, <3>5 DEF Settles, ts
  <2> QED BY <2>2, <2>3 DEF Settles
<1> QED BY <1>5, <1>6, <1>7

\* Events behind those queued settle with them if they are about s, and whatever was
\* queued if the last is a set-default of s.
LEMMA SettlesJoin ==
  ASSUME NEW E, NEW es \in Seq(E), NEW fs \in Seq(E), NEW s, NEW ds
  PROVE  /\ /\ Settles(es, s, ds)
            /\ \A i \in 1 .. Len(fs) : fs[i].type \in {"databases", "default"} => fs[i].db = s
            => Settles(es \o fs, s, ds)
         /\ Len(fs) = 1 /\ fs[1].type = "default" /\ fs[1].db = s => Settles(es \o fs, s, ds)
<1> DEFINE m == Len(es)
           n == Len(fs)
           gs == es \o fs
<1>1. /\ m \in Nat /\ n \in Nat /\ Len(gs) = m + n
      /\ \A i \in 1 .. m + n : gs[i] = IF i <= m THEN es[i] ELSE fs[i - m]
  BY ConcatProperties, LenProperties
<1> HIDE DEF m, n, gs
<1>2. /\ \A i \in 1 .. m : i \in 1 .. m + n /\ gs[i] = es[i]
      /\ \A i \in 1 .. m + n : i \notin 1 .. m => i - m \in 1 .. n /\ gs[i] = fs[i - m]
  BY <1>1
<1>3. ASSUME Settles(es, s, ds),
             \A i \in 1 .. n : fs[i].type \in {"databases", "default"} => fs[i].db = s
      PROVE  Settles(gs, s, ds)
  <2>1. ASSUME NEW i, Chosen(es, i) PROVE Chosen(gs, i)
    BY <1>1, <1>2, <2>1 DEF Chosen, m
  <2>2. ASSUME NEW i \in 1 .. m + n, gs[i].type \in {"databases", "default"}
        PROVE  gs[i].db = s \/ Chosen(gs, i)
    <3>1. CASE i \in 1 .. m
      <4>1. es[i].db = s \/ Chosen(es, i) BY <1>2, <1>3, <2>2, <3>1 DEF Settles, m
      <4> QED BY <1>2, <2>1, <3>1, <4>1
    <3>2. CASE i \notin 1 .. m BY <1>2, <1>3, <2>2, <3>2
    <3> QED BY <3>1, <3>2
  <2>3. ds \subseteq {s} \/ Chosen(gs, 0) BY <1>3, <2>1 DEF Settles
  <2> QED BY <1>1, <2>2, <2>3 DEF Settles
<1>4. ASSUME n = 1, fs[1].type = "default", fs[1].db = s
      PROVE  Settles(gs, s, ds)
  <2>1. PICK k \in 1 .. m + n : k = m + 1 BY <1>1, <1>4
  <2>2. k \notin 1 .. m /\ k - m = 1 /\ k > 0 BY <1>1, <2>1
  <2>3. gs[k] = fs[1] BY <1>2, <2>2
  <2>4. ASSUME NEW i \in 0 .. m PROVE Chosen(gs, i)
    <3>1. k > i BY <1>1, <2>1
    <3> QED BY <1>1, <1>4, <2>3, <3>1 DEF Chosen
  <2>5. ASSUME NEW i \in 1 .. m + n PROVE gs[i].db = s \/ Chosen(gs, i)
    <3>1. i = k \/ i \in 0 .. m BY <1>1, <1>4, <2>1
    <3> QED BY <1>4, <2>3, <2>4, <3>1
  <2>6. Chosen(gs, 0) BY <1>1, <2>4
  <2> QED BY <1>1, <2>5, <2>6 DEF Settles
<1> QED BY <1>3, <1>4 DEF gs, n

\* Every step keeps the last set-default in step with the connection.
LEMMA ChosenStep ==
  ASSUME TypeInv, SharedInv, ChosenInv, [Next]_vars
  PROVE  ChosenInv'
<1> DEFINE E == Records(Names, Keys)
           New == label' = selected' /\ Settles(events', selected', defaults')
<1> SUFFICES ASSUME "load" \notin slips', ~moved' PROVE New
  BY DEF ChosenInv
<1>1. "load" \notin slips /\ shared = listed /\ defaults \subseteq listed
  BY QueueStep DEF SharedInv, TypeInv
<1>2. events \in Seq(E) BY FormedAreRecords, SeqMonotonic DEF TypeInv
<1>3. ~moved => label = selected /\ Settles(events, selected, defaults)
  BY <1>1 DEF ChosenInv
<1>4. CASE UNCHANGED <<events, selected, label, defaults, moved>>
  BY <1>3, <1>4, Zenon
<1>5. ASSUME NEW es \in Seq(TreeEvents(Names, Keys, listed)), DriverStep(es) PROVE New
  <2>1. /\ defaults' = defaults /\ events' = events \o es
        /\ \A i \in 1 .. Len(es) :
             es[i].type \notin {"content", "cleared", "default"} => es[i].db = label
    BY <1>5 DEF DriverStep
  <2>2. es \in Seq(E) BY FormedAreRecords, SeqMonotonic
  <2> HIDE DEF E
  <2>3. CASE /\ label' = label /\ selected' = selected /\ moved' = moved
             /\ \A i \in 1 .. Len(es) : es[i].type # "default"
    <3>1. label = selected /\ Settles(events, selected, defaults) BY <1>3, <2>3
    <3>2. \A i \in 1 .. Len(es) :
            es[i].type \in {"databases", "default"} => es[i].db = selected
      BY <2>1, <2>3, <3>1
    <3>3. Settles(events \o es, selected, defaults) BY <1>2, <2>2, <3>1, <3>2, SettlesJoin
    <3> QED BY <2>1, <2>3, <3>1, <3>3
  <2>4. CASE es = <<>> /\ ~moved /\ selected' = selected /\ label' = selected'
    <3>1. Settles(events, selected, defaults) BY <1>3, <2>4
    <3>2. events' = events BY <1>2, <2>1, <2>4
    <3> QED BY <2>1, <2>4, <3>1, <3>2, Zenon
  <2>5. ASSUME label' = selected', NEW e, es = <<e>>, e.type = "default", e.db = label'
        PROVE  New
    <3>1. Len(es) = 1 /\ es[1] = e BY <2>5
    <3>2. PICK s : s = selected' OBVIOUS
    <3>3. Settles(events \o es, s, defaults)
      BY <1>2, <2>2, <2>5, <3>1, <3>2, SettlesJoin
    <3> QED BY <2>1, <2>5, <3>2, <3>3, Zenon
  <2>6. \/ /\ label' = label /\ selected' = selected /\ moved' = moved
           /\ \A i \in 1 .. Len(es) : es[i].type # "default"
        \/ es = <<>> /\ ~moved /\ selected' = selected /\ label' = selected'
        \/ /\ label' = selected'
           /\ \E e \in TreeEvents(Names, Keys, listed) :
                es = <<e>> /\ e.type = "default" /\ e.db = label'
    BY <1>5 DEF DriverStep
  <2> HIDE DEF New
  <2> QED BY <2>3, <2>4, <2>5, <2>6
<1>6. CASE /\ events # <<>> /\ events' = Tail(events) /\ Head(events).type \in ItemTypes
           /\ UNCHANGED <<selected, label, defaults, moved>>
  <2>1. label = selected /\ Settles(events, selected, defaults) BY <1>3, <1>6
  <2>2. Head(events).type # "default" BY <1>6 DEF ItemTypes
  <2> HIDE DEF E
  <2>3. Settles(Tail(events), selected, defaults) BY <1>2, <1>6, <2>1, <2>2, SettlesTail
  <2> QED BY <1>6, <2>1, <2>3, Zenon
<1>7. CASE ListStep
  <2> DEFINE e == Head(events)
  <2>1. /\ UNCHANGED <<selected, label, moved>> /\ events # <<>> /\ events' = Tail(events)
        /\ \/ e.type = "databases" /\ defaults' = defaults \cup ((e.keys \ listed) \cap {e.db})
           \/ e.type = "databasesFailed" /\ defaults' = defaults
           \/ e.type = "default" /\ defaults' = (defaults \ shared) \cup {e.db}
    BY <1>7 DEF ListStep
  <2>2. label = selected /\ Settles(events, selected, defaults) BY <1>3, <2>1
  <2>3. PICK new : new = defaults' OBVIOUS
  <2>4. \/ e.type = "databases" /\ new \subseteq defaults \cup {e.db}
        \/ e.type # "default" /\ new = defaults
        \/ e.type = "default" /\ new = {e.db}
    BY <1>1, <2>1, <2>3
  <2> HIDE DEF E
  <2>5. Settles(Tail(events), selected, new) BY <1>2, <2>1, <2>2, <2>4, SettlesTail
  <2> QED BY <2>1, <2>2, <2>3, <2>5, Zenon
<1> QED BY <1>4, <1>5, <1>6, <1>7, QueueStep

DefaultsInv == PlaceInv /\ SharedInv /\ WholeInv /\ StartInv /\ OneDefault /\ ChosenInv

\* All of them hold at the beginning.
LEMMA DefaultsStart ==
  ASSUME Init
  PROVE  DefaultsInv
<1>1. /\ events = <<>> /\ Len(events) = 0 /\ slips = {} /\ label = selected /\ selected = Start
      /\ listed = {} /\ held = {} /\ shared = {} /\ defaults = {} /\ server \in Servers
  BY DEF Init
<1>2. \A S : events \in Seq(S) BY <1>1
<1>3. Start \in Stores BY <1>1, ServerFacts
<1>4. Settles(events, selected, defaults) BY <1>1 DEF Settles
<1> QED BY <1>1, <1>2, <1>3, <1>4
        DEF DefaultsInv, PlaceInv, SharedInv, WholeInv, StartInv, OneDefault, ChosenInv

\* They hold always.
LEMMA DefaultsAlways == Spec => []DefaultsInv
<1>1. TypeInv /\ DefaultsInv /\ [Next]_vars => DefaultsInv'
  BY PlaceStep, SharedStep, WholeStep, StartStep, DefaultStep, ChosenStep DEF DefaultsInv
<1> QED BY <1>1, DefaultsStart, TypeAlways, PTL DEF Spec

\* At most one database of the tree is marked as the default, whatever the user asks
\* for while answers are still queued, however often the connection is closed and
\* opened again and whatever redis refuses, unless a LoadDatabases failed, or one
\* listed the current database alone and a console selected another.
THEOREM OneDefaultMarked == Spec => []OneDefault
BY DefaultsAlways, PTL DEF DefaultsInv

\* The database marked as the default is the one the connection uses once everything
\* queued has been handled; a set-default that redis accepts makes that true again
\* after a console's SELECT or a reconnect has made it false.
THEOREM MarkedIsSelected == Spec => []DefaultSelected
<1>1. ChosenInv => DefaultSelected
  <2> SUFFICES ASSUME ChosenInv, Drained, "load" \notin slips, ~moved
               PROVE  defaults \subseteq {selected}
    BY DEF DefaultSelected
  <2>1. Len(events) = 0 BY DEF Drained
  <2>2. ~Chosen(events, 0) BY <2>1 DEF Chosen
  <2> QED BY <2>2 DEF ChosenInv, Settles
<1> QED BY <1>1, DefaultsAlways, PTL DEF DefaultsInv

-----------------------------------------------------------------------------
(* What is shown and what is stored. *)

\* The content of the database was shown, or will be.
WholeContent ==
  \/ Start \in loaded
  \/ \E i \in 1 .. Len(events) : events[i].type = "content" /\ events[i].new = 1

\* The tree will show at least what is stored once it has handled what is queued,
\* unless something happened that makes it show too little.
LoadInv ==
  Stores = {Start} /\ slips \cap ({"refused"} \cup Undershown) = {} /\ WholeContent =>
    ShowsAll(Keys, Range(items[Start]), events, stored[Start])

\* It will show at most that, and no key twice.
ShowInv ==
  Stores = {Start} /\ slips \cap Overshown = {} =>
    /\ IsInjective(items[Start])
    /\ ShowsOnly(Keys, Range(items[Start]), events, stored[Start])

\* Nothing at all is always shown.
LEMMA ShowsAllNothing ==
  ASSUME NEW K, NEW E, NEW A \in SUBSET K, NEW es \in Seq(E)
  PROVE  ShowsAll(K, A, es, {})
<1> DEFINE T == [i \in 0 .. Len(es) |-> {}]
<1>1. Len(es) \in Nat BY LenProperties
<1>2. T \in [0 .. Len(es) -> SUBSET K] /\ \A i \in 0 .. Len(es) : T[i] = {}
  BY <1>1
<1>3. 0 \in 0 .. Len(es) /\ Len(es) \in 0 .. Len(es) /\ \A i \in 1 .. Len(es) : i \in 0 .. Len(es)
  BY <1>1
<1> HIDE DEF T
<1> QED BY <1>2, <1>3 DEF ShowsAll

\* On a server of one database every event is about it, or about no keys.
LEMMA OnePlace ==
  ASSUME TypeInv, PlaceInv, Stores = {Start}, "refused" \notin slips
  PROVE  /\ selected = Start /\ listed \subseteq {Start} /\ Start \in Names
         /\ events \in Seq(Records(Names, Keys))
         /\ \A i \in 1 .. Len(events) : events[i].db = Start
         /\ items[Start] \in Seq(Keys) /\ Range(items[Start]) \in SUBSET Keys
         /\ stored[Start] \in SUBSET Keys
         /\ WholeContent => Start \in listed
<1>1. selected = Start /\ listed \subseteq {Start} /\ Start \in Names /\ loaded \subseteq listed
  BY ServerFacts DEF TypeInv, PlaceInv
<1>2. events \in Seq(PlacedEvents(Names, Keys, Stores)) BY DEF PlaceInv
<1>3. \A i \in 1 .. Len(events) : events[i].db = Start
  BY <1>2, ElementOfSeq DEF PlacedEvents
<1>4. events \in Seq(Records(Names, Keys))
  <2>1. PlacedEvents(Names, Keys, Stores) \subseteq Records(Names, Keys) BY DEF PlacedEvents
  <2> QED BY <1>2, <2>1, SeqMonotonic
<1>5. items[Start] \in Seq(Keys) /\ stored[Start] \in SUBSET Keys
  BY <1>1 DEF TypeInv
<1>6. Range(items[Start]) \in SUBSET Keys BY <1>5, RangeOfSeq
<1>7. ASSUME WholeContent PROVE Start \in listed
  <2>1. \A i \in 1 .. Len(events) : events[i] \in TreeEvents(Names, Keys, listed)
    BY ElementOfSeq DEF TypeInv
  <2>2. \A i \in 1 .. Len(events) : events[i].type = "content" => events[i].db \in listed
    BY <2>1 DEF TreeEvents
  <2> QED BY <1>1, <1>3, <1>7, <2>2 DEF WholeContent
<1> QED BY <1>1, <1>3, <1>4, <1>5, <1>6, <1>7

\* What is queued behind the first event was queued before.
LEMMA WholeContentBefore ==
  ASSUME NEW E, events \in Seq(E), events # <<>>, events' = Tail(events), WholeContent',
         \/ loaded' = loaded
         \/ loaded' = IF Head(events).type = "content" /\ Head(events).new = 1
                      THEN loaded \cup {Head(events).db} ELSE loaded
  PROVE  WholeContent
<1> DEFINE n == Len(events)
<1>1. /\ n \in Nat /\ n > 0 /\ Len(events') = n - 1 /\ Head(events) = events[1]
      /\ \A i \in 1 .. n - 1 : events'[i] = events[i + 1]
  BY HeadTailProperties, LenProperties, EmptySeq
<1>2. 1 \in 1 .. n /\ \A i \in 1 .. n - 1 : i + 1 \in 1 .. n BY <1>1
<1>3. CASE Start \in loaded BY <1>3 DEF WholeContent
<1>4. CASE Start \in loaded' /\ Start \notin loaded
  <2>1. events[1].type = "content" /\ events[1].new = 1 BY <1>1, <1>4
  <2> QED BY <2>1, <1>2 DEF WholeContent
<1>5. CASE Start \notin loaded'
  <2>1. PICK i \in 1 .. n - 1 : events'[i].type = "content" /\ events'[i].new = 1
    BY <1>1, <1>5 DEF WholeContent
  <2>2. events[i + 1].type = "content" /\ events[i + 1].new = 1 /\ i + 1 \in 1 .. n
    BY <1>1, <1>2, <2>1
  <2> QED BY <2>2 DEF WholeContent
<1> QED BY <1>3, <1>4, <1>5

\* Events about databases leave the keys that are shown.
LEMMA ListStepKeeps ==
  ASSUME NEW A, ListStep
  PROVE  Kept(A, Head(events)) = A
BY DEF ListStep, Kept

\* Every step keeps the stored keys on their way to the tree.
LEMMA LoadStep ==
  ASSUME TypeInv, PlaceInv, LoadInv, [Next]_vars
  PROVE  LoadInv'
<1> DEFINE A == Range(items[Start])
           X == stored[Start]
           New == ShowsAll(Keys, Range(items'[Start]), events', stored'[Start])
<1>1. server' = server /\ slips \subseteq slips'
  BY Steps DEF vars, UserStep, DriverStep, ItemStep, ListStep
<1>2. Stores' = Stores /\ Keys' = Keys /\ Names' = Names BY <1>1, SameServer
<1> SUFFICES ASSUME Stores = {Start}, slips' \cap ({"refused"} \cup Undershown) = {}, WholeContent'
             PROVE  New
  BY <1>2 DEF LoadInv
<1>3. /\ "refused" \notin slips /\ slips \cap ({"refused"} \cup Undershown) = {}
      /\ slips' \cap Undershown = {}
  BY <1>1
<1>4. /\ selected = Start /\ listed \subseteq {Start} /\ Start \in Names
      /\ events \in Seq(Records(Names, Keys))
      /\ \A i \in 1 .. Len(events) : events[i].db = Start
      /\ A \in SUBSET Keys /\ X \in SUBSET Keys
      /\ WholeContent => Start \in listed
  BY <1>3, OnePlace
<1>5. WholeContent => ShowsAll(Keys, A, events, X) BY <1>3 DEF LoadInv
<1>6. CASE UNCHANGED vars
  <2>1. UNCHANGED <<items, events, stored, loaded>> BY <1>6 DEF vars, driverVars, treeVars
  <2>2. WholeContent BY <2>1 DEF WholeContent
  <2> QED BY <2>1, <2>2, <1>5
<1>7. CASE UserStep
  <2>1. UNCHANGED <<items, events, stored, loaded>> BY <1>7 DEF UserStep
  <2>2. WholeContent BY <2>1 DEF WholeContent
  <2> QED BY <2>1, <2>2, <1>5
<1>8. ASSUME NEW es \in Seq(TreeEvents(Names, Keys, listed)), DriverStep(es) PROVE New
  <2> DEFINE E == Records(Names, Keys)
             Y == stored'[Start]
  <2>1. /\ UNCHANGED <<items, loaded>> /\ events' = events \o es
        /\ ShowsAll(Keys, X, es, Y)
        /\ \A i \in 1 .. Len(es) : es[i].type = "content" /\ es[i].new = 1 =>
             es = <<es[i]>> /\ es[i].keys = Y
        /\ stored' \in [Stores -> SUBSET Keys]
    BY <1>8, <1>3, <1>4 DEF DriverStep
  <2>2. es \in Seq(E) BY FormedAreRecords, SeqMonotonic
  <2>3. Y \in SUBSET Keys BY <2>1
  <2>4. CASE WholeContent
    <3>1. ShowsAll(Keys, A, events \o es, Y)
      <4> HIDE DEF A, X, Y, E
      <4> QED BY <2>1, <2>2, <2>3, <2>4, <1>4, <1>5, ShowsAllJoin DEF E
    <3> QED BY <3>1, <2>1
  <2>5. CASE ~WholeContent
    <3>1. PICK j \in 1 .. Len(es) : es[j].type = "content" /\ es[j].new = 1
      <4>1. /\ Len(events) \in Nat /\ Len(es) \in Nat /\ Len(events') = Len(events) + Len(es)
            /\ \A i \in 1 .. Len(events) + Len(es) :
                 events'[i] = IF i <= Len(events) THEN events[i] ELSE es[i - Len(events)]
        BY <2>1, <2>2, <1>4, ConcatProperties, LenProperties
      <4>2. PICK i \in 1 .. Len(events') : events'[i].type = "content" /\ events'[i].new = 1
        BY <2>1, <2>5 DEF WholeContent
      <4>3. ~(i \in 1 .. Len(events)) BY <2>5, <4>1, <4>2 DEF WholeContent
      <4>4. i - Len(events) \in 1 .. Len(es) /\ events'[i] = es[i - Len(events)]
        BY <4>1, <4>2, <4>3
      <4> QED BY <4>2, <4>4
    <3> DEFINE e == es[j]
    <3>2. es = <<e>> /\ e.keys = Y /\ e.type = "content" BY <2>1, <3>1
    <3> HIDE DEF e
    <3>3. Kept({}, e) = Y BY <3>2 DEF Kept
    <3> HIDE DEF Y, A, E
    <3>4. ShowsAll(Keys, {}, <<e>>, Y) BY <2>3, <3>3, ShowsAllOne
    <3>5. ShowsAll(Keys, A, events, {}) BY <1>4, ShowsAllNothing
    <3>6. ShowsAll(Keys, {}, es, Y) BY <3>2, <3>4
    <3>7. ShowsAll(Keys, A, events \o es, Y)
      BY <2>2, <2>3, <3>5, <3>6, <1>4, ShowsAllJoin DEF E
    <3> QED BY <3>7, <2>1 DEF A, Y
  <2> QED BY <2>4, <2>5
<1>9. CASE ItemStep(Head(events))
  <2> DEFINE e == Head(events)
             B == Range(items'[Start])
  <2>1. /\ events # <<>> /\ events' = Tail(events) /\ stored' = stored
        /\ loaded' = IF e.type = "content" /\ e.new = 1 THEN loaded \cup {e.db} ELSE loaded
    BY <1>9 DEF ItemStep
  <2>2. WholeContent BY <2>1, <1>4, WholeContentBefore
  <2>3. e = events[1] /\ 1 \in 1 .. Len(events) BY <1>4, <2>1, EmptySeq
  <2>4. e.db = Start /\ Start \in listed BY <1>4, <2>2, <2>3
  <2>5. PICK s : ItemsBecome(e, Start, s) /\ items' = [items EXCEPT ![Start] = s]
    BY <1>9, <2>4 DEF ItemStep
  <2>6. items'[Start] = s BY <2>5, <1>4 DEF TypeInv
  <2>7. B \in SUBSET Keys /\ Kept(A, e) \subseteq B
    <3>1. s \in Seq(Keys) /\ Kept(A, e) \subseteq Range(s) BY <2>5 DEF ItemsBecome
    <3> QED BY <3>1, <2>6, RangeOfSeq
  <2> HIDE DEF A, B, X
  <2>8. ShowsAll(Keys, B, Tail(events), X)
    BY <2>1, <2>2, <2>7, <1>4, <1>5, ShowsAllTail
  <2> QED BY <2>1, <2>8 DEF B, X
<1>10. CASE ListStep
  <2>1. /\ events # <<>> /\ events' = Tail(events) /\ UNCHANGED <<stored, items, loaded>>
    BY <1>10 DEF ListStep
  <2>2. WholeContent BY <2>1, <1>4, WholeContentBefore
  <2>3. Kept(A, Head(events)) = A BY <1>10, ListStepKeeps
  <2> HIDE DEF A, X
  <2>4. ShowsAll(Keys, A, Tail(events), X)
    BY <2>1, <2>2, <2>3, <1>4, <1>5, ShowsAllTail
  <2> QED BY <2>1, <2>4 DEF A, X
<1> QED BY <1>6, <1>7, <1>8, <1>9, <1>10, Steps

\* Every step keeps other keys off that way.
LEMMA ShowStep ==
  ASSUME TypeInv, PlaceInv, ShowInv, [Next]_vars
  PROVE  ShowInv'
<1> DEFINE A == Range(items[Start])
           X == stored[Start]
           New == /\ IsInjective(items'[Start])
                  /\ ShowsOnly(Keys, Range(items'[Start]), events', stored'[Start])
<1>1. server' = server /\ slips \subseteq slips'
  BY Steps DEF vars, UserStep, DriverStep, ItemStep, ListStep
<1>2. Stores' = Stores /\ Keys' = Keys /\ Names' = Names BY <1>1, SameServer
<1> SUFFICES ASSUME Stores = {Start}, slips' \cap Overshown = {} PROVE New
  BY <1>2 DEF ShowInv
<1>3. "refused" \notin slips /\ slips \cap Overshown = {} BY <1>1 DEF Overshown
<1>4. /\ selected = Start /\ listed \subseteq {Start} /\ Start \in Names
      /\ events \in Seq(Records(Names, Keys))
      /\ \A i \in 1 .. Len(events) : events[i].db = Start
      /\ A \in SUBSET Keys /\ X \in SUBSET Keys
  BY <1>3, OnePlace
<1>5. IsInjective(items[Start]) /\ ShowsOnly(Keys, A, events, X) BY <1>3 DEF ShowInv
<1>6. CASE UNCHANGED vars
  <2>1. UNCHANGED <<items, events, stored>> BY <1>6 DEF vars, driverVars, treeVars
  <2> QED BY <2>1, <1>5
<1>7. CASE UserStep
  <2>1. UNCHANGED <<items, events, stored>> BY <1>7 DEF UserStep
  <2> QED BY <2>1, <1>5
<1>8. ASSUME NEW es \in Seq(TreeEvents(Names, Keys, listed)), DriverStep(es) PROVE New
  <2> DEFINE E == Records(Names, Keys)
             Y == stored'[Start]
  <2>1. /\ items' = items /\ events' = events \o es /\ ShowsOnly(Keys, X, es, Y)
        /\ stored' \in [Stores -> SUBSET Keys]
    BY <1>8, <1>3, <1>4 DEF DriverStep
  <2>2. es \in Seq(E) BY FormedAreRecords, SeqMonotonic
  <2>3. Y \in SUBSET Keys BY <2>1
  <2> HIDE DEF A, X, Y, E
  <2>4. ShowsOnly(Keys, A, events \o es, Y)
    BY <2>1, <2>2, <2>3, <1>4, <1>5, ShowsOnlyJoin DEF E
  <2> QED BY <2>1, <2>4, <1>5 DEF A, Y
<1>9. CASE ItemStep(Head(events))
  <2> DEFINE e == Head(events)
             B == Range(items'[Start])
  <2>1. events # <<>> /\ events' = Tail(events) /\ stored' = stored
    BY <1>9 DEF ItemStep
  <2>2. e = events[1] /\ 1 \in 1 .. Len(events) BY <1>4, <2>1, EmptySeq
  <2>3. e.db = Start BY <1>4, <2>2
  <2>4. B \in SUBSET Keys /\ B \subseteq Kept(A, e) /\ IsInjective(items'[Start])
    <3>1. CASE Start \in listed
      <4>1. PICK s : ItemsBecome(e, Start, s) /\ items' = [items EXCEPT ![Start] = s]
        BY <1>9, <2>3, <3>1 DEF ItemStep
      <4>2. items'[Start] = s BY <4>1, <1>4 DEF TypeInv
      <4>3. s \in Seq(Keys) /\ IsInjective(s) /\ Range(s) \subseteq Kept(A, e)
        BY <4>1, <1>5 DEF ItemsBecome
      <4> QED BY <4>2, <4>3, RangeOfSeq
    <3>2. CASE Start \notin listed
      <4>1. items' = items BY <1>9, <2>3, <3>2 DEF ItemStep
      <4>2. items[Start] = <<>> BY <3>2, <1>4 DEF TypeInv
      <4>3. Range(<<>>) = {} BY DEF Range
      <4> QED BY <4>1, <4>2, <4>3, <1>5
    <3> QED BY <3>1, <3>2
  <2> HIDE DEF A, B, X
  <2>5. ShowsOnly(Keys, B, Tail(events), X)
    BY <2>1, <2>4, <1>4, <1>5, ShowsOnlyTail
  <2> QED BY <2>1, <2>4, <2>5 DEF B, X
<1>10. CASE ListStep
  <2>1. events # <<>> /\ events' = Tail(events) /\ UNCHANGED <<stored, items>>
    BY <1>10 DEF ListStep
  <2>2. Kept(A, Head(events)) = A BY <1>10, ListStepKeeps
  <2> HIDE DEF A, X
  <2>3. ShowsOnly(Keys, A, Tail(events), X)
    BY <2>1, <2>2, <1>4, <1>5, ShowsOnlyTail
  <2> QED BY <2>1, <2>3, <1>5 DEF A, X
<1> QED BY <1>6, <1>7, <1>8, <1>9, <1>10, Steps

\* Both hold at the beginning.
LEMMA ShownStart ==
  ASSUME Init
  PROVE  LoadInv /\ ShowInv
<1>1. server \in Servers /\ events = <<>> /\ Len(events) = 0 /\ loaded = {} BY DEF Init
<1>2. items[Start] = <<>> BY <1>1, ServerFacts DEF Init
<1>3. ~WholeContent BY <1>1 DEF WholeContent
<1>4. ASSUME Stores = {Start} PROVE ShowsOnly(Keys, {}, <<>>, stored[Start])
  <2>1. stored[Start] \in SUBSET Keys BY <1>4 DEF Init
  <2> QED BY <2>1, ShowsOnlyNone
<1>5. Range(<<>>) = {} /\ IsInjective(<<>>) BY DEF Range, IsInjective
<1> QED BY <1>1, <1>2, <1>3, <1>4, <1>5 DEF LoadInv, ShowInv

\* They hold always.
LEMMA ShownAlways == Spec => [](LoadInv /\ ShowInv)
<1>1. TypeInv /\ PlaceInv /\ LoadInv /\ ShowInv /\ [Next]_vars => (LoadInv /\ ShowInv)'
  BY LoadStep, ShowStep
<1> QED BY <1>1, ShownStart, TypeAlways, DefaultsAlways, PTL DEF Spec, DefaultsInv

\* A loaded database shows every stored key once everything queued has been handled,
\* whatever order signals of changes and answers of listings were queued in and however
\* often the connection was closed and opened, unless redis refused a name, a container
\* was created that nobody announced, or a flush left keys and succeeded.
THEOREM NothingMissing == Spec => []StoredShown
<1>1. ASSUME TypeInv, PlaceInv, LoadInv PROVE StoredShown
  <2> SUFFICES ASSUME Drained, Stores = {Start}, slips \cap ({"refused"} \cup Undershown) = {},
                      NEW n \in loaded
               PROVE  stored[selected] \subseteq Range(items[n])
    BY DEF StoredShown, Undershown
  <2>1. /\ selected = Start /\ n = Start
        /\ Range(items[Start]) \in SUBSET Keys /\ stored[Start] \in SUBSET Keys
    BY <1>1, OnePlace DEF TypeInv
  <2>2. ShowsAll(Keys, Range(items[Start]), <<>>, stored[Start])
    BY <1>1, <2>1 DEF LoadInv, WholeContent, Drained
  <2> QED BY <2>1, <2>2, ShowsAllNone
<1> QED BY <1>1, TypeAlways, DefaultsAlways, ShownAlways, PTL DEF DefaultsInv

\* No item shows a key that is not stored and none is shown twice, once everything
\* queued has been handled, unless a rename, a flush or a deletion failed half way, a
\* console flushed the database, a key was renamed to one that is shown as well, or
\* redis refused a name.
THEOREM NothingInvented == Spec => []ShownStored
<1>1. ASSUME TypeInv, PlaceInv, ShowInv PROVE ShownStored
  <2> SUFFICES ASSUME Drained, slips \cap Overshown = {}, Stores = {Start}, NEW n \in listed,
                      NEW i \in DOMAIN items[n], NEW j \in DOMAIN items[n]
               PROVE  /\ items[n][i] \in stored[selected]
                      /\ i # j => items[n][i] # items[n][j]
    BY DEF ShownStored, Overshown
  <2>1. /\ selected = Start /\ n = Start
        /\ Range(items[Start]) \in SUBSET Keys /\ stored[Start] \in SUBSET Keys
    BY <1>1, OnePlace DEF Overshown
  <2>2. IsInjective(items[Start]) /\ ShowsOnly(Keys, Range(items[Start]), <<>>, stored[Start])
    BY <1>1 DEF ShowInv, Drained
  <2>3. Range(items[Start]) \subseteq stored[Start] BY <2>1, <2>2, ShowsOnlyNone
  <2> QED BY <2>1, <2>2, <2>3 DEF Range, IsInjective
<1> QED BY <1>1, TypeAlways, DefaultsAlways, ShownAlways, PTL DEF DefaultsInv
=============================================================================
