-------------------------- MODULE HistoryLogProofs --------------------------
(***************************************************************************)
(* Proofs about HistoryLog for any number of shots, kills and requests and *)
(* infos of any number of lines: what is in the file, what is read back    *)
(* from it, and what the dialog shows in the end.                          *)
(***************************************************************************)
EXTENDS HistoryLog, FiniteSetTheorems, SequenceTheorems, WellFoundedInduction, TLAPS

-----------------------------------------------------------------------------
(* Sets of numbers. *)

\* A nonempty set of numbers has a least one.
LEMMA LeastNumber ==
  ASSUME NEW S \in SUBSET Nat, S # {}
  PROVE  \E n \in S : \A m \in S : n <= m
<1>1. PICK n \in S : \A m \in S : ~(<<m, n>> \in OpToRel(<, Nat))
  BY NatLessThanWellFounded, WFMin, Zenon
<1>2. \A m \in S : ~(m < n) BY <1>1 DEF OpToRel
<1> QED BY <1>2

\* A nonempty set of numbers with a bound has a greatest one.
LEMMA GreatestNumber ==
  ASSUME NEW S \in SUBSET Nat, S # {}, NEW b \in Nat, \A n \in S : n <= b
  PROVE  \E n \in S : \A m \in S : n >= m
<1> DEFINE T == {b - n : n \in S}
<1>1. T \in SUBSET Nat /\ T # {} OBVIOUS
<1> HIDE DEF T
<1>2. PICK d \in T : \A c \in T : d <= c BY <1>1, LeastNumber
<1>3. PICK n \in S : d = b - n BY <1>2 DEF T
<1>4. \A m \in S : d <= b - m BY <1>2 DEF T
<1>5. ASSUME NEW m \in S PROVE n >= m
  <2>1. m \in Nat /\ n \in Nat /\ b - n <= b - m BY <1>3, <1>4
  <2> QED BY <2>1
<1> QED BY <1>5

\* The greatest number of such a set.
LEMMA MaxNumber ==
  ASSUME NEW S \in SUBSET Nat, S # {}, NEW b \in Nat, \A n \in S : n <= b
  PROVE  Max(S) \in S /\ \A n \in S : Max(S) >= n
<1>1. \E n \in S : \A m \in S : n >= m BY GreatestNumber
<1> QED BY <1>1 DEF Max

\* The least number of a set.
LEMMA MinNumber ==
  ASSUME NEW S \in SUBSET Nat, S # {}
  PROVE  Min(S) \in S /\ \A n \in S : Min(S) <= n
<1>1. \E n \in S : \A m \in S : n <= m BY LeastNumber
<1> QED BY <1>1 DEF Min

\* How many numbers of a set are up to e.
UpTo(S, e) == Cardinality({s \in S : s <= e})

\* More numbers are up to a later one, and never more than the set has.
LEMMA UpToGrows ==
  ASSUME NEW S \in SUBSET Nat, IsFiniteSet(S)
  PROVE  /\ \A e \in S : UpTo(S, e) \in 1 .. Cardinality(S)
         /\ \A e, f \in S : e < f => UpTo(S, e) < UpTo(S, f)
<1>1. ASSUME NEW e \in S PROVE UpTo(S, e) \in 1 .. Cardinality(S)
  <2> DEFINE A == {s \in S : s <= e}
  <2>1. A \in SUBSET S /\ e \in A OBVIOUS
  <2> HIDE DEF A
  <2>2. IsFiniteSet(A) /\ Cardinality(A) <= Cardinality(S) BY <2>1, FS_Subset
  <2>3. Cardinality(A) \in Nat /\ Cardinality(S) \in Nat BY <2>2, FS_CardinalityType
  <2>4. Cardinality(A) # 0 BY <2>1, <2>2, FS_EmptySet
  <2>5. Cardinality(A) \in 1 .. Cardinality(S) BY <2>2, <2>3, <2>4
  <2> QED BY <2>5 DEF UpTo, A
<1>2. ASSUME NEW e \in S, NEW f \in S, e < f PROVE UpTo(S, e) < UpTo(S, f)
  <2> DEFINE A == {s \in S : s <= e}
             B == {s \in S : s <= f}
  <2>1. A \in SUBSET B /\ B \in SUBSET S /\ A # B
    <3>1. \A s \in S : s \in Nat OBVIOUS
    <3>2. \A s \in S : s <= e => s <= f BY <1>2, <3>1
    <3>3. f \in B /\ f \notin A BY <1>2, <3>1
    <3> QED BY <3>2, <3>3
  <2> HIDE DEF A, B
  <2>2. IsFiniteSet(B) BY <2>1, FS_Subset
  <2>3. IsFiniteSet(A) /\ Cardinality(A) <= Cardinality(B) /\ Cardinality(A) # Cardinality(B)
    BY <2>1, <2>2, FS_Subset
  <2>4. Cardinality(A) \in Nat /\ Cardinality(B) \in Nat BY <2>2, <2>3, FS_CardinalityType
  <2>5. Cardinality(A) < Cardinality(B) BY <2>3, <2>4
  <2> QED BY <2>5 DEF UpTo, A, B
<1> QED BY <1>1, <1>2

\* Nth counts a finite set of numbers in order.
LEMMA NthNumbers ==
  ASSUME NEW S \in SUBSET Nat, IsFiniteSet(S)
  PROVE  /\ Cardinality(S) \in Nat
         /\ \A k \in 1 .. Cardinality(S) : Nth(S, k) \in S
         /\ \A k, m \in 1 .. Cardinality(S) : k < m => Nth(S, k) < Nth(S, m)
         /\ \A e \in S : \E k \in 1 .. Cardinality(S) : Nth(S, k) = e
<1>0. Cardinality(S) \in Nat BY FS_CardinalityType
<1> DEFINE N == Cardinality(S)
           f == [e \in S |-> UpTo(S, e)]
<1>1. \A e, g \in S : UpTo(S, e) = UpTo(S, g) => e = g
  <2>1. \A e, g \in S : e < g \/ g < e \/ e = g OBVIOUS
  <2>2. \A e \in S : UpTo(S, e) \in Int BY UpToGrows
  <2>3. \A e, g \in S : e < g => UpTo(S, e) < UpTo(S, g) BY UpToGrows
  <2> QED BY <2>1, <2>2, <2>3
<1>2. f \in [S -> 1 .. N] BY UpToGrows
<1>3. f \in Injection(S, 1 .. N)
  <2>1. \A a, b \in S : f[a] = f[b] => a = b BY <1>1
  <2> QED BY <1>2, <2>1 DEF Injection, IsInjective
<1>4. IsFiniteSet(1 .. N) /\ Cardinality(1 .. N) = N
  <2> HIDE DEF N
  <2>1. N \in Nat BY <1>0 DEF N
  <2>2. IsFiniteSet(1 .. N) /\ Cardinality(1 .. N) = IF 1 > N THEN 0 ELSE N - 1 + 1
    BY <2>1, FS_Interval
  <2> QED BY <2>1, <2>2
<1>5. f \in Surjection(S, 1 .. N) BY <1>3, <1>4, FS_Injection
<1>6. \A k \in 1 .. N : \E e \in S : UpTo(S, e) = k BY <1>5 DEF Surjection
<1>7. \A k \in 1 .. N : Nth(S, k) \in S /\ UpTo(S, Nth(S, k)) = k
  BY <1>6 DEF Nth, UpTo
<1>8. ASSUME NEW k \in 1 .. N, NEW m \in 1 .. N, k < m PROVE Nth(S, k) < Nth(S, m)
  <2>1. PICK a \in S, b \in S : a = Nth(S, k) /\ b = Nth(S, m) /\ UpTo(S, a) = k /\ UpTo(S, b) = m
    BY <1>7
  <2>2. ~ (b < a)
    <3>1. b < a => m < k BY <2>1, UpToGrows
    <3> QED BY <1>8, <3>1
  <2>3. a # b BY <1>8, <2>1
  <2>4. a \in Nat /\ b \in Nat OBVIOUS
  <2>5. a < b BY <2>2, <2>3, <2>4
  <2> QED BY <2>1, <2>5
<1>9. ASSUME NEW e \in S PROVE \E k \in 1 .. N : Nth(S, k) = e
  <2>1. PICK k \in 1 .. N : k = UpTo(S, e) BY UpToGrows
  <2> QED BY <1>1, <1>7, <2>1
<1> QED BY <1>0, <1>7, <1>8, <1>9

-----------------------------------------------------------------------------
(* What is written. *)

\* The pieces of a shot.
LEMMA PiecesShape ==
  ASSUME NEW n \in 1 .. MaxShots
  PROVE  /\ Pieces(n) \in Seq(Piece) /\ Len(Pieces(n)) = InfoLines + 1
         /\ \A i \in 1 .. InfoLines + 1 :
              Pieces(n)[i] = [shot |-> n, line |-> i - 1, whole |-> TRUE]
<1>1. InfoLines \in Nat /\ InfoLines # 0 BY ConstantsAssumption
<1>2. \A i \in 1 .. InfoLines + 1 : [shot |-> n, line |-> i - 1, whole |-> TRUE] \in Piece
  BY <1>1 DEF Piece
<1> QED BY <1>1, <1>2 DEF Pieces

\* What a kill leaves of a shot are its first pieces, the last perhaps cut.
LEMMA CutsShape ==
  ASSUME NEW n \in 1 .. MaxShots, NEW ps \in Cuts(n)
  PROVE  /\ ps \in Seq(Piece)
         /\ \A i \in DOMAIN ps : ps[i].shot = n /\ ps[i].line = i - 1
<1>1. InfoLines \in Nat /\ InfoLines # 0 BY ConstantsAssumption
<1> DEFINE all == Pieces(n)
<1>2. /\ all \in Seq(Piece) /\ Len(all) = InfoLines + 1
      /\ \A i \in 1 .. InfoLines + 1 : all[i] = [shot |-> n, line |-> i - 1, whole |-> TRUE]
  BY PiecesShape
<1>3. ASSUME NEW k \in 0 .. InfoLines
      PROVE  LET part == SubSeq(all, 1, k)
             IN /\ part \in Seq(Piece) /\ Len(part) = k
                /\ \A i \in 1 .. k : part[i].shot = n /\ part[i].line = i - 1
  <2> HIDE DEF all
  <2>1. 1 .. k \subseteq 1 .. InfoLines + 1 BY <1>1
  <2>2. SubSeq(all, 1, k) = [i \in 1 .. k |-> all[i]] BY <1>1, <1>2, <2>1
  <2>3. \A i \in 1 .. k : all[i] \in Piece /\ all[i].shot = n /\ all[i].line = i - 1
    BY <1>1, <1>2, <2>1
  <2> QED BY <1>1, <2>2, <2>3
<1>4. PICK k \in 0 .. InfoLines :
        \/ ps = SubSeq(all, 1, k)
        \/ ps = Append(SubSeq(all, 1, k), [shot |-> n, line |-> k, whole |-> FALSE])
  BY DEF Cuts
<1> HIDE DEF all
<1>5. CASE ps = SubSeq(all, 1, k) BY <1>3, <1>5
<1>6. CASE ps = Append(SubSeq(all, 1, k), [shot |-> n, line |-> k, whole |-> FALSE])
  <2>1. PICK part : part = SubSeq(all, 1, k) OBVIOUS
  <2>2. /\ part \in Seq(Piece) /\ Len(part) = k
        /\ \A i \in 1 .. k : part[i].shot = n /\ part[i].line = i - 1
    BY <1>3, <2>1
  <2>3. PICK cut \in Piece : cut = [shot |-> n, line |-> k, whole |-> FALSE] BY DEF Piece
  <2>4. ps = Append(part, cut) BY <1>6, <2>1, <2>3
  <2>5. ps \in Seq(Piece) /\ Len(ps) = k + 1 BY <1>1, <2>2, <2>4
  <2>6. ASSUME NEW i \in DOMAIN ps PROVE ps[i].shot = n /\ ps[i].line = i - 1
    <3>1. i \in 1 .. k + 1 BY <2>5
    <3>2. CASE i = k + 1
      <4>1. ps[i] = cut BY <2>2, <2>4, <3>2
      <4> QED BY <2>3, <3>2, <4>1
    <3>3. CASE i # k + 1
      <4>1. i \in 1 .. k BY <3>1, <3>3
      <4>2. ps[i] = part[i] BY <2>2, <2>4, <4>1
      <4> QED BY <2>2, <4>1, <4>2
    <3> QED BY <3>2, <3>3
  <2> QED BY <2>5, <2>6
<1> QED BY <1>4, <1>5, <1>6

-----------------------------------------------------------------------------
(* What is read. *)

\* The ends of the lines.
LEMMA EndsInside ==
  ASSUME file \in Seq(Piece)
  PROVE  Ends \in SUBSET (1 .. Len(file)) /\ Ends \in SUBSET Nat /\ Len(file) \in Nat
BY DEF Ends

\* A line begins after the end of the one before it.
LEMMA LineBegins ==
  ASSUME file \in Seq(Piece), NEW e \in Ends
  PROVE  /\ LineBegin(e) \in 1 .. e
         /\ \A i \in Ends : i < e => i < LineBegin(e)
         /\ e = 1 \/ e - 1 \in Ends => LineBegin(e) = e
<1>1. e \in 1 .. Len(file) /\ Len(file) \in Nat BY EndsInside
<1>2. PICK S : S = {0} \cup {i \in Ends : i < e} OBVIOUS
<1>3. S \in SUBSET Nat /\ S # {} /\ \A i \in S : i <= e - 1
  <2>1. e \in Nat /\ e >= 1 BY <1>1
  <2>2. \A i \in Ends : i \in Nat BY EndsInside
  <2>3. \A i \in Ends : i < e => i <= e - 1 BY <2>1, <2>2
  <2>4. \A i \in S : i = 0 \/ (i \in Ends /\ i < e) BY <1>2
  <2>5. 0 \in S BY <1>2
  <2>6. \A i \in S : i \in Nat BY <2>2, <2>4
  <2>7. ASSUME NEW i \in S PROVE i <= e - 1
    <3>1. CASE i = 0 BY <2>1, <3>1
    <3>2. CASE i \in Ends /\ i < e BY <2>3, <3>2
    <3> QED BY <2>4, <3>1, <3>2
  <2> QED BY <2>5, <2>6, <2>7
<1>4. Max(S) \in S /\ \A i \in S : Max(S) >= i
  <2>1. e - 1 \in Nat BY <1>1
  <2> QED BY <1>3, <2>1, MaxNumber
<1>5. PICK m : m = Max(S) OBVIOUS
<1>6. LineBegin(e) = m + 1 BY <1>2, <1>5 DEF LineBegin
<1>7. m \in Nat /\ m <= e - 1 BY <1>3, <1>4, <1>5
<1>8. \A i \in Ends : i < e => i < m + 1
  <2>1. \A i \in Ends : i \in Nat /\ (i < e => i <= m) BY <1>2, <1>4, <1>5, EndsInside, <1>7
  <2> QED BY <1>7, <2>1
<1>9. e = 1 \/ e - 1 \in Ends => m + 1 = e BY <1>1, <1>7, <1>8
<1> QED BY <1>1, <1>6, <1>7, <1>8, <1>9

\* Stamps are lines.
LEMMA StampsInside ==
  ASSUME file \in Seq(Piece), NEW misread
  PROVE  /\ Stamps(misread) \in SUBSET Ends /\ Stamps(misread) \in SUBSET Nat
         /\ IsFiniteSet(Stamps(misread))
<1>1. Stamps(misread) \in SUBSET Ends BY DEF Stamps
<1>2. IsFiniteSet(1 .. Len(file)) BY EndsInside, FS_Interval
<1>3. Stamps(misread) \in SUBSET (1 .. Len(file)) BY <1>1, EndsInside
<1> QED BY <1>1, <1>2, <1>3, EndsInside, FS_Subset

\* The time of a stamp: that of the piece, or none.
LEMMA StampCases ==
  ASSUME file \in Seq(Piece), NEW misread \in SUBSET Glued, NEW e \in Stamps(misread)
  PROVE  \/ Stamp(e, misread) = Garbled
         \/ /\ Stamp(e, misread) = file[e].shot /\ file[e].line = 0 /\ LineBegin(e) = e
            /\ file[e] \in Piece
<1>1. e \in Ends /\ Stamp(e, misread) # 0 BY DEF Stamps
<1>2. file[e] \in Piece BY <1>1, EndsInside
<1> QED BY <1>1, <1>2 DEF Stamp

\* Where the info of a shot ends.
InfoEnd(e, misread) ==
  LET next == {s \in Stamps(misread) : s > e}
  IN IF next = {} THEN Max(Ends) ELSE LineBegin(Min(next)) - 1

\* It ends in the file, after the stamp and before the next one.
LEMMA InfoEnds ==
  ASSUME file \in Seq(Piece), NEW misread, NEW e \in Stamps(misread)
  PROVE  /\ InfoEnd(e, misread) \in e .. Len(file)
         /\ \/ /\ ~ \E s \in Stamps(misread) : s > e
               /\ InfoEnd(e, misread) \in Ends /\ \A i \in Ends : i <= InfoEnd(e, misread)
            \/ \E s \in Stamps(misread) :
                 /\ s > e /\ InfoEnd(e, misread) = LineBegin(s) - 1
                 /\ \A r \in Stamps(misread) : r > e => s <= r
<1>1. e \in Ends /\ e \in 1 .. Len(file) /\ Len(file) \in Nat BY StampsInside, EndsInside
<1>2. PICK next : next = {s \in Stamps(misread) : s > e} OBVIOUS
<1>3. InfoEnd(e, misread) = IF next = {} THEN Max(Ends) ELSE LineBegin(Min(next)) - 1
  BY <1>2 DEF InfoEnd
<1>4. CASE next = {}
  <2>1. PICK S : S = Ends OBVIOUS
  <2>2. Max(S) \in S /\ \A i \in S : Max(S) >= i
    <3>1. S \in SUBSET Nat /\ S # {} /\ \A i \in S : i <= Len(file) BY <1>1, <2>1, EndsInside
    <3>2. PICK b \in Nat : b = Len(file) BY <1>1
    <3> QED BY <3>1, <3>2, MaxNumber
  <2>3. InfoEnd(e, misread) = Max(S) BY <1>3, <1>4, <2>1
  <2>4. PICK m : m = Max(S) OBVIOUS
  <2>5. m \in Ends /\ m \in 1 .. Len(file) /\ \A i \in Ends : i \in Nat /\ m >= i
    BY <2>1, <2>2, <2>4, EndsInside
  <2>6. m \in e .. Len(file) /\ \A i \in Ends : i <= m BY <1>1, <2>5
  <2> QED BY <1>2, <1>4, <2>3, <2>4, <2>5, <2>6
<1>5. CASE next # {}
  <2>1. next \in SUBSET Nat BY <1>2, StampsInside
  <2>2. PICK s : s = Min(next) OBVIOUS
  <2>3. s \in next /\ \A r \in next : s <= r BY <1>5, <2>1, <2>2, MinNumber
  <2>4. s \in Stamps(misread) /\ s > e /\ \A r \in Stamps(misread) : r > e => s <= r
    BY <1>2, <2>3
  <2>5. s \in Ends /\ s \in 1 .. Len(file) BY <2>4, StampsInside, EndsInside
  <2>6. LineBegin(s) \in 1 .. s /\ e < LineBegin(s) BY <1>1, <2>4, <2>5, LineBegins
  <2>7. InfoEnd(e, misread) = LineBegin(s) - 1 BY <1>3, <1>5, <2>2
  <2>8. LineBegin(s) - 1 \in e .. Len(file) BY <1>1, <2>5, <2>6
  <2> QED BY <2>4, <2>7, <2>8
<1> QED BY <1>4, <1>5

\* The shot at a stamp.
LEMMA ShotAtIs ==
  ASSUME NEW misread, NEW e
  PROVE  ShotAt(e, misread)
           = [stamp |-> Stamp(e, misread), data |-> SubSeq(file, e + 1, InfoEnd(e, misread)),
              live |-> FALSE]
BY DEF ShotAt, InfoEnd, Shot

\* It is a shot.
LEMMA ShotAtType ==
  ASSUME file \in Seq(Piece), NEW misread \in SUBSET Glued, NEW e \in Stamps(misread)
  PROVE  ShotAt(e, misread) \in Shots
<1>1. Stamp(e, misread) \in {Garbled} \cup 1 .. MaxShots BY StampCases DEF Piece
<1>2. PICK last : last = InfoEnd(e, misread) OBVIOUS
<1>3. last \in e .. Len(file) /\ e \in 1 .. Len(file) /\ Len(file) \in Nat
  BY <1>2, InfoEnds, StampsInside, EndsInside
<1>4. SubSeq(file, e + 1, last) \in Seq(Piece) BY <1>3
<1> QED BY <1>1, <1>2, <1>4, ShotAtIs DEF Shots

\* The history read from the file: a shot for each stamp, in order.
LEMMA ParsedIs ==
  ASSUME file \in Seq(Piece), NEW misread \in SUBSET Glued
  PROVE  /\ Parsed(misread) \in Seq(Shots)
         /\ \A k \in DOMAIN Parsed(misread) :
              /\ Nth(Stamps(misread), k) \in Stamps(misread)
              /\ Parsed(misread)[k] = ShotAt(Nth(Stamps(misread), k), misread)
         /\ \A k, m \in DOMAIN Parsed(misread) :
              k < m => Nth(Stamps(misread), k) < Nth(Stamps(misread), m)
         /\ \A e \in Stamps(misread) : \E k \in DOMAIN Parsed(misread) :
              Nth(Stamps(misread), k) = e
<1>1. PICK S : S = Stamps(misread) OBVIOUS
<1>2. S \in SUBSET Nat /\ IsFiniteSet(S) BY <1>1, StampsInside
<1>3. /\ Cardinality(S) \in Nat
      /\ \A k \in 1 .. Cardinality(S) : Nth(S, k) \in S
      /\ \A k, m \in 1 .. Cardinality(S) : k < m => Nth(S, k) < Nth(S, m)
      /\ \A e \in S : \E k \in 1 .. Cardinality(S) : Nth(S, k) = e
  BY <1>2, NthNumbers
<1>4. Parsed(misread) = [k \in 1 .. Cardinality(S) |-> ShotAt(Nth(S, k), misread)]
  BY <1>1 DEF Parsed
<1>5. \A k \in 1 .. Cardinality(S) : ShotAt(Nth(S, k), misread) \in Shots
  BY <1>1, <1>3, ShotAtType
<1>6. Parsed(misread) \in Seq(Shots) BY <1>3, <1>4, <1>5
<1>7. DOMAIN Parsed(misread) = 1 .. Cardinality(S) BY <1>4
<1> QED BY <1>1, <1>3, <1>4, <1>6, <1>7

-----------------------------------------------------------------------------
(* Types. *)

\* What the driver reports.
Event == [is : {"shot"}, shot : Shots] \cup [is : {"history"}, infos : Seq(Shots)]
         \cup [is : {"cleared", "not found"}]

TypeInv == TypeOK /\ events \in Seq(Event)

\* Nothing is a sequence of anything.
LEMMA Nothing ==
  <<>> \in Seq(Piece) /\ <<>> \in Seq(Shots) /\ <<>> \in Seq(Event) /\ <<>> \in Seq({"load", "clear"})
OBVIOUS

\* Nothing is there in the beginning.
LEMMA InitType == Init => TypeInv
<1> SUFFICES ASSUME Init PROVE TypeInv OBVIOUS
<1>1. MaxShots \in Nat /\ MaxKills \in Nat /\ MaxRequests \in Nat BY ConstantsAssumption
<1>2. shots \in 0 .. MaxShots /\ kills \in 0 .. MaxKills /\ requests \in 0 .. MaxRequests
  BY <1>1 DEF Init
<1> QED BY <1>2, Nothing, Zenon DEF Init, TypeInv, TypeOK

\* Writing to the file.
LEMMA WrittenType ==
  ASSUME file \in Seq(Piece), NEW ps \in Seq(Piece), Written(ps)
  PROVE  file' \in Seq(Piece) /\ exists' \in BOOLEAN
<1>1. file' \in Seq(Piece) BY DEF Written
<1>2. exists' \in BOOLEAN BY DEF Written
<1> QED BY <1>1, <1>2

\* What the dialog makes of a report.
LEMMA ReportInfos ==
  ASSUME Report, events \in Seq(Event)
  PROVE  LET event == Head(events)
         IN /\ event \in Event
            /\ \/ (~dialog \/ event.is \in {"cleared", "not found"}) /\ infos' = infos
               \/ dialog /\ event.is = "shot" /\ infos' = Append(infos, event.shot)
               \/ dialog /\ event.is = "history" /\ infos' = event.infos
<1>1. PICK event : event = Head(events) OBVIOUS
<1>2. event \in Event
  <2>1. events # <<>> BY DEF Report
  <2>2. Head(events) \in Event BY <2>1
  <2> QED BY <1>1, <2>2
<1>3. event.is \in {"shot", "history", "cleared", "not found"} BY <1>2 DEF Event
<1>4. infos' = CASE dialog /\ event.is = "shot"    -> Append(infos, event.shot)
                 [] dialog /\ event.is = "history" -> event.infos
                 [] OTHER                          -> infos
  BY <1>1, Zenon DEF Report
<1>5. CASE ~dialog
  <2>1. infos' = infos BY <1>4, <1>5
  <2> QED BY <1>1, <1>2, <1>5, <2>1
<1>6. CASE dialog /\ event.is = "shot"
  <2>1. infos' = Append(infos, event.shot) BY <1>4, <1>6
  <2> QED BY <1>1, <1>2, <1>6, <2>1
<1>7. CASE dialog /\ event.is = "history"
  <2>1. infos' = event.infos BY <1>4, <1>7
  <2> QED BY <1>1, <1>2, <1>7, <2>1
<1>8. CASE dialog /\ event.is \in {"cleared", "not found"}
  <2>1. infos' = infos BY <1>4, <1>8
  <2> QED BY <1>1, <1>2, <1>8, <2>1
<1> QED BY <1>3, <1>5, <1>6, <1>7, <1>8

\* When it has missed the file.
LEMMA ReportMissed ==
  ASSUME Report
  PROVE  \/ dialog /\ Head(events).is = "history" /\ missed' = FALSE
         \/ dialog /\ Head(events).is = "not found" /\ missed' = (infos # <<>>)
         \/ /\ ~ (dialog /\ Head(events).is \in {"history", "not found"})
            /\ missed' = missed
<1>1. PICK event : event = Head(events) OBVIOUS
<1>2. missed' = CASE dialog /\ event.is = "history"   -> FALSE
                  [] dialog /\ event.is = "not found" -> infos # <<>>
                  [] OTHER                            -> missed
  BY <1>1, Zenon DEF Report
<1>3. CASE dialog /\ event.is = "history" BY <1>1, <1>2, <1>3
<1>4. CASE dialog /\ event.is = "not found"
  <2>1. missed' = (infos # <<>>) BY <1>2, <1>4
  <2> QED BY <1>1, <1>4, <2>1
<1>5. CASE ~ (dialog /\ event.is \in {"history", "not found"})
  <2>1. missed' = missed BY <1>2, <1>5
  <2> QED BY <1>1, <1>5, <2>1
<1> QED BY <1>3, <1>4, <1>5

\* Every step keeps the types.
LEMMA NextType == TypeInv /\ [Next]_vars => TypeInv'
<1> SUFFICES ASSUME TypeInv, [Next]_vars PROVE TypeInv' OBVIOUS
<1>0. MaxShots \in Nat /\ MaxKills \in Nat /\ MaxRequests \in Nat BY ConstantsAssumption
<1>1. CASE TimerEvent
  <2>1. shots + 1 \in 1 .. MaxShots /\ shots' = shots + 1 BY <1>0, <1>1 DEF TimerEvent, TypeInv, TypeOK
  <2>2. PICK n \in 1 .. MaxShots : n = shots' /\ n = shots + 1 BY <2>1
  <2>3. file' \in Seq(Piece) /\ exists' \in BOOLEAN
    <3>1. Written(Pieces(n)) BY <1>1, <2>2 DEF TimerEvent
    <3> QED BY <3>1, PiecesShape, WrittenType DEF TypeInv, TypeOK
  <2>4. events' \in Seq(Event)
    <3>1. PICK event : event = [is |-> "shot", shot |-> [stamp |-> n, data |-> <<>>, live |-> TRUE]]
      OBVIOUS
    <3>2. [stamp |-> n, data |-> <<>>, live |-> TRUE] \in Shots BY Nothing DEF Shots
    <3>3. event \in Event BY <3>1, <3>2 DEF Event
    <3>4. events' = Append(events, event) BY <1>1, <2>2, <3>1 DEF TimerEvent, Shot
    <3> QED BY <3>3, <3>4 DEF TypeInv
  <2>5. kept' \subseteq 1 .. shots' /\ torn' \subseteq kept'
    BY <1>1, <2>1 DEF TimerEvent, TypeInv, TypeOK
  <2>6. shots' \in 0 .. MaxShots BY <2>1
  <2>7. /\ UNCHANGED <<running, kills, requests, asked, dialog, infos, missed>> /\ opened' = TRUE
    BY <1>1 DEF TimerEvent, dialogVars
  <2> QED BY <2>3, <2>4, <2>5, <2>6, <2>7 DEF TypeInv, TypeOK
<1>2. CASE TimerOpens
  <2>1. PICK ps \in Seq(Piece) : ps = <<>> BY Nothing
  <2>2. file' \in Seq(Piece) /\ exists' \in BOOLEAN
    BY <1>2, <2>1, WrittenType DEF TimerOpens, TypeInv, TypeOK
  <2>3. /\ UNCHANGED <<running, shots, kept, torn, kills, requests, asked, events, dialog, infos, missed>>
        /\ opened' = TRUE
    BY <1>2 DEF TimerOpens, dialogVars, shotVars
  <2> QED BY <2>2, <2>3 DEF TypeInv, TypeOK
<1>3. CASE Killed
  <2>1. /\ shots + 1 \in 1 .. MaxShots /\ shots' = shots + 1
        /\ kills' \in 0 .. MaxKills
    BY <1>0, <1>3 DEF Killed, TypeInv, TypeOK
  <2>2. PICK n \in 1 .. MaxShots : n = shots' /\ n = shots + 1 BY <2>1
  <2>3. file' \in Seq(Piece) /\ exists' \in BOOLEAN
    <3>1. PICK ps \in Cuts(n) : Written(ps) BY <1>3, <2>2 DEF Killed
    <3> QED BY <3>1, CutsShape, WrittenType DEF TypeInv, TypeOK
  <2>4. kept' \subseteq 1 .. shots' /\ torn' \subseteq kept'
    BY <1>3, <2>1 DEF Killed, TypeInv, TypeOK
  <2>5. shots' \in 0 .. MaxShots BY <2>1
  <2>6. /\ running' = FALSE /\ opened' = FALSE /\ asked' = <<>> /\ events' = <<>>
        /\ dialog' = FALSE /\ infos' = <<>> /\ missed' = FALSE /\ requests' = requests
    BY <1>3 DEF Killed
  <2> QED BY <2>1, <2>3, <2>4, <2>5, <2>6, Nothing DEF TypeInv, TypeOK
<1>4. CASE Restart
  BY <1>4 DEF Restart, fileVars, shotVars, dialogVars, TypeInv, TypeOK
<1>5. CASE ClearServerHistory
  <2>1. /\ asked' = Tail(asked) /\ asked # <<>>
        /\ UNCHANGED <<running, opened, shots, kills, requests, dialog, infos, missed>>
    BY <1>5 DEF ClearServerHistory, dialogVars
  <2>2. asked' \in Seq({"load", "clear"}) BY <2>1 DEF TypeInv, TypeOK
  <2>3. CASE Clears /\ kept' = {} /\ torn' = {} /\ events' = Append(events, [is |-> "cleared"])
    <3>1. [is |-> "cleared"] \in Event BY DEF Event
    <3>2. events' \in Seq(Event) BY <2>3, <3>1 DEF TypeInv
    <3>3. exists' \in BOOLEAN /\ file' \in Seq(Piece) BY <2>3 DEF Clears, TypeInv, TypeOK
    <3> QED BY <2>1, <2>2, <2>3, <3>2, <3>3 DEF TypeInv, TypeOK
  <2>4. CASE UNCHANGED <<exists, file, kept, torn, events>>
    BY <2>1, <2>2, <2>4 DEF TypeInv, TypeOK
  <2> QED BY <1>5, <2>3, <2>4 DEF ClearServerHistory
<1>6. CASE LoadServerInfoHistory
  <2>1. /\ asked' = Tail(asked) /\ asked # <<>>
        /\ UNCHANGED <<running, opened, exists, file, shots, kept, torn, kills, requests,
                       dialog, infos, missed>>
    BY <1>6 DEF LoadServerInfoHistory, fileVars, shotVars, dialogVars
  <2>2. asked' \in Seq({"load", "clear"}) BY <2>1 DEF TypeInv, TypeOK
  <2>3. PICK misread \in SUBSET Glued :
          events' = Append(events, IF exists THEN [is |-> "history", infos |-> Parsed(misread)]
                                             ELSE [is |-> "not found"])
    BY <1>6 DEF LoadServerInfoHistory
  <2>4. Parsed(misread) \in Seq(Shots) BY ParsedIs DEF TypeInv, TypeOK
  <2>5. PICK history \in Seq(Shots) : history = Parsed(misread) BY <2>4
  <2>6. PICK event : event = IF exists THEN [is |-> "history", infos |-> history]
                                       ELSE [is |-> "not found"]
    OBVIOUS
  <2>7. event \in Event BY <2>6 DEF Event
  <2>8. events' = Append(events, event) BY <2>3, <2>5, <2>6, Zenon
  <2>9. events' \in Seq(Event) BY <2>7, <2>8 DEF TypeInv
  <2> QED BY <2>1, <2>2, <2>9 DEF TypeInv, TypeOK
<1>7. CASE ShowDialog
  <2>1. asked' \in Seq({"load", "clear"}) BY <1>7 DEF ShowDialog, TypeInv, TypeOK
  <2>2. requests' \in 0 .. MaxRequests BY <1>0, <1>7 DEF ShowDialog, TypeInv, TypeOK
  <2> QED BY <1>7, <2>1, <2>2, Nothing DEF ShowDialog, fileVars, shotVars, TypeInv, TypeOK
<1>8. CASE CloseDialog
  BY <1>8, Nothing DEF CloseDialog, fileVars, shotVars, TypeInv, TypeOK
<1>9. CASE ClearHistory
  <2>1. asked' \in Seq({"load", "clear"}) BY <1>9 DEF ClearHistory, TypeInv, TypeOK
  <2>2. requests' \in 0 .. MaxRequests BY <1>0, <1>9 DEF ClearHistory, TypeInv, TypeOK
  <2> QED BY <1>9, <2>1, <2>2 DEF ClearHistory, fileVars, shotVars, dialogVars, TypeInv, TypeOK
<1>10. CASE Report
  <2>1. /\ events # <<>> /\ events' = Tail(events)
        /\ UNCHANGED <<running, opened, exists, file, shots, kept, torn, kills, requests, dialog>>
    BY <1>10 DEF Report, fileVars, shotVars
  <2>2. PICK event \in Event : event = Head(events) BY <2>1 DEF TypeInv
  <2>3. \/ /\ ~dialog \/ event.is \in {"cleared", "not found"}
           /\ infos' = infos
        \/ dialog /\ event.is = "shot" /\ infos' = Append(infos, event.shot)
        \/ dialog /\ event.is = "history" /\ infos' = event.infos
    BY <1>10, <2>2, ReportInfos DEF TypeInv
  <2>4. infos' \in Seq(Shots)
    <3>1. event.is = "shot" => event.shot \in Shots BY <2>2 DEF Event
    <3>2. event.is = "history" => event.infos \in Seq(Shots) BY <2>2 DEF Event
    <3>3. infos \in Seq(Shots) BY DEF TypeInv, TypeOK
    <3>4. \A shot \in Shots : Append(infos, shot) \in Seq(Shots) BY <3>3
    <3> QED BY <2>3, <3>1, <3>2, <3>3, <3>4
  <2>5. missed' \in BOOLEAN BY <1>10, ReportMissed DEF TypeInv, TypeOK
  <2>6. asked' \in Seq({"load", "clear"})
    <3>1. asked' = asked \/ asked' = Append(asked, "load") BY <1>10 DEF Report
    <3>2. asked \in Seq({"load", "clear"}) BY DEF TypeInv, TypeOK
    <3>3. Append(asked, "load") \in Seq({"load", "clear"}) BY <3>2
    <3> QED BY <3>1, <3>2, <3>3
  <2>7. events' \in Seq(Event) BY <2>1 DEF TypeInv
  <2> QED BY <2>1, <2>4, <2>5, <2>6, <2>7 DEF TypeInv, TypeOK
<1>11. CASE UNCHANGED vars
  BY <1>11 DEF vars, fileVars, shotVars, dialogVars, TypeInv, TypeOK
<1> QED BY <1>1, <1>2, <1>3, <1>4, <1>5, <1>6, <1>7, <1>8, <1>9, <1>10, <1>11 DEF Next

\* The types always hold, with those of the reports.
LEMMA TypeAlways == Spec => []TypeInv
BY InitType, NextType, PTL DEF Spec

\* The shots the dialog shows are shots: each has the stamp of a shot that was taken, or
\* that of a garbled line, and lines of the file; and all other variables have their types.
THEOREM HistoryTypes == Spec => []TypeOK
<1>1. TypeInv => TypeOK BY DEF TypeInv
<1> QED BY <1>1, TypeAlways, PTL

-----------------------------------------------------------------------------
(* The inductive invariant. *)

\* The shots kept are the latest ones; an open file is there, and a file that is not
\* there has lost nothing.
KeptInv ==
  /\ \A n \in kept : n .. shots \subseteq kept
  /\ opened => exists
  /\ ~ exists => kept = {}

\* Pieces are ordered by shots and lines.
InOrder(ps) ==
  \A i, j \in DOMAIN ps : i < j =>
    \/ ps[i].shot < ps[j].shot
    \/ ps[i].shot = ps[j].shot /\ ps[i].line < ps[j].line

\* The file has pieces of the shots kept, in order.
OrderInv == (\A i \in DOMAIN file : file[i].shot \in kept) /\ InOrder(file)

\* All of shot n is in the file from e on; unless its neighbours are torn, a line begins
\* with it, and the next shot or the end of the file follows.
WrittenAt(n, e) ==
  /\ \A k \in 0 .. InfoLines :
       e + k \in DOMAIN file /\ file[e + k] = [shot |-> n, line |-> k, whole |-> TRUE]
  /\ n - 1 \notin torn => e = 1 \/ (e - 1 \in DOMAIN file /\ file[e - 1].whole)
  /\ n + 1 \notin torn =>
       IF n = shots THEN e + InfoLines = Len(file)
       ELSE /\ e + InfoLines + 1 \in DOMAIN file
            /\ file[e + InfoLines + 1] = [shot |-> n + 1, line |-> 0, whole |-> TRUE]

FileInv == KeptInv /\ OrderInv /\ \A n \in kept \ torn : \E e \in DOMAIN file : WrittenAt(n, e)

\* A shot that is reported was taken after everything in a history.
Later(history, event) ==
  event.is = "shot" => \A k \in DOMAIN history : history[k].stamp < event.shot.stamp

\* Reports to a dialog that shows a history, after so many shots: the shots in order, and
\* later than what the dialog has and what the reports before them bring.
Reported(es, history, taken) ==
  /\ \A k \in DOMAIN history : history[k].stamp <= taken
  /\ \A j \in DOMAIN es :
       /\ Later(history, es[j])
       /\ es[j].is = "shot" => es[j].shot.live /\ es[j].shot.stamp <= taken
       /\ es[j].is = "history" => \A k \in DOMAIN es[j].infos : es[j].infos[k].stamp <= taken
  /\ \A i, j \in DOMAIN es : i < j =>
       /\ es[i].is = "shot" /\ es[j].is = "shot" => es[i].shot.stamp < es[j].shot.stamp
       /\ es[i].is = "history" => Later(es[i].infos, es[j])

EventsInv == (~ dialog => infos = <<>>) /\ Reported(events, infos, shots)

\* The dialog is going to load the history.
Pending == \/ \E i \in DOMAIN asked : asked[i] = "load"
           \/ \E j \in DOMAIN events : events[j].is = "cleared"

\* An answer to a load.
IsAnswer(event) == event.is \in {"history", "not found"}

\* The last answer that is reported, or 0.
LastAnswer(es, h) ==
  /\ h = 0 \/ (h \in DOMAIN es /\ IsAnswer(es[h]))
  /\ \A j \in DOMAIN es : IsAnswer(es[j]) => j <= h

\* What a dialog that shows a history will show once it has seen report h, an answer.
Base(es, history, h) ==
  IF h = 0 THEN history ELSE IF es[h].is = "history" THEN es[h].infos ELSE <<>>

\* A history and the shots reported after h are what is to be shown: each shot of sound,
\* in order and with its info, and nothing but shots of held.
Covers(history, es, h, sound, held) ==
  /\ \A n \in sound :
       \/ \E i \in DOMAIN history : history[i].stamp = n
       \/ \E j \in DOMAIN es : j > h /\ es[j].is = "shot" /\ es[j].shot.stamp = n
  /\ \A i, j \in DOMAIN history :
       i < j /\ history[i].stamp \in sound /\ history[j].stamp \in sound =>
         history[i].stamp < history[j].stamp
  /\ \A i \in DOMAIN history : history[i].stamp \in sound =>
       history[i].live \/ history[i].data = Tail(Pieces(history[i].stamp))
  /\ \A i \in DOMAIN history : history[i].stamp \in held \cup {Garbled}
  /\ \A j \in DOMAIN es : j > h /\ es[j].is = "shot" => es[j].shot.stamp \in held

\* Unless it is going to load the history, the dialog will show what it should, or it has
\* missed the file.
DialogInv ==
  dialog /\ ~ Pending =>
    \A h \in Nat : LastAnswer(events, h) =>
      (h = 0 /\ missed) \/ Covers(Base(events, infos, h), events, h, Sound, kept)

-----------------------------------------------------------------------------
(* The file. *)

\* No write is lost.
LEMMA WrittenAll ==
  ASSUME KeptInv, NEW ps, Written(ps)
  PROVE  exists' = TRUE /\ file' = file \o ps
BY DEF KeptInv, Written

\* What a file is after a write.
LEMMA Appended ==
  ASSUME NEW f \in Seq(Piece), NEW ps \in Seq(Piece), NEW g, g = f \o ps
  PROVE  /\ g \in Seq(Piece) /\ Len(f) \in Nat /\ Len(ps) \in Nat /\ Len(g) = Len(f) + Len(ps)
         /\ DOMAIN f = 1 .. Len(f) /\ DOMAIN g = 1 .. Len(f) + Len(ps)
         /\ \A i \in 1 .. Len(f) : g[i] = f[i]
         /\ \A i \in 1 .. Len(ps) : g[Len(f) + i] = ps[i]
         /\ \A i \in DOMAIN g : i \in 1 .. Len(f) \/ (i - Len(f) \in 1 .. Len(ps) /\ g[i] = ps[i - Len(f)])
OBVIOUS

\* A new shot comes after all others.
LEMMA OrderKept ==
  ASSUME TypeOK, OrderInv, NEW ps \in Seq(Piece), file' = file \o ps,
         kept' = kept \cup {shots + 1},
         \A i \in DOMAIN ps : ps[i].shot = shots + 1 /\ ps[i].line = i - 1
  PROVE  OrderInv'
<1>0. PICK g : g = file' OBVIOUS
<1>1. PICK f \in Seq(Piece) : f = file /\ g = file' /\ g = f \o ps BY <1>0 DEF TypeOK
<1>2. PICK n \in Nat, L \in Nat : n = shots + 1 /\ L = Len(f)
  <2>1. shots + 1 \in Nat /\ Len(f) \in Nat BY DEF TypeOK
  <2> QED BY <2>1
<1>3. /\ DOMAIN f = 1 .. L /\ DOMAIN ps = 1 .. Len(ps)
      /\ \A i \in 1 .. L : g[i] = f[i]
      /\ \A i \in DOMAIN g :
           i \in 1 .. L \/ (i - L \in 1 .. Len(ps) /\ g[i] = ps[i - L] /\ i \in Nat)
  <2>1. /\ DOMAIN f = 1 .. L /\ DOMAIN g = 1 .. L + Len(ps) /\ Len(ps) \in Nat
        /\ \A i \in 1 .. L : g[i] = f[i]
        /\ \A i \in DOMAIN g : i \in 1 .. L \/ (i - L \in 1 .. Len(ps) /\ g[i] = ps[i - L])
    BY <1>1, <1>2, Appended
  <2>2. \A i \in DOMAIN g : i \in Nat BY <2>1
  <2>3. DOMAIN ps = 1 .. Len(ps) OBVIOUS
  <2> QED BY <2>1, <2>2, <2>3
<1>4. \A i \in 1 .. L : f[i].shot \in kept /\ f[i].shot < n
  <2>1. \A i \in 1 .. L : f[i].shot \in kept BY <1>1, <1>3 DEF OrderInv
  <2>2. \A s \in kept : s < n BY <1>2 DEF TypeOK
  <2> QED BY <2>1, <2>2
<1>5. \A i \in DOMAIN g :
        \/ i \in 1 .. L /\ g[i] = f[i]
        \/ i \in Nat /\ i > L /\ g[i].shot = n /\ g[i].line = i - L - 1
  <2>1. ASSUME NEW i \in DOMAIN g, i - L \in 1 .. Len(ps), g[i] = ps[i - L], i \in Nat
        PROVE  i > L /\ g[i].shot = n /\ g[i].line = i - L - 1
    BY <1>2, <1>3, <2>1
  <2> QED BY <1>3, <2>1
<1>6. \A i \in DOMAIN g : g[i].shot \in kept' BY <1>2, <1>4, <1>5
<1>7. ASSUME NEW i \in DOMAIN g, NEW j \in DOMAIN g, i < j
      PROVE  \/ g[i].shot < g[j].shot
             \/ g[i].shot = g[j].shot /\ g[i].line < g[j].line
  <2>1. CASE j \in 1 .. L
    <3>1. i \in 1 .. L BY <1>5, <1>7, <2>1
    <3>2. f[i].shot < f[j].shot \/ (f[i].shot = f[j].shot /\ f[i].line < f[j].line)
      BY <1>1, <1>3, <1>7, <2>1, <3>1 DEF OrderInv, InOrder
    <3> QED BY <1>3, <2>1, <3>1, <3>2
  <2>2. CASE i \in 1 .. L /\ j \notin 1 .. L BY <1>3, <1>4, <1>5, <2>2
  <2>3. CASE i \notin 1 .. L /\ j \notin 1 .. L
    <3>1. /\ i \in Nat /\ j \in Nat /\ g[i].shot = n /\ g[j].shot = n
          /\ g[i].line = i - L - 1 /\ g[j].line = j - L - 1
      BY <1>5, <2>3
    <3> QED BY <1>2, <1>7, <3>1
  <2> QED BY <2>1, <2>2, <2>3
<1>8. InOrder(g) BY <1>7 DEF InOrder
<1>9. \A i \in DOMAIN file' : file'[i].shot \in kept' BY <1>1, <1>6, Zenon
<1>10. InOrder(file') BY <1>1, <1>8, Zenon
<1> QED BY <1>9, <1>10, Zenon DEF OrderInv, InOrder

\* What is written stays where it is.
LEMMA StaysWritten ==
  ASSUME TypeOK, NEW ps \in Seq(Piece), file' = file \o ps, shots' = shots + 1,
         torn \subseteq torn', torn' \subseteq torn \cup {shots + 1},
         \/ shots + 1 \in torn'
         \/ 1 \in DOMAIN ps /\ ps[1] = [shot |-> shots + 1, line |-> 0, whole |-> TRUE],
         NEW m \in kept, NEW e \in DOMAIN file, WrittenAt(m, e)
  PROVE  WrittenAt(m, e)'
<1>0. PICK g : g = file' OBVIOUS
<1>1. PICK f \in Seq(Piece) : f = file /\ g = file' /\ g = f \o ps BY <1>0 DEF TypeOK
<1>2. PICK n \in Nat, L \in Nat : n = shots + 1 /\ L = Len(f)
  <2>1. shots + 1 \in Nat /\ Len(f) \in Nat BY DEF TypeOK
  <2> QED BY <2>1
<1>3. /\ DOMAIN f = 1 .. L /\ DOMAIN g = 1 .. L + Len(ps) /\ Len(ps) \in Nat
      /\ DOMAIN ps = 1 .. Len(ps) /\ Len(g) = L + Len(ps)
      /\ \A i \in 1 .. L : g[i] = f[i]
      /\ \A i \in 1 .. Len(ps) : g[L + i] = ps[i]
  BY <1>1, <1>2, Appended
<1>4. m \in Nat /\ shots \in Nat /\ m <= shots /\ e \in 1 .. L /\ InfoLines \in Nat
  BY <1>1, <1>3, ConstantsAssumption DEF TypeOK
<1>5. \A i \in DOMAIN f : i \in DOMAIN g /\ g[i] = f[i] BY <1>3
<1>6. \A k \in 0 .. InfoLines :
        e + k \in DOMAIN g /\ g[e + k] = [shot |-> m, line |-> k, whole |-> TRUE]
  BY <1>1, <1>5 DEF WrittenAt
<1>7. m - 1 \notin torn' => e = 1 \/ (e - 1 \in DOMAIN g /\ g[e - 1].whole)
  BY <1>1, <1>5 DEF WrittenAt
<1>8. ASSUME m + 1 \notin torn'
      PROVE  /\ m # shots' /\ e + InfoLines + 1 \in DOMAIN g
             /\ g[e + InfoLines + 1] = [shot |-> m + 1, line |-> 0, whole |-> TRUE]
  <2>1. m # shots' BY <1>4
  <2>2. CASE m = shots
    <3>1. e + InfoLines = L BY <1>1, <1>2, <1>8, <2>2 DEF WrittenAt
    <3>2. 1 \in 1 .. Len(ps) /\ ps[1] = [shot |-> m + 1, line |-> 0, whole |-> TRUE]
      BY <1>3, <1>8, <2>2
    <3>3. PICK i \in 1 .. Len(ps) : i = 1 BY <3>2
    <3>4. g[L + i] = ps[i] /\ L + i \in DOMAIN g BY <1>3
    <3>5. e + InfoLines + 1 = L + i BY <3>1, <3>3
    <3> QED BY <2>1, <3>2, <3>3, <3>4, <3>5
  <2>3. CASE m # shots
    <3>1. /\ e + InfoLines + 1 \in DOMAIN f
          /\ f[e + InfoLines + 1] = [shot |-> m + 1, line |-> 0, whole |-> TRUE]
      BY <1>1, <1>8, <2>3 DEF WrittenAt
    <3> QED BY <1>5, <2>1, <3>1
  <2> QED BY <2>2, <2>3
<1> QED BY <1>1, <1>6, <1>7, <1>8 DEF WrittenAt

\* A new shot is written at the end.
LEMMA NewWritten ==
  ASSUME TypeOK, FileInv, NEW n \in 1 .. MaxShots, n = shots + 1, file' = file \o Pieces(n),
         shots' = n, torn' = torn
  PROVE  \E e \in DOMAIN file' : WrittenAt(n, e)'
<1>1. n = shots + 1 OBVIOUS
<1>2. PICK ps \in Seq(Piece) :
        /\ ps = Pieces(n) /\ Len(ps) = InfoLines + 1
        /\ \A i \in 1 .. InfoLines + 1 : ps[i] = [shot |-> n, line |-> i - 1, whole |-> TRUE]
  BY PiecesShape
<1>0. PICK g : g = file' OBVIOUS
<1>3. PICK f \in Seq(Piece) : f = file /\ g = file' /\ g = f \o ps BY <1>0, <1>1, <1>2 DEF TypeOK
<1>4. PICK L \in Nat : L = Len(f) BY <1>3
<1>5. InfoLines \in Nat BY ConstantsAssumption
<1>6. /\ DOMAIN f = 1 .. L /\ DOMAIN g = 1 .. L + InfoLines + 1 /\ Len(g) = L + InfoLines + 1
      /\ \A i \in 1 .. L : g[i] = f[i]
      /\ \A i \in 1 .. InfoLines + 1 : g[L + i] = ps[i]
  <2>1. /\ DOMAIN f = 1 .. L /\ DOMAIN g = 1 .. L + Len(ps) /\ Len(g) = L + Len(ps)
        /\ \A i \in 1 .. L : g[i] = f[i]
        /\ \A i \in 1 .. Len(ps) : g[L + i] = ps[i]
    <3>1. g = f \o ps BY <1>3
    <3>2. /\ DOMAIN f = 1 .. Len(f) /\ DOMAIN g = 1 .. Len(f) + Len(ps)
          /\ Len(g) = Len(f) + Len(ps)
          /\ \A i \in 1 .. Len(f) : g[i] = f[i]
          /\ \A i \in 1 .. Len(ps) : g[Len(f) + i] = ps[i]
      BY <3>1, Appended
    <3> QED BY <1>4, <3>2, Zenon
  <2>2. L + Len(ps) = L + InfoLines + 1
    <3>1. PICK N : N = Len(ps) OBVIOUS
    <3>2. N = InfoLines + 1 BY <1>2, <3>1
    <3>3. L + N = L + InfoLines + 1 BY <1>5, <3>2
    <3> QED BY <3>1, <3>3
  <2> QED BY <1>2, <2>1, <2>2, Zenon
<1>7. \A k \in 0 .. InfoLines :
        /\ L + 1 + k \in DOMAIN g
        /\ g[L + 1 + k] = [shot |-> n, line |-> k, whole |-> TRUE]
  <2>1. ASSUME NEW k \in 0 .. InfoLines
        PROVE  /\ L + 1 + k \in DOMAIN g
               /\ g[L + 1 + k] = [shot |-> n, line |-> k, whole |-> TRUE]
    <3>1. PICK i \in 1 .. InfoLines + 1 : i = k + 1 /\ L + 1 + k = L + i /\ i - 1 = k BY <1>5
    <3>2. g[L + i] = ps[i] BY <1>6
    <3>3. ps[i] = [shot |-> n, line |-> k, whole |-> TRUE] BY <1>2, <3>1
    <3>4. L + 1 + k \in DOMAIN g BY <1>5, <1>6
    <3> QED BY <3>1, <3>2, <3>3, <3>4
  <2> QED BY <2>1
<1>8. ASSUME n - 1 \notin torn PROVE L = 0 \/ (L \in DOMAIN g /\ g[L].whole)
  <2>1. shots \in Nat /\ kept \subseteq 1 .. shots /\ torn \subseteq kept BY DEF TypeOK
  <2>2. CASE shots \in kept
    <3>1. shots \in kept \ torn BY <1>1, <1>8, <2>1, <2>2
    <3>2. PICK e \in DOMAIN file : WrittenAt(shots, e) BY <3>1 DEF FileInv
    <3>3. shots + 1 \notin torn BY <2>1
    <3>4. e + InfoLines = L BY <1>3, <1>4, <3>2, <3>3 DEF WrittenAt
    <3>5. L \in DOMAIN f /\ f[L] = [shot |-> shots, line |-> InfoLines, whole |-> TRUE]
      BY <1>3, <1>5, <3>2, <3>4 DEF WrittenAt
    <3>6. L \in 1 .. L BY <1>6, <3>5
    <3>7. L \in DOMAIN g BY <1>5, <1>6, <3>6
    <3>8. g[L] = f[L] BY <1>6, <3>6
    <3> QED BY <3>5, <3>7, <3>8
  <2>3. CASE shots \notin kept
    <3>1. kept = {} BY <2>1, <2>3 DEF FileInv, KeptInv
    <3>2. DOMAIN f = {} BY <1>3, <3>1 DEF FileInv, OrderInv
    <3> QED BY <1>6, <3>2
  <2> QED BY <2>2, <2>3
<1>9. PICK e : e = L + 1 OBVIOUS
<1>10. e \in DOMAIN g BY <1>5, <1>6, <1>9
<1>11. /\ \A k \in 0 .. InfoLines :
            e + k \in DOMAIN g /\ g[e + k] = [shot |-> n, line |-> k, whole |-> TRUE]
       /\ n - 1 \notin torn => e = 1 \/ (e - 1 \in DOMAIN g /\ g[e - 1].whole)
       /\ n = shots' /\ e + InfoLines = Len(g)
  BY <1>1, <1>5, <1>6, <1>7, <1>8, <1>9
<1>12. WrittenAt(n, e)' BY <1>3, <1>11 DEF WrittenAt
<1> QED BY <1>1, <1>3, <1>10, <1>12

\* There is no file in the beginning.
LEMMA InitFile == Init => FileInv
BY DEF Init, FileInv, KeptInv, OrderInv, InOrder

\* Steps that leave the file and the shots alone.
LEMMA FileStays ==
  ASSUME FileInv, UNCHANGED <<opened, exists, file, shots, kept, torn>>
  PROVE  FileInv'
BY DEF FileInv, KeptInv, OrderInv, InOrder, WrittenAt

\* The shots kept are still the latest ones.
LEMMA KeptGrows ==
  ASSUME TypeOK, KeptInv, shots' = shots + 1, kept' = kept \cup {shots + 1}, exists' = TRUE
  PROVE  KeptInv'
<1>1. shots \in Nat /\ kept \subseteq 1 .. shots BY DEF TypeOK
<1>2. ASSUME NEW n \in kept', NEW m \in n .. shots' PROVE m \in kept'
  <2>1. CASE m = shots + 1 BY <2>1
  <2>2. CASE m # shots + 1
    <3>1. n \in Nat BY <1>1
    <3>2. n \in kept /\ m \in n .. shots BY <1>1, <2>2, <3>1
    <3> QED BY <3>2 DEF KeptInv
  <2> QED BY <2>1, <2>2
<1> QED BY <1>2 DEF KeptInv

\* Every step keeps the file in order.
LEMMA NextFile == TypeInv /\ FileInv /\ [Next]_vars => FileInv'
<1> SUFFICES ASSUME TypeInv, FileInv, [Next]_vars PROVE FileInv' OBVIOUS
<1>0. TypeOK /\ shots \in Nat /\ kept \subseteq 1 .. shots /\ torn \subseteq kept
  BY DEF TypeInv, TypeOK
<1>1. CASE TimerEvent
  <2>1. PICK n \in 1 .. MaxShots : n = shots + 1 /\ shots' = n
    <3>1. shots + 1 \in 1 .. MaxShots /\ shots' = shots + 1
      BY <1>0, <1>1, ConstantsAssumption DEF TimerEvent, TypeOK
    <3> QED BY <3>1
  <2>2. kept' = kept \cup {n} /\ torn' = torn /\ Written(Pieces(n)) BY <1>1, <2>1 DEF TimerEvent
  <2>3. PICK ps \in Seq(Piece) :
          /\ ps = Pieces(n) /\ Len(ps) = InfoLines + 1
          /\ \A i \in 1 .. InfoLines + 1 : ps[i] = [shot |-> n, line |-> i - 1, whole |-> TRUE]
    BY PiecesShape
  <2>4. exists' = TRUE /\ file' = file \o ps BY <2>2, <2>3, WrittenAll DEF FileInv
  <2>5. KeptInv' BY <1>0, <2>1, <2>2, <2>4, KeptGrows DEF FileInv
  <2>6. DOMAIN ps = 1 .. InfoLines + 1 BY <2>3
  <2>7. OrderInv'
    <3>1. \A i \in DOMAIN ps : ps[i].shot = n /\ ps[i].line = i - 1 BY <2>3, <2>6
    <3> QED BY <1>0, <2>1, <2>2, <2>4, <3>1, OrderKept DEF FileInv
  <2>8. ASSUME NEW m \in kept' \ torn' PROVE \E e \in DOMAIN file' : WrittenAt(m, e)'
    <3>1. CASE m = n
      <4>1. file' = file \o Pieces(n) BY <2>3, <2>4
      <4>2. \E e \in DOMAIN file' : WrittenAt(n, e)' BY <1>0, <2>1, <2>2, <4>1, NewWritten
      <4> QED BY <3>1, <4>2
    <3>2. CASE m # n
      <4>1. m \in kept \ torn BY <2>2, <2>8, <3>2
      <4>2. PICK e \in DOMAIN file : WrittenAt(m, e) BY <4>1 DEF FileInv
      <4>3. 1 \in DOMAIN ps /\ ps[1] = [shot |-> shots + 1, line |-> 0, whole |-> TRUE]
        <5>1. PICK i \in 1 .. InfoLines + 1 : i = 1 BY ConstantsAssumption
        <5>2. ps[i] = [shot |-> n, line |-> i - 1, whole |-> TRUE] /\ i - 1 = 0 BY <2>3, <5>1
        <5> QED BY <2>1, <2>6, <5>1, <5>2
      <4>4. WrittenAt(m, e)' BY <1>0, <2>1, <2>2, <2>4, <4>1, <4>2, <4>3, StaysWritten
      <4>5. e \in DOMAIN file' BY <2>4, <4>2, Appended DEF TypeOK, TypeInv
      <4> QED BY <4>4, <4>5
    <3> QED BY <3>1, <3>2
  <2> QED BY <2>5, <2>7, <2>8 DEF FileInv
<1>2. CASE TimerOpens
  <2>1. exists' = TRUE /\ file' = file \o <<>> BY <1>2, WrittenAll DEF TimerOpens, FileInv
  <2>2. file' = file BY <1>0, <2>1 DEF TypeOK
  <2>3. UNCHANGED <<shots, kept, torn, file>> /\ exists' = TRUE
    BY <1>2, <2>1, <2>2 DEF TimerOpens, shotVars
  <2>4. KeptInv' BY <2>3 DEF FileInv, KeptInv
  <2>5. OrderInv' BY <2>3 DEF FileInv, OrderInv, InOrder
  <2>6. \A n, e : WrittenAt(n, e) => WrittenAt(n, e)' BY <2>3 DEF WrittenAt
  <2> QED BY <2>3, <2>4, <2>5, <2>6 DEF FileInv
<1>3. CASE Killed
  <2>1. PICK n \in 1 .. MaxShots : n = shots + 1 /\ shots' = n
    <3>1. shots + 1 \in 1 .. MaxShots /\ shots' = shots + 1
      BY <1>0, <1>3, ConstantsAssumption DEF Killed, TypeOK
    <3> QED BY <3>1
  <2>2. kept' = kept \cup {n} /\ torn' = torn \cup {n} BY <1>3, <2>1 DEF Killed
  <2>3. PICK ps \in Cuts(n) : Written(ps) BY <1>3, <2>1 DEF Killed
  <2>4. ps \in Seq(Piece) /\ \A i \in DOMAIN ps : ps[i].shot = n /\ ps[i].line = i - 1
    BY CutsShape
  <2>5. exists' = TRUE /\ file' = file \o ps BY <2>3, WrittenAll DEF FileInv
  <2>6. KeptInv' BY <1>0, <2>1, <2>2, <2>5, KeptGrows DEF FileInv
  <2>7. OrderInv' BY <1>0, <2>1, <2>2, <2>4, <2>5, OrderKept DEF FileInv
  <2>8. ASSUME NEW m \in kept' \ torn' PROVE \E e \in DOMAIN file' : WrittenAt(m, e)'
    <3>1. m \in kept \ torn BY <2>2, <2>8
    <3>2. PICK e \in DOMAIN file : WrittenAt(m, e) BY <3>1 DEF FileInv
    <3>3. WrittenAt(m, e)' BY <1>0, <2>1, <2>2, <2>4, <2>5, <3>1, <3>2, StaysWritten
    <3>4. e \in DOMAIN file' BY <2>4, <2>5, <3>2, Appended DEF TypeOK, TypeInv
    <3> QED BY <3>3, <3>4
  <2> QED BY <2>6, <2>7, <2>8 DEF FileInv
<1>4. CASE ClearServerHistory
  <2>1. UNCHANGED <<opened, shots>> BY <1>4 DEF ClearServerHistory
  <2>2. CASE Clears /\ kept' = {} /\ torn' = {}
    <3>1. exists' = opened /\ file' = <<>> BY <2>2 DEF Clears
    <3>2. KeptInv' BY <2>1, <2>2, <3>1 DEF KeptInv
    <3>3. OrderInv' BY <3>1 DEF OrderInv, InOrder
    <3> QED BY <2>2, <3>2, <3>3 DEF FileInv
  <2>3. CASE UNCHANGED <<exists, file, kept, torn>> BY <2>1, <2>3, FileStays
  <2> QED BY <1>4, <2>2, <2>3 DEF ClearServerHistory
<1>5. CASE \/ Restart \/ LoadServerInfoHistory \/ ShowDialog \/ CloseDialog \/ ClearHistory
           \/ Report \/ UNCHANGED vars
  <2>1. UNCHANGED <<opened, exists, file, shots, kept, torn>>
    BY <1>5 DEF Restart, LoadServerInfoHistory, ShowDialog, CloseDialog, ClearHistory, Report,
                fileVars, shotVars, vars
  <2> QED BY <2>1, FileStays
<1> QED BY <1>1, <1>2, <1>3, <1>4, <1>5 DEF Next

-----------------------------------------------------------------------------
(* The history that is read from the file. *)

\* A line of one piece is read for what it is.
LEMMA CleanLine ==
  ASSUME file \in Seq(Piece), NEW misread \in SUBSET Glued, NEW i \in Ends,
         i = 1 \/ i - 1 \in Ends
  PROVE  /\ LineBegin(i) = i
         /\ Stamp(i, misread) = IF file[i].line # 0 THEN 0 ELSE file[i].shot
         /\ i \in Stamps(misread) <=> file[i].line = 0
<1>1. LineBegin(i) = i BY LineBegins
<1>2. i \notin misread BY <1>1 DEF Glued
<1>3. Stamp(i, misread) = IF file[i].line # 0 THEN 0 ELSE file[i].shot BY <1>1, <1>2 DEF Stamp
<1>4. file[i] \in Piece BY EndsInside
<1>5. file[i].shot # 0 BY <1>4 DEF Piece
<1> QED BY <1>1, <1>3, <1>5 DEF Stamps

\* Where a sound shot is.
SoundAt(n, e) ==
  /\ e \in DOMAIN file
  /\ \A k \in 0 .. InfoLines :
       e + k \in DOMAIN file /\ file[e + k] = [shot |-> n, line |-> k, whole |-> TRUE]
  /\ e = 1 \/ e - 1 \in Ends
  /\ IF n = shots THEN e + InfoLines = Len(file)
     ELSE /\ e + InfoLines + 1 \in DOMAIN file
          /\ file[e + InfoLines + 1] = [shot |-> n + 1, line |-> 0, whole |-> TRUE]

\* Each is there.
LEMMA SoundWritten ==
  ASSUME TypeOK, FileInv, NEW n \in Sound
  PROVE  \E e : SoundAt(n, e)
<1>1. n \in kept /\ n \notin torn /\ n - 1 \notin torn /\ n + 1 \notin torn BY DEF Sound
<1>2. PICK e \in DOMAIN file : WrittenAt(n, e) BY <1>1 DEF FileInv
<1>3. e = 1 \/ e - 1 \in Ends BY <1>1, <1>2 DEF WrittenAt, Ends
<1> QED BY <1>1, <1>2, <1>3 DEF WrittenAt, SoundAt

\* Its stamp is read.
LEMMA SoundStamp ==
  ASSUME TypeOK, FileInv, NEW n \in Sound, NEW e, SoundAt(n, e), NEW misread \in SUBSET Glued
  PROVE  /\ e \in Stamps(misread) /\ Stamp(e, misread) = n
         /\ \A s \in Stamps(misread) : Stamp(s, misread) = n => s = e
<1>1. file \in Seq(Piece) /\ InfoLines \in Nat /\ n \in Nat
  BY ConstantsAssumption DEF TypeOK, Sound
<1>2. e \in 1 .. Len(file) /\ DOMAIN file = 1 .. Len(file) BY <1>1 DEF SoundAt
<1>3. file[e] = [shot |-> n, line |-> 0, whole |-> TRUE]
  <2>1. PICK k \in 0 .. InfoLines : k = 0 BY <1>1
  <2>2. file[e + k] = [shot |-> n, line |-> k, whole |-> TRUE] BY DEF SoundAt
  <2>3. e + k = e BY <1>2, <2>1
  <2> QED BY <2>1, <2>2, <2>3
<1>4. e \in Ends BY <1>2, <1>3 DEF Ends
<1>5. e = 1 \/ e - 1 \in Ends BY DEF SoundAt
<1>6. e \in Stamps(misread) /\ Stamp(e, misread) = n
  <2>1. file[e].line = 0 /\ file[e].shot = n BY <1>3
  <2> QED BY <1>1, <1>4, <1>5, <2>1, CleanLine
<1>7. ASSUME NEW s \in Stamps(misread), Stamp(s, misread) = n PROVE s = e
  <2>1. file[s].shot = n /\ file[s].line = 0 BY <1>1, <1>7, StampCases DEF Garbled
  <2>2. s \in DOMAIN file /\ s \in Nat BY <1>1, <1>2, StampsInside, EndsInside
  <2>3. file[e].shot = n /\ file[e].line = 0 BY <1>3
  <2>4. ~ (s < e) /\ ~ (e < s) BY <1>1, <1>2, <2>1, <2>2, <2>3 DEF FileInv, OrderInv, InOrder
  <2> QED BY <1>2, <2>2, <2>4
<1> QED BY <1>6, <1>7

\* Its info ends where it was written.
LEMMA SoundEnds ==
  ASSUME TypeOK, FileInv, NEW n \in Sound, NEW e, SoundAt(n, e), NEW misread \in SUBSET Glued
  PROVE  InfoEnd(e, misread) = e + InfoLines
<1>1. file \in Seq(Piece) /\ InfoLines \in Nat /\ InfoLines >= 1 /\ n \in Nat
  BY ConstantsAssumption DEF TypeOK, Sound
<1>2. PICK L \in Nat : L = Len(file) BY <1>1
<1>3. e \in 1 .. L /\ DOMAIN file = 1 .. L BY <1>1, <1>2 DEF SoundAt
<1>4. e \in Stamps(misread) BY SoundStamp
<1>5. \A k \in 0 .. InfoLines : e + k \in Ends /\ file[e + k].line = k
  <2>1. ASSUME NEW k \in 0 .. InfoLines PROVE e + k \in Ends /\ file[e + k].line = k
    <3>1. PICK i : i = e + k OBVIOUS
    <3>2. i \in DOMAIN file /\ file[i] = [shot |-> n, line |-> k, whole |-> TRUE]
      BY <3>1 DEF SoundAt
    <3>3. i \in Ends /\ file[i].line = k BY <3>2 DEF Ends
    <3> QED BY <3>1, <3>3
  <2> QED BY <2>1
<1>6. \A k \in 1 .. InfoLines : e + k \notin Stamps(misread)
  <2>1. ASSUME NEW k \in 1 .. InfoLines PROVE e + k \notin Stamps(misread)
    <3>1. PICK i : i = e + k OBVIOUS
    <3>2. k - 1 \in 0 .. InfoLines /\ k \in 0 .. InfoLines /\ i - 1 = e + (k - 1)
      BY <1>1, <1>3, <3>1
    <3>3. i \in Ends /\ i - 1 \in Ends /\ file[i].line = k BY <1>5, <3>1, <3>2
    <3>4. k # 0 BY <1>1
    <3> QED BY <1>1, <3>1, <3>3, <3>4, CleanLine
  <2> QED BY <2>1
<1>7. PICK q : q = e + InfoLines + 1 OBVIOUS
<1>8. q \in Nat /\ q - 1 = e + InfoLines /\ q > e BY <1>1, <1>3, <1>7
<1>9. q - 1 \in Ends
  <2>1. InfoLines \in 0 .. InfoLines BY <1>1
  <2> QED BY <1>5, <1>8, <2>1
<1>10. n = shots => \A i \in Ends : i <= q - 1
  <2>1. n = shots => q - 1 = L BY <1>2, <1>8 DEF SoundAt
  <2>2. \A i \in Ends : i <= L BY <1>1, <1>2, EndsInside
  <2> QED BY <2>1, <2>2
<1>11. n # shots => q \in Stamps(misread) /\ LineBegin(q) = q
  <2>1. SUFFICES ASSUME n # shots PROVE q \in Stamps(misread) /\ LineBegin(q) = q OBVIOUS
  <2>2. q \in DOMAIN file /\ file[q] = [shot |-> n + 1, line |-> 0, whole |-> TRUE]
    BY <1>7, <2>1 DEF SoundAt
  <2>3. q \in Ends /\ file[q].line = 0 BY <2>2 DEF Ends
  <2> QED BY <1>1, <1>9, <2>3, CleanLine
<1>12. \A s \in Stamps(misread) : s > e => s >= q
  <2>1. ASSUME NEW s \in Stamps(misread), s > e, ~ (s >= q) PROVE FALSE
    <3>1. s \in Nat BY <1>1, StampsInside
    <3>2. PICK k : k = s - e OBVIOUS
    <3>3. k \in 1 .. InfoLines /\ s = e + k BY <1>1, <1>3, <1>7, <2>1, <3>1, <3>2
    <3> QED BY <1>6, <3>3
  <2> QED BY <2>1
<1>13. PICK z : z = InfoEnd(e, misread) OBVIOUS
<1>14. CASE ~ \E s \in Stamps(misread) : s > e
  <2>1. z \in Ends /\ \A i \in Ends : i <= z BY <1>1, <1>4, <1>13, <1>14, InfoEnds
  <2>2. n = shots BY <1>8, <1>11, <1>14
  <2>3. z \in Nat BY <1>1, <2>1, EndsInside
  <2>4. z <= q - 1 /\ q - 1 <= z BY <1>9, <1>10, <2>1, <2>2
  <2>5. z = q - 1 BY <1>8, <2>3, <2>4
  <2> QED BY <1>8, <1>13, <2>5
<1>15. CASE \E s \in Stamps(misread) : s > e
  <2>1. PICK s \in Stamps(misread) :
          s > e /\ z = LineBegin(s) - 1 /\ \A r \in Stamps(misread) : r > e => s <= r
    BY <1>1, <1>4, <1>13, <1>15, InfoEnds
  <2>2. s \in Ends /\ s \in Nat BY <1>1, StampsInside
  <2>3. s >= q BY <1>12, <2>1
  <2>4. n # shots
    <3>1. n = shots => s <= q - 1 BY <1>10, <2>2
    <3> QED BY <1>8, <2>2, <2>3, <3>1
  <2>5. s <= q BY <1>8, <1>11, <2>1, <2>4
  <2>6. s = q BY <1>8, <2>2, <2>3, <2>5
  <2>7. z = q - 1 BY <1>11, <2>1, <2>4, <2>6
  <2> QED BY <1>8, <1>13, <2>7
<1> QED BY <1>14, <1>15

\* Its info is read.
LEMMA SoundInfo ==
  ASSUME TypeOK, FileInv, NEW n \in Sound, NEW e, SoundAt(n, e)
  PROVE  SubSeq(file, e + 1, e + InfoLines) = Tail(Pieces(n))
<1>1. file \in Seq(Piece) /\ InfoLines \in Nat /\ InfoLines >= 1 /\ n \in 1 .. MaxShots
  BY ConstantsAssumption DEF TypeOK, Sound
<1>2. PICK f \in Seq(Piece), L \in Nat : f = file /\ L = Len(file) BY <1>1
<1>3. e \in 1 .. L /\ DOMAIN f = 1 .. L BY <1>1, <1>2 DEF SoundAt
<1>4. \A k \in 1 .. InfoLines :
        e + k \in 1 .. L /\ f[e + k] = [shot |-> n, line |-> k, whole |-> TRUE]
  BY <1>1, <1>2, <1>3 DEF SoundAt
<1>5. PICK all \in Seq(Piece) :
        /\ all = Pieces(n) /\ Len(all) = InfoLines + 1
        /\ \A i \in 1 .. InfoLines + 1 : all[i] = [shot |-> n, line |-> i - 1, whole |-> TRUE]
  BY <1>1, PiecesShape
<1>6. Tail(all) = [k \in 1 .. InfoLines |-> [shot |-> n, line |-> k, whole |-> TRUE]]
  <2>1. \A k \in 1 .. InfoLines : all[k + 1] = [shot |-> n, line |-> k, whole |-> TRUE]
    <3>1. ASSUME NEW k \in 1 .. InfoLines PROVE all[k + 1] = [shot |-> n, line |-> k, whole |-> TRUE]
      <4>1. PICK i \in 1 .. InfoLines + 1 : i = k + 1 /\ i - 1 = k BY <1>1
      <4> QED BY <1>5, <4>1
    <3> QED BY <3>1
  <2>2. all # <<>> BY <1>1, <1>5
  <2>3. /\ Tail(all) \in Seq(Piece) /\ Len(Tail(all)) = InfoLines
        /\ \A k \in 1 .. InfoLines : Tail(all)[k] = all[k + 1]
    <3>1. Tail(all) \in Seq(Piece) /\ Len(Tail(all)) = Len(all) - 1
          /\ \A k \in 1 .. Len(Tail(all)) : Tail(all)[k] = all[k + 1]
      BY <2>2
    <3>2. Len(Tail(all)) = InfoLines BY <1>1, <1>5, <3>1
    <3> QED BY <3>1, <3>2
  <2>4. PICK rest : rest = Tail(all) OBVIOUS
  <2>5. rest \in Seq(Piece) /\ Len(rest) = InfoLines BY <2>3, <2>4
  <2>6. rest = [k \in 1 .. InfoLines |-> rest[k]] BY <1>1, <2>5
  <2>7. \A k \in 1 .. InfoLines : rest[k] = [shot |-> n, line |-> k, whole |-> TRUE]
    BY <2>1, <2>3, <2>4
  <2>8. rest = [k \in 1 .. InfoLines |-> [shot |-> n, line |-> k, whole |-> TRUE]]
    BY <2>6, <2>7
  <2> QED BY <2>4, <2>8
<1>7. SubSeq(f, e + 1, e + InfoLines)
        = [k \in 1 .. InfoLines |-> [shot |-> n, line |-> k, whole |-> TRUE]]
  <2>1. PICK z : z = e + InfoLines OBVIOUS
  <2>2. z \in 1 .. L /\ e + 1 \in 1 .. L /\ z - (e + 1) + 1 = InfoLines
    <3>1. InfoLines \in 1 .. InfoLines BY <1>1
    <3>2. e + InfoLines \in 1 .. L BY <1>4, <3>1
    <3> QED BY <1>1, <1>3, <2>1, <3>2
  <2>3. SubSeq(f, e + 1, z) = [k \in 1 .. InfoLines |-> f[e + k]]
    BY <1>1, <1>2, <1>3, <2>1, <2>2
  <2>4. [k \in 1 .. InfoLines |-> f[e + k]]
          = [k \in 1 .. InfoLines |-> [shot |-> n, line |-> k, whole |-> TRUE]]
    BY <1>4
  <2> QED BY <2>1, <2>3, <2>4
<1> QED BY <1>2, <1>5, <1>6, <1>7

\* The history has each sound shot, in order and with its info, and only shots kept.
LEMMA HistoryRead ==
  ASSUME TypeOK, FileInv, NEW misread \in SUBSET Glued, NEW history, history = Parsed(misread)
  PROVE  /\ \A n \in Sound : \E i \in DOMAIN history : history[i].stamp = n
         /\ \A i, j \in DOMAIN history :
              i < j /\ history[i].stamp \in Sound /\ history[j].stamp \in Sound =>
                history[i].stamp < history[j].stamp
         /\ \A i \in DOMAIN history : history[i].stamp \in Sound =>
              history[i].live \/ history[i].data = Tail(Pieces(history[i].stamp))
         /\ \A i \in DOMAIN history : history[i].stamp \in kept \cup {Garbled}
<1>1. file \in Seq(Piece) BY DEF TypeOK
<1>2. PICK S : S = Stamps(misread) OBVIOUS
<1>3. /\ \A k \in DOMAIN history : Nth(S, k) \in S /\ history[k] = ShotAt(Nth(S, k), misread)
      /\ \A k, m \in DOMAIN history : k < m => Nth(S, k) < Nth(S, m)
      /\ \A e \in S : \E k \in DOMAIN history : Nth(S, k) = e
  BY <1>1, <1>2, ParsedIs
<1>4. ASSUME NEW e \in S
      PROVE  /\ ShotAt(e, misread).stamp = Stamp(e, misread)
             /\ ShotAt(e, misread).data = SubSeq(file, e + 1, InfoEnd(e, misread))
  BY ShotAtIs
<1>5. ASSUME NEW n \in Sound PROVE \E i \in DOMAIN history : history[i].stamp = n
  <2>1. PICK e : SoundAt(n, e) BY SoundWritten
  <2>2. e \in S /\ Stamp(e, misread) = n BY <1>2, <2>1, SoundStamp
  <2>3. PICK k \in DOMAIN history : Nth(S, k) = e BY <1>3, <2>2
  <2> QED BY <1>3, <1>4, <2>2, <2>3
<1>6. ASSUME NEW i \in DOMAIN history, NEW j \in DOMAIN history, i < j,
             history[i].stamp \in Sound, history[j].stamp \in Sound
      PROVE  history[i].stamp < history[j].stamp
  <2>1. PICK a \in S, b \in S :
          /\ a = Nth(S, i) /\ b = Nth(S, j) /\ a < b
          /\ history[i].stamp = Stamp(a, misread) /\ history[j].stamp = Stamp(b, misread)
    BY <1>3, <1>4, <1>6
  <2>2. Stamp(a, misread) # Garbled /\ Stamp(b, misread) # Garbled
    BY <1>6, <2>1 DEF Sound, TypeOK, Garbled
  <2>3. /\ Stamp(a, misread) = file[a].shot /\ file[a].line = 0
        /\ Stamp(b, misread) = file[b].shot /\ file[b].line = 0
    BY <1>1, <1>2, <2>2, StampCases
  <2>4. a \in DOMAIN file /\ b \in DOMAIN file
    BY <1>1, <1>2, StampsInside DEF Ends
  <2>5. file[a].shot < file[b].shot
    <3>1. \/ file[a].shot < file[b].shot
          \/ file[a].shot = file[b].shot /\ file[a].line < file[b].line
      BY <2>1, <2>4 DEF FileInv, OrderInv, InOrder
    <3>2. ~ (file[a].line < file[b].line) BY <2>3
    <3> QED BY <3>1, <3>2
  <2> QED BY <2>1, <2>3, <2>5
<1>7. ASSUME NEW i \in DOMAIN history, history[i].stamp \in Sound
      PROVE  history[i].data = Tail(Pieces(history[i].stamp))
  <2>1. PICK a \in S, n \in Sound :
          /\ n = history[i].stamp /\ Stamp(a, misread) = n
          /\ history[i].data = SubSeq(file, a + 1, InfoEnd(a, misread))
    BY <1>3, <1>4, <1>7
  <2>2. PICK e : SoundAt(n, e) BY SoundWritten
  <2>3. a = e BY <1>2, <2>1, <2>2, SoundStamp
  <2>4. InfoEnd(e, misread) = e + InfoLines BY <2>2, SoundEnds
  <2>5. SubSeq(file, e + 1, e + InfoLines) = Tail(Pieces(n)) BY <2>2, SoundInfo
  <2> QED BY <2>1, <2>3, <2>4, <2>5
<1>8. ASSUME NEW i \in DOMAIN history PROVE history[i].stamp \in kept \cup {Garbled}
  <2>1. PICK a \in S : history[i].stamp = Stamp(a, misread) BY <1>3, <1>4
  <2>2. a \in DOMAIN file BY <1>1, <1>2, StampsInside DEF Ends
  <2>3. file[a].shot \in kept BY <2>2 DEF FileInv, OrderInv
  <2> QED BY <1>1, <1>2, <2>1, <2>3, StampCases
<1> QED BY <1>5, <1>6, <1>7, <1>8

-----------------------------------------------------------------------------
(* What is reported. *)

\* One more report.
LEMMA OneMore ==
  ASSUME NEW es \in Seq(Event), NEW event \in Event, NEW more, more = Append(es, event)
  PROVE  /\ Len(es) \in Nat /\ DOMAIN es = 1 .. Len(es) /\ DOMAIN more = 1 .. Len(es) + 1
         /\ \A j \in DOMAIN es : j \in DOMAIN more /\ more[j] = es[j] /\ j <= Len(es) /\ j \in Nat
         /\ \A j \in DOMAIN more : j \in DOMAIN es \/ (j = Len(es) + 1 /\ more[j] = event)
         /\ Len(es) + 1 \in DOMAIN more /\ more[Len(es) + 1] = event
OBVIOUS

\* One report less.
LEMMA OneLess ==
  ASSUME NEW es \in Seq(Event), es # <<>>, NEW less, less = Tail(es)
  PROVE  /\ Len(es) \in Nat /\ DOMAIN es = 1 .. Len(es) /\ 1 \in DOMAIN es /\ Head(es) = es[1]
         /\ \A j \in DOMAIN less : j \in Nat /\ j > 0 /\ j + 1 \in DOMAIN es /\ less[j] = es[j + 1]
         /\ \A j \in DOMAIN es : j = 1 \/ (j - 1 \in DOMAIN less /\ es[j] = less[j - 1] /\ j \in Nat)
<1>1. /\ Len(es) \in Nat /\ DOMAIN es = 1 .. Len(es) /\ 1 \in DOMAIN es /\ Head(es) = es[1]
      /\ DOMAIN less = 1 .. Len(es) - 1
      /\ \A j \in 1 .. Len(es) - 1 : less[j] = es[j + 1]
  OBVIOUS
<1>2. ASSUME NEW j \in DOMAIN less
      PROVE  j \in Nat /\ j > 0 /\ j + 1 \in DOMAIN es /\ less[j] = es[j + 1]
  BY <1>1
<1>3. ASSUME NEW j \in DOMAIN es, j # 1
      PROVE  j - 1 \in DOMAIN less /\ es[j] = less[j - 1] /\ j \in Nat
  <2>1. PICK i : i = j - 1 OBVIOUS
  <2>2. i \in 1 .. Len(es) - 1 /\ i + 1 = j BY <1>1, <1>3, <2>1
  <2> QED BY <1>1, <2>1, <2>2
<1> QED BY <1>1, <1>2, <1>3

\* The driver reports something.
LEMMA ReportedMore ==
  ASSUME NEW es \in Seq(Event), NEW event \in Event, NEW more, more = Append(es, event),
         NEW history, NEW taken \in Nat, NEW now \in Nat, Reported(es, history, taken),
         \A k \in DOMAIN history : history[k].stamp \in Int,
         \A j \in DOMAIN es :
           /\ es[j].is = "shot" => es[j].shot.stamp \in Int
           /\ es[j].is = "history" => \A k \in DOMAIN es[j].infos : es[j].infos[k].stamp \in Int,
         now >= taken,
         event.is = "shot" => event.shot.live /\ event.shot.stamp = now /\ now = taken + 1,
         event.is = "history" => \A k \in DOMAIN event.infos : event.infos[k].stamp <= now
  PROVE  Reported(more, history, now)
<1>1. /\ DOMAIN es = 1 .. Len(es) /\ Len(es) \in Nat
      /\ \A j \in DOMAIN es : more[j] = es[j] /\ j <= Len(es) /\ j \in Nat
      /\ \A j \in DOMAIN more : j \in DOMAIN es \/ (j = Len(es) + 1 /\ more[j] = event)
  BY OneMore
<1>2. \A k \in DOMAIN history : history[k].stamp <= taken BY DEF Reported
<1>3. \A k \in DOMAIN history : history[k].stamp <= now BY <1>2
<1>4. Later(history, event) BY <1>2 DEF Later
<1>5. ASSUME NEW j \in DOMAIN more
      PROVE  /\ Later(history, more[j])
             /\ more[j].is = "shot" => more[j].shot.live /\ more[j].shot.stamp <= now
             /\ more[j].is = "history" => \A k \in DOMAIN more[j].infos : more[j].infos[k].stamp <= now
  <2>1. CASE j \in DOMAIN es
    <3>1. PICK e : e = es[j] OBVIOUS
    <3>2. /\ Later(history, e)
          /\ e.is = "shot" => e.shot.live /\ e.shot.stamp <= taken /\ e.shot.stamp \in Int
          /\ e.is = "history" => \A k \in DOMAIN e.infos : e.infos[k].stamp <= taken /\ e.infos[k].stamp \in Int
      BY <2>1, <3>1 DEF Reported
    <3>3. /\ e.is = "shot" => e.shot.live /\ e.shot.stamp <= now
          /\ e.is = "history" => \A k \in DOMAIN e.infos : e.infos[k].stamp <= now
      BY <3>2
    <3> QED BY <1>1, <2>1, <3>1, <3>2, <3>3
  <2>2. CASE j = Len(es) + 1 /\ more[j] = event BY <1>4, <2>2
  <2> QED BY <1>1, <2>1, <2>2
<1>6. ASSUME NEW i \in DOMAIN more, NEW j \in DOMAIN more, i < j
      PROVE  /\ more[i].is = "shot" /\ more[j].is = "shot" => more[i].shot.stamp < more[j].shot.stamp
             /\ more[i].is = "history" => Later(more[i].infos, more[j])
  <2>1. i \in DOMAIN es
    <3>1. ~ (i = Len(es) + 1) BY <1>1, <1>6
    <3> QED BY <1>1, <3>1
  <2>2. CASE j \in DOMAIN es
    BY <1>1, <1>6, <2>1, <2>2 DEF Reported
  <2>3. CASE j = Len(es) + 1 /\ more[j] = event
    <3>1. PICK e : e = es[i] OBVIOUS
    <3>2. /\ e.is = "shot" => e.shot.stamp <= taken /\ e.shot.stamp \in Int
          /\ e.is = "history" => \A k \in DOMAIN e.infos : e.infos[k].stamp <= taken /\ e.infos[k].stamp \in Int
      BY <2>1, <3>1 DEF Reported
    <3>3. e.is = "shot" /\ event.is = "shot" => e.shot.stamp < event.shot.stamp BY <3>2
    <3>4. e.is = "history" => Later(e.infos, event) BY <3>2 DEF Later
    <3> QED BY <1>1, <2>1, <2>3, <3>1, <3>3, <3>4
  <2> QED BY <1>1, <2>2, <2>3
<1> QED BY <1>3, <1>5, <1>6 DEF Reported

\* The dialog sees a report.
LEMMA ReportedLess ==
  ASSUME NEW es \in Seq(Event), es # <<>>, NEW less, less = Tail(es),
         NEW history, NEW shown, NEW taken \in Nat, Reported(es, history, taken),
         \/ shown = history \/ shown = <<>>
         \/ es[1].is = "shot" /\ history \in Seq(Shots) /\ shown = Append(history, es[1].shot)
         \/ es[1].is = "history" /\ shown = es[1].infos
  PROVE  Reported(less, shown, taken)
<1>1. /\ 1 \in DOMAIN es
      /\ \A j \in DOMAIN less : j \in Nat /\ j > 0 /\ j + 1 \in DOMAIN es /\ less[j] = es[j + 1]
  BY OneLess
<1>2. \A i, j \in DOMAIN less : i < j =>
        /\ less[i].is = "shot" /\ less[j].is = "shot" => less[i].shot.stamp < less[j].shot.stamp
        /\ less[i].is = "history" => Later(less[i].infos, less[j])
  <2>1. ASSUME NEW i \in DOMAIN less, NEW j \in DOMAIN less, i < j
        PROVE  /\ less[i].is = "shot" /\ less[j].is = "shot" => less[i].shot.stamp < less[j].shot.stamp
               /\ less[i].is = "history" => Later(less[i].infos, less[j])
    <3>1. PICK a \in DOMAIN es, b \in DOMAIN es : a < b /\ less[i] = es[a] /\ less[j] = es[b]
      <4>1. i + 1 \in DOMAIN es /\ j + 1 \in DOMAIN es /\ i + 1 < j + 1 BY <1>1, <2>1
      <4> QED BY <1>1, <4>1
    <3> QED BY <3>1 DEF Reported
  <2> QED BY <2>1
<1>3. ASSUME NEW j \in DOMAIN less
      PROVE  /\ Later(history, less[j])
             /\ less[j].is = "shot" => less[j].shot.live /\ less[j].shot.stamp <= taken
             /\ less[j].is = "history" => \A k \in DOMAIN less[j].infos : less[j].infos[k].stamp <= taken
             /\ es[1].is = "shot" /\ less[j].is = "shot" => es[1].shot.stamp < less[j].shot.stamp
             /\ es[1].is = "history" => Later(es[1].infos, less[j])
  <2>1. PICK b \in DOMAIN es : 1 < b /\ less[j] = es[b]
    <3>1. j + 1 \in DOMAIN es /\ 1 < j + 1 BY <1>1
    <3> QED BY <1>1, <3>1
  <2> QED BY <1>1, <2>1 DEF Reported
<1>4. (\A k \in DOMAIN shown : shown[k].stamp <= taken) /\ \A j \in DOMAIN less : Later(shown, less[j])
  <2>0. \A k \in DOMAIN history : history[k].stamp <= taken BY DEF Reported
  <2>1. CASE shown = history BY <1>3, <2>0, <2>1
  <2>2. CASE shown = <<>> BY <2>2 DEF Later
  <2>3. CASE es[1].is = "history" /\ shown = es[1].infos
    <3>1. \A k \in DOMAIN shown : shown[k].stamp <= taken BY <1>1, <2>3 DEF Reported
    <3> QED BY <1>3, <2>3, <3>1
  <2>4. CASE es[1].is = "shot" /\ history \in Seq(Shots) /\ shown = Append(history, es[1].shot)
    <3>1. PICK shot : shot = es[1].shot OBVIOUS
    <3>2. \A k \in DOMAIN shown : (k \in DOMAIN history /\ shown[k] = history[k]) \/ shown[k] = shot
      BY <2>4, <3>1
    <3>3. shot.stamp <= taken BY <1>1, <2>4, <3>1 DEF Reported
    <3>4. \A k \in DOMAIN shown : shown[k].stamp <= taken BY <2>0, <3>2, <3>3
    <3>5. ASSUME NEW j \in DOMAIN less, less[j].is = "shot", NEW k \in DOMAIN shown
          PROVE  shown[k].stamp < less[j].shot.stamp
      <4>1. shot.stamp < less[j].shot.stamp BY <1>3, <2>4, <3>1, <3>5
      <4>2. \A m \in DOMAIN history : history[m].stamp < less[j].shot.stamp
        BY <1>3, <3>5 DEF Later
      <4> QED BY <3>2, <4>1, <4>2
    <3> QED BY <3>4, <3>5 DEF Later
  <2> QED BY <2>1, <2>2, <2>3, <2>4
<1> QED BY <1>2, <1>3, <1>4 DEF Reported

\* The stamps in reports are numbers.
LEMMA StampsNumbers ==
  ASSUME TypeInv
  PROVE  /\ \A k \in DOMAIN infos : infos[k].stamp \in Int
         /\ \A j \in DOMAIN events :
              /\ events[j].is = "shot" => events[j].shot.stamp \in Int
              /\ events[j].is = "history" =>
                   \A k \in DOMAIN events[j].infos : events[j].infos[k].stamp \in Int
<1>1. \A s \in Shots : s.stamp \in Int BY DEF Shots, Garbled
<1>2. \A history \in Seq(Shots) : \A k \in DOMAIN history : history[k].stamp \in Int BY <1>1
<1>3. \A event \in Event :
        /\ event.is = "shot" => event.shot \in Shots
        /\ event.is = "history" => event.infos \in Seq(Shots)
  BY DEF Event
<1>4. infos \in Seq(Shots) /\ events \in Seq(Event) BY DEF TypeInv, TypeOK
<1>5. \A j \in DOMAIN events : events[j] \in Event BY <1>4
<1> QED BY <1>1, <1>2, <1>3, <1>4, <1>5

\* Nothing is reported in the beginning.
LEMMA InitEvents == Init => EventsInv
BY DEF Init, EventsInv, Reported

\* A step that adds a report.
LEMMA EventsMore ==
  ASSUME TypeInv, EventsInv, NEW event \in Event, events' = Append(events, event),
         UNCHANGED <<dialog, infos>>, shots' \in Nat, shots' >= shots,
         event.is = "shot" => event.shot.live /\ event.shot.stamp = shots' /\ shots' = shots + 1,
         event.is = "history" => \A k \in DOMAIN event.infos : event.infos[k].stamp <= shots'
  PROVE  EventsInv'
<1>1. events \in Seq(Event) /\ shots \in Nat BY DEF TypeInv, TypeOK
<1>0. PICK more, history : more = events' /\ history = infos OBVIOUS
<1>2. PICK es \in Seq(Event), taken \in Nat, now \in Nat :
        es = events /\ more = events' /\ history = infos /\ taken = shots /\ now = shots'
  BY <1>0, <1>1
<1>3. Reported(es, history, taken) BY <1>2 DEF EventsInv
<1>4. more = Append(es, event) BY <1>2
<1>5. /\ \A k \in DOMAIN history : history[k].stamp \in Int
      /\ \A j \in DOMAIN es :
           /\ es[j].is = "shot" => es[j].shot.stamp \in Int
           /\ es[j].is = "history" => \A k \in DOMAIN es[j].infos : es[j].infos[k].stamp \in Int
  BY <1>2, StampsNumbers
<1>6. /\ now >= taken
      /\ event.is = "shot" => event.shot.live /\ event.shot.stamp = now /\ now = taken + 1
      /\ event.is = "history" => \A k \in DOMAIN event.infos : event.infos[k].stamp <= now
  BY <1>2
<1>7. Reported(more, history, now) BY <1>3, <1>4, <1>5, <1>6, ReportedMore
<1>8. Reported(events', infos', shots') BY <1>2, <1>7
<1>9. Reported(events, infos, shots)' BY <1>8 DEF Reported, Later
<1> QED BY <1>9 DEF EventsInv

\* Every step keeps the reports in order.
LEMMA NextEvents == TypeInv /\ FileInv /\ EventsInv /\ [Next]_vars => EventsInv'
<1> SUFFICES ASSUME TypeInv, FileInv, EventsInv, [Next]_vars PROVE EventsInv' OBVIOUS
<1>0. /\ TypeOK /\ shots \in Nat /\ kept \subseteq 1 .. shots
      /\ events \in Seq(Event) /\ infos \in Seq(Shots)
  BY DEF TypeInv, TypeOK
<1>1. CASE TimerEvent
  <2>1. PICK n \in 1 .. MaxShots : n = shots + 1 /\ shots' = n
    <3>1. shots + 1 \in 1 .. MaxShots /\ shots' = shots + 1
      BY <1>0, <1>1, ConstantsAssumption DEF TimerEvent, TypeOK
    <3> QED BY <3>1
  <2>2. PICK event : event = [is |-> "shot", shot |-> [stamp |-> n, data |-> <<>>, live |-> TRUE]]
    OBVIOUS
  <2>3. event \in Event
    <3>1. [stamp |-> n, data |-> <<>>, live |-> TRUE] \in Shots BY Nothing DEF Shots
    <3> QED BY <2>2, <3>1 DEF Event
  <2>4. events' = Append(events, event) BY <1>1, <2>1, <2>2 DEF TimerEvent, Shot
  <2>5. event.is = "shot" /\ event.shot.live /\ event.shot.stamp = n BY <2>2
  <2>6. UNCHANGED <<dialog, infos>> BY <1>1 DEF TimerEvent, dialogVars
  <2>7. shots' \in Nat /\ shots' >= shots /\ shots' = shots + 1 BY <1>0, <2>1
  <2> QED BY <2>1, <2>3, <2>4, <2>5, <2>6, <2>7, EventsMore
<1>2. CASE ClearServerHistory
  <2>1. UNCHANGED <<dialog, infos, shots>> BY <1>2 DEF ClearServerHistory, dialogVars
  <2>2. CASE events' = Append(events, [is |-> "cleared"])
    <3>1. PICK event : event = [is |-> "cleared"] OBVIOUS
    <3>2. event \in Event BY <3>1 DEF Event
    <3>3. event.is = "cleared" BY <3>1
    <3>4. events' = Append(events, event) BY <2>2, <3>1
    <3> QED BY <1>0, <2>1, <3>2, <3>3, <3>4, EventsMore
  <2>3. CASE events' = events BY <2>1, <2>3 DEF EventsInv, Reported, Later
  <2> QED BY <1>2, <2>2, <2>3 DEF ClearServerHistory
<1>3. CASE LoadServerInfoHistory
  <2>1. UNCHANGED <<dialog, infos, shots>> BY <1>3 DEF LoadServerInfoHistory, dialogVars, shotVars
  <2>2. PICK misread \in SUBSET Glued :
          events' = Append(events, IF exists THEN [is |-> "history", infos |-> Parsed(misread)]
                                             ELSE [is |-> "not found"])
    BY <1>3 DEF LoadServerInfoHistory
  <2>3. PICK history \in Seq(Shots) : history = Parsed(misread) BY <1>0, ParsedIs DEF TypeOK
  <2>4. \A k \in DOMAIN history : history[k].stamp <= shots
    <3>1. \A k \in DOMAIN history : history[k].stamp \in kept \cup {Garbled}
      BY <1>0, <2>3, HistoryRead
    <3>2. \A s \in kept \cup {Garbled} : s <= shots BY <1>0 DEF Garbled
    <3> QED BY <3>1, <3>2
  <2>5. CASE exists
    <3>1. PICK event : event = [is |-> "history", infos |-> history] OBVIOUS
    <3>2. event \in Event BY <3>1 DEF Event
    <3>3. event.is = "history" /\ event.infos = history BY <3>1
    <3>4. events' = Append(events, event) BY <2>2, <2>3, <2>5, <3>1
    <3> QED BY <1>0, <2>1, <2>4, <3>2, <3>3, <3>4, EventsMore
  <2>6. CASE ~ exists
    <3>1. PICK event : event = [is |-> "not found"] OBVIOUS
    <3>2. event \in Event BY <3>1 DEF Event
    <3>3. event.is = "not found" BY <3>1
    <3>4. events' = Append(events, event) BY <2>2, <2>6, <3>1
    <3>5. shots' \in Nat /\ shots' >= shots /\ dialog' = dialog /\ infos' = infos BY <1>0, <2>1
    <3> QED BY <3>2, <3>3, <3>4, <3>5, EventsMore
  <2> QED BY <2>5, <2>6
<1>4. CASE Report
  <2>1. events # <<>> /\ events' = Tail(events) /\ shots' = shots /\ dialog' = dialog
    BY <1>4 DEF Report, shotVars
  <2>0. PICK less, history, shown : less = events' /\ history = infos /\ shown = infos' OBVIOUS
  <2>2. PICK es \in Seq(Event), taken \in Nat :
          es = events /\ less = events' /\ history = infos /\ shown = infos' /\ taken = shots
    BY <1>0, <2>0
  <2>3. Reported(es, history, taken) BY <2>2 DEF EventsInv
  <2>4. es # <<>> /\ less = Tail(es) BY <2>1, <2>2
  <2>5. Head(es) = es[1] BY <2>4, OneLess
  <2>6. \/ shown = history
        \/ es[1].is = "shot" /\ history \in Seq(Shots) /\ shown = Append(history, es[1].shot)
        \/ es[1].is = "history" /\ shown = es[1].infos
    BY <1>0, <1>4, <2>2, <2>5, ReportInfos
  <2>7. Reported(less, shown, taken) BY <2>3, <2>4, <2>6, ReportedLess
  <2>8. Reported(events', infos', shots') BY <2>1, <2>2, <2>7
  <2>9. Reported(events, infos, shots)' BY <2>8 DEF Reported, Later
  <2>10. ~ dialog' => infos' = <<>> BY <1>0, <1>4, <2>1, ReportInfos DEF EventsInv
  <2> QED BY <2>9, <2>10 DEF EventsInv
<1>5. CASE ShowDialog \/ CloseDialog
  <2>1. infos' = <<>> /\ events' = events /\ shots' = shots
    BY <1>5 DEF ShowDialog, CloseDialog, shotVars
  <2>2. Reported(events, infos, shots)' BY <2>1 DEF EventsInv, Reported, Later
  <2> QED BY <2>1, <2>2 DEF EventsInv
<1>6. CASE Killed
  <2>1. infos' = <<>> /\ events' = <<>> BY <1>6 DEF Killed
  <2>2. Reported(events, infos, shots)' BY <2>1 DEF Reported
  <2> QED BY <2>1, <2>2 DEF EventsInv
<1>7. CASE TimerOpens \/ Restart \/ ClearHistory \/ UNCHANGED vars
  <2>1. UNCHANGED <<dialog, infos, events, shots>>
    BY <1>7 DEF TimerOpens, Restart, ClearHistory, dialogVars, shotVars, vars
  <2> QED BY <2>1 DEF EventsInv, Reported, Later
<1> QED BY <1>1, <1>2, <1>3, <1>4, <1>5, <1>6, <1>7 DEF Next

-----------------------------------------------------------------------------
(* What the dialog will show. *)

\* A shot is taken and reported.
LEMMA CoversMore ==
  ASSUME NEW es \in Seq(Event), NEW event \in Event, NEW more, more = Append(es, event),
         NEW history, NEW h \in Nat, NEW sound, NEW held, NEW n, h <= Len(es),
         event.is = "shot", event.shot.stamp = n,
         \A k \in DOMAIN history : history[k].stamp # n,
         Covers(history, es, h, sound, held)
  PROVE  \A s \in SUBSET (sound \cup {n}) : Covers(history, more, h, s, held \cup {n})
<1> SUFFICES ASSUME NEW s \in SUBSET (sound \cup {n})
             PROVE  Covers(history, more, h, s, held \cup {n})
  OBVIOUS
<1>1. /\ Len(es) \in Nat
      /\ \A j \in DOMAIN es : j \in DOMAIN more /\ more[j] = es[j]
      /\ \A j \in DOMAIN more : j \in DOMAIN es \/ more[j] = event
      /\ Len(es) + 1 \in DOMAIN more /\ more[Len(es) + 1] = event
  BY OneMore
<1>2. ASSUME NEW m \in s
      PROVE  \/ \E i \in DOMAIN history : history[i].stamp = m
             \/ \E j \in DOMAIN more : j > h /\ more[j].is = "shot" /\ more[j].shot.stamp = m
  <2>1. CASE m = n
    <3>1. PICK j : j = Len(es) + 1 OBVIOUS
    <3>2. j \in DOMAIN more /\ j > h /\ more[j] = event BY <1>1, <3>1
    <3> QED BY <2>1, <3>2
  <2>2. CASE m # n
    <3>1. m \in sound BY <2>2
    <3>2. CASE \E i \in DOMAIN history : history[i].stamp = m BY <3>2
    <3>3. CASE \E j \in DOMAIN es : j > h /\ es[j].is = "shot" /\ es[j].shot.stamp = m
      BY <1>1, <3>3
    <3> QED BY <3>1, <3>2, <3>3 DEF Covers
  <2> QED BY <2>1, <2>2
<1>3. \A i \in DOMAIN history : history[i].stamp \in s => history[i].stamp \in sound OBVIOUS
<1>4. ASSUME NEW j \in DOMAIN more, j > h, more[j].is = "shot"
      PROVE  more[j].shot.stamp \in held \cup {n}
  <2>1. CASE j \in DOMAIN es BY <1>1, <1>4, <2>1 DEF Covers
  <2>2. CASE more[j] = event BY <2>2
  <2> QED BY <1>1, <2>1, <2>2
<1> QED BY <1>2, <1>3, <1>4 DEF Covers

\* The dialog sees a report before those that matter.
LEMMA CoversLess ==
  ASSUME NEW es \in Seq(Event), es # <<>>, NEW less, less = Tail(es),
         NEW history, NEW h \in Nat, NEW sound, NEW held, Covers(history, es, h + 1, sound, held)
  PROVE  Covers(history, less, h, sound, held)
<1>1. /\ \A j \in DOMAIN less : j \in Nat /\ j + 1 \in DOMAIN es /\ less[j] = es[j + 1]
      /\ \A j \in DOMAIN es : j = 1 \/ (j - 1 \in DOMAIN less /\ es[j] = less[j - 1] /\ j \in Nat)
  BY OneLess
<1>2. ASSUME NEW j \in DOMAIN es, j > h + 1
      PROVE  \E i \in DOMAIN less : i > h /\ less[i] = es[j]
  <2>1. j - 1 \in DOMAIN less /\ es[j] = less[j - 1] /\ j \in Nat BY <1>1, <1>2
  <2>2. j - 1 > h BY <1>2, <2>1
  <2> QED BY <2>1, <2>2
<1>3. ASSUME NEW n \in sound
      PROVE  \/ \E i \in DOMAIN history : history[i].stamp = n
             \/ \E j \in DOMAIN less : j > h /\ less[j].is = "shot" /\ less[j].shot.stamp = n
  <2>1. CASE \E i \in DOMAIN history : history[i].stamp = n BY <2>1
  <2>2. CASE \E j \in DOMAIN es : j > h + 1 /\ es[j].is = "shot" /\ es[j].shot.stamp = n
    BY <1>2, <2>2
  <2> QED BY <2>1, <2>2 DEF Covers
<1>4. ASSUME NEW j \in DOMAIN less, j > h, less[j].is = "shot"
      PROVE  less[j].shot.stamp \in held
  <2>1. PICK i \in DOMAIN es : i > h + 1 /\ less[j] = es[i]
    <3>1. j + 1 \in DOMAIN es /\ less[j] = es[j + 1] /\ j + 1 > h + 1 BY <1>1, <1>4
    <3> QED BY <3>1
  <2> QED BY <1>4, <2>1 DEF Covers
<1> QED BY <1>3, <1>4 DEF Covers

\* The dialog adds a shot.
LEMMA CoversShown ==
  ASSUME NEW es \in Seq(Event), es # <<>>, NEW less, less = Tail(es), es[1].is = "shot",
         es[1].shot.live, NEW history \in Seq(Shots), Later(history, es[1]),
         NEW shown, shown = Append(history, es[1].shot),
         NEW sound, NEW held, Covers(history, es, 0, sound, held)
  PROVE  Covers(shown, less, 0, sound, held)
<1>1. /\ 1 \in DOMAIN es
      /\ \A j \in DOMAIN less : j \in Nat /\ j > 0 /\ j + 1 \in DOMAIN es /\ less[j] = es[j + 1]
      /\ \A j \in DOMAIN es : j = 1 \/ (j - 1 \in DOMAIN less /\ es[j] = less[j - 1] /\ j \in Nat)
  BY OneLess
<1>0. PICK shot : shot = es[1].shot OBVIOUS
<1>2. PICK N \in Nat : shot = es[1].shot /\ N = Len(history) BY <1>0
<1>3. /\ DOMAIN history = 1 .. N /\ DOMAIN shown = 1 .. N + 1
      /\ \A k \in 1 .. N : shown[k] = history[k]
      /\ shown[N + 1] = shot
  BY <1>2
<1>4. \A k \in DOMAIN shown :
        (k \in DOMAIN history /\ shown[k] = history[k]) \/ (k = N + 1 /\ shown[k] = shot)
  BY <1>3
<1>5. \A k \in DOMAIN history : history[k].stamp < shot.stamp BY <1>2 DEF Later
<1>6. ASSUME NEW n \in sound
      PROVE  \/ \E i \in DOMAIN shown : shown[i].stamp = n
             \/ \E j \in DOMAIN less : j > 0 /\ less[j].is = "shot" /\ less[j].shot.stamp = n
  <2>1. CASE \E i \in DOMAIN history : history[i].stamp = n BY <1>3, <2>1
  <2>2. CASE \E j \in DOMAIN es : j > 0 /\ es[j].is = "shot" /\ es[j].shot.stamp = n
    <3>1. PICK j \in DOMAIN es : es[j].is = "shot" /\ es[j].shot.stamp = n BY <2>2
    <3>2. CASE j = 1
      <4>1. PICK i : i = N + 1 OBVIOUS
      <4>2. i \in DOMAIN shown /\ shown[i].stamp = n BY <1>2, <1>3, <3>1, <3>2, <4>1
      <4> QED BY <4>2
    <3>3. CASE j # 1
      <4>1. PICK i \in DOMAIN less : less[i] = es[j] BY <1>1, <3>3
      <4> QED BY <1>1, <3>1, <4>1
    <3> QED BY <3>2, <3>3
  <2> QED BY <2>1, <2>2 DEF Covers
<1>7. ASSUME NEW i \in DOMAIN shown, NEW j \in DOMAIN shown, i < j,
             shown[i].stamp \in sound, shown[j].stamp \in sound
      PROVE  shown[i].stamp < shown[j].stamp
  <2>1. i \in DOMAIN history /\ shown[i] = history[i]
    <3>1. i \in 1 .. N BY <1>3, <1>7
    <3> QED BY <1>3, <3>1
  <2>2. CASE j \in DOMAIN history /\ shown[j] = history[j] BY <1>7, <2>1, <2>2 DEF Covers
  <2>3. CASE shown[j] = shot BY <1>5, <2>1, <2>3
  <2> QED BY <1>4, <2>2, <2>3
<1>8. ASSUME NEW i \in DOMAIN shown
      PROVE  /\ shown[i].stamp \in sound =>
                  shown[i].live \/ shown[i].data = Tail(Pieces(shown[i].stamp))
             /\ shown[i].stamp \in held \cup {Garbled}
  <2>1. CASE i \in DOMAIN history /\ shown[i] = history[i] BY <2>1 DEF Covers
  <2>2. CASE shown[i] = shot
    <3>1. shot.stamp \in held BY <1>1, <1>2 DEF Covers
    <3> QED BY <1>2, <2>2, <3>1
  <2> QED BY <1>4, <2>1, <2>2
<1>9. ASSUME NEW j \in DOMAIN less, less[j].is = "shot" PROVE less[j].shot.stamp \in held
  <2>1. PICK i \in DOMAIN es : i > 0 /\ less[j] = es[i]
    <3>1. j + 1 \in DOMAIN es /\ less[j] = es[j + 1] /\ j + 1 > 0 BY <1>1
    <3> QED BY <3>1
  <2> QED BY <1>9, <2>1 DEF Covers
<1> QED BY <1>6, <1>7, <1>8, <1>9 DEF Covers

\* A report that is no answer leaves the last answer where it is.
LEMMA AnswerStays ==
  ASSUME NEW es \in Seq(Event), NEW event \in Event, NEW more, more = Append(es, event),
         ~ IsAnswer(event), NEW h \in Nat, LastAnswer(more, h)
  PROVE  LastAnswer(es, h) /\ h <= Len(es) /\ (h # 0 => more[h] = es[h])
<1>1. /\ Len(es) \in Nat
      /\ \A j \in DOMAIN es : j \in DOMAIN more /\ more[j] = es[j] /\ j <= Len(es)
      /\ \A j \in DOMAIN more : j \in DOMAIN es \/ more[j] = event
  BY OneMore
<1>2. h = 0 \/ (h \in DOMAIN es /\ IsAnswer(es[h])) BY <1>1 DEF LastAnswer
<1>3. \A j \in DOMAIN es : IsAnswer(es[j]) => j <= h BY <1>1 DEF LastAnswer
<1> QED BY <1>1, <1>2, <1>3 DEF LastAnswer

\* An answer is the last one.
LEMMA AnswerLast ==
  ASSUME NEW es \in Seq(Event), NEW event \in Event, NEW more, more = Append(es, event),
         IsAnswer(event), NEW h \in Nat, LastAnswer(more, h)
  PROVE  h = Len(es) + 1 /\ more[h] = event /\ \A j \in DOMAIN more : ~ (j > h)
<1>1. /\ Len(es) \in Nat /\ DOMAIN more = 1 .. Len(es) + 1
      /\ Len(es) + 1 \in DOMAIN more /\ more[Len(es) + 1] = event
  BY OneMore
<1>2. Len(es) + 1 <= h BY <1>1 DEF LastAnswer
<1>3. h \in DOMAIN more BY <1>1, <1>2 DEF LastAnswer
<1>4. h = Len(es) + 1 BY <1>1, <1>2, <1>3
<1> QED BY <1>1, <1>4

\* Where the last answer is after the dialog has seen a report.
LEMMA AnswerSeen ==
  ASSUME NEW es \in Seq(Event), es # <<>>, NEW less, less = Tail(es), NEW h \in Nat,
         LastAnswer(less, h)
  PROVE  /\ h # 0 => LastAnswer(es, h + 1) /\ less[h] = es[h + 1]
         /\ h = 0 /\ IsAnswer(es[1]) => LastAnswer(es, 1)
         /\ h = 0 /\ ~ IsAnswer(es[1]) => LastAnswer(es, 0)
<1>1. /\ 1 \in DOMAIN es
      /\ \A j \in DOMAIN less : j + 1 \in DOMAIN es /\ less[j] = es[j + 1]
      /\ \A j \in DOMAIN es : j = 1 \/ (j - 1 \in DOMAIN less /\ es[j] = less[j - 1] /\ j \in Nat)
  BY OneLess
<1>2. ASSUME NEW j \in DOMAIN es, j # 1, IsAnswer(es[j]) PROVE j \in Nat /\ j <= h + 1
  <2>1. PICK i \in DOMAIN less : i = j - 1 /\ es[j] = less[i] /\ j \in Nat BY <1>1, <1>2
  <2>2. i <= h BY <1>2, <2>1 DEF LastAnswer
  <2> QED BY <2>1, <2>2
<1>3. ASSUME h # 0 PROVE LastAnswer(es, h + 1) /\ less[h] = es[h + 1]
  <2>1. h \in DOMAIN less /\ IsAnswer(less[h]) BY <1>3 DEF LastAnswer
  <2>2. h + 1 \in DOMAIN es /\ less[h] = es[h + 1] BY <1>1, <2>1
  <2>3. \A j \in DOMAIN es : IsAnswer(es[j]) => j <= h + 1 BY <1>2
  <2> QED BY <2>1, <2>2, <2>3 DEF LastAnswer
<1>4. ASSUME h = 0, IsAnswer(es[1]) PROVE LastAnswer(es, 1)
  <2>1. \A j \in DOMAIN es : IsAnswer(es[j]) => j <= 1 BY <1>2, <1>4
  <2> QED BY <1>1, <1>4, <2>1 DEF LastAnswer
<1>5. ASSUME h = 0, ~ IsAnswer(es[1]) PROVE LastAnswer(es, 0)
  <2>1. ASSUME NEW j \in DOMAIN es, IsAnswer(es[j]) PROVE FALSE
    <3>1. PICK i \in DOMAIN less : es[j] = less[i] BY <1>1, <1>5, <2>1
    <3>2. i <= 0 BY <1>5, <2>1, <3>1 DEF LastAnswer
    <3>3. i \in Nat /\ i > 0 BY OneLess
    <3> QED BY <3>2, <3>3
  <2> QED BY <2>1 DEF LastAnswer
<1> QED BY <1>3, <1>4, <1>5

\* There is no dialog in the beginning.
LEMMA InitDialog == Init => DialogInv
BY DEF Init, DialogInv

\* Every step keeps track of what the dialog will show.
LEMMA NextDialog == TypeInv /\ FileInv /\ EventsInv /\ DialogInv /\ [Next]_vars => DialogInv'
<1> SUFFICES ASSUME TypeInv, FileInv, EventsInv, DialogInv, [Next]_vars PROVE DialogInv' OBVIOUS
<1>0. /\ TypeOK /\ shots \in Nat /\ kept \subseteq 1 .. shots
      /\ events \in Seq(Event) /\ infos \in Seq(Shots) /\ asked \in Seq({"load", "clear"})
  BY DEF TypeInv, TypeOK
<1>01. PICK es \in Seq(Event), old \in Seq(Shots) : es = events /\ old = infos BY <1>0
<1>02. PICK new, now, held, sound :
         new = events' /\ now = infos' /\ held = kept' /\ sound = Sound'
  OBVIOUS
<1>03. SUFFICES ASSUME dialog', ~ Pending', NEW h \in Nat, LastAnswer(new, h)
                PROVE  (h = 0 /\ missed') \/ Covers(Base(new, now, h), new, h, sound, held)
  <2>1. ASSUME \A h \in Nat : dialog' /\ ~ Pending' /\ LastAnswer(new, h) =>
                 (h = 0 /\ missed') \/ Covers(Base(new, now, h), new, h, sound, held)
        PROVE  DialogInv'
    <3>1. ASSUME dialog', ~ Pending', NEW h \in Nat, LastAnswer(events', h)
          PROVE  (h = 0 /\ missed') \/ Covers(Base(events', infos', h), events', h, Sound', kept')
      BY <1>02, <2>1, <3>1
    <3> QED BY <3>1 DEF DialogInv, LastAnswer, IsAnswer, Covers, Base, Pieces
  <2> QED BY <2>1
<1>04. ASSUME dialog, ~ Pending, NEW g \in Nat, LastAnswer(es, g)
       PROVE  (g = 0 /\ missed) \/ Covers(Base(es, old, g), es, g, Sound, kept)
  BY <1>01, <1>04 DEF DialogInv
<1>1. CASE TimerEvent
  <2>1. PICK n \in 1 .. MaxShots : n = shots + 1 /\ shots' = n
    <3>1. shots + 1 \in 1 .. MaxShots /\ shots' = shots + 1
      BY <1>0, <1>1, ConstantsAssumption DEF TimerEvent, TypeOK
    <3> QED BY <3>1
  <2>2. PICK event : event = [is |-> "shot", shot |-> [stamp |-> n, data |-> <<>>, live |-> TRUE]]
    OBVIOUS
  <2>3. event \in Event
    <3>1. [stamp |-> n, data |-> <<>>, live |-> TRUE] \in Shots BY Nothing DEF Shots
    <3> QED BY <2>2, <3>1 DEF Event
  <2>4. new = Append(es, event) BY <1>1, <1>01, <1>02, <2>1, <2>2 DEF TimerEvent, Shot
  <2>5. event.is = "shot" /\ event.shot.stamp = n /\ ~ IsAnswer(event) BY <2>2 DEF IsAnswer
  <2>6. UNCHANGED <<dialog, infos, missed, asked, torn>> /\ kept' = kept \cup {n}
    BY <1>1, <2>1 DEF TimerEvent, dialogVars
  <2>7. ~ Pending
    <3>1. \A j \in DOMAIN es : j \in DOMAIN new /\ new[j] = es[j] BY <2>3, <2>4, OneMore
    <3>2. ~ \E j \in DOMAIN new : new[j].is = "cleared" BY <1>02, <1>03 DEF Pending
    <3>3. ~ \E i \in DOMAIN asked : asked[i] = "load" BY <1>03, <2>6 DEF Pending
    <3> QED BY <1>01, <3>1, <3>2, <3>3 DEF Pending
  <2>8. LastAnswer(es, h) /\ h <= Len(es) /\ (h # 0 => new[h] = es[h])
    BY <1>03, <2>3, <2>4, <2>5, AnswerStays
  <2>9. (h = 0 /\ missed) \/ Covers(Base(es, old, h), es, h, Sound, kept)
    BY <1>03, <1>04, <2>6, <2>7, <2>8
  <2>10. CASE h = 0 /\ missed BY <2>6, <2>10
  <2>11. CASE Covers(Base(es, old, h), es, h, Sound, kept)
    <3>1. PICK history : history = Base(es, old, h) OBVIOUS
    <3>2. history = Base(new, now, h) BY <1>01, <1>02, <2>6, <2>8, <3>1 DEF Base
    <3>3. \A k \in DOMAIN history : history[k].stamp # n
      <4>1. Reported(es, old, shots) BY <1>01 DEF EventsInv
      <4>2. h # 0 => h \in DOMAIN es BY <2>8 DEF LastAnswer
      <4>3. \A k \in DOMAIN history : history[k].stamp <= shots
        BY <3>1, <4>1, <4>2 DEF Base, Reported
      <4> QED BY <1>0, <2>1, <4>3
    <3>4. sound \in SUBSET (Sound \cup {n}) /\ held = kept \cup {n}
      BY <1>02, <2>6 DEF Sound
    <3>5. PICK s0, k0 : s0 = Sound /\ k0 = kept OBVIOUS
    <3>6. Covers(history, es, h, s0, k0) BY <2>11, <3>1, <3>5
    <3>7. \A s \in SUBSET (s0 \cup {n}) : Covers(history, new, h, s, k0 \cup {n})
      BY <2>3, <2>4, <2>5, <2>8, <3>3, <3>6, CoversMore
    <3> QED BY <3>2, <3>4, <3>5, <3>7
  <2> QED BY <2>9, <2>10, <2>11
<1>2. CASE ClearServerHistory
  <2>1. UNCHANGED <<dialog, infos, missed>> /\ asked' = Tail(asked) /\ asked # <<>> /\ Head(asked) = "clear"
    BY <1>2 DEF ClearServerHistory, dialogVars
  <2>2. CASE events' = Append(events, [is |-> "cleared"])
    <3>1. PICK event : event = [is |-> "cleared"] OBVIOUS
    <3>2. event \in Event /\ event.is = "cleared" BY <3>1 DEF Event
    <3>3. new = Append(es, event) BY <1>01, <1>02, <2>2, <3>1
    <3>4. Len(es) + 1 \in DOMAIN new /\ new[Len(es) + 1] = event BY <3>2, <3>3, OneMore
    <3>5. Pending' BY <1>02, <3>2, <3>4 DEF Pending
    <3> QED BY <1>03, <3>5
  <2>3. CASE UNCHANGED <<kept, torn, events>>
    <3>1. ~ Pending
      <4>1. ~ \E j \in DOMAIN events : events[j].is = "cleared" BY <1>03, <2>3 DEF Pending
      <4>2. ~ \E i \in DOMAIN asked' : asked'[i] = "load" BY <1>03 DEF Pending
      <4>3. ASSUME NEW i \in DOMAIN asked, asked[i] = "load" PROVE FALSE
        <5>1. i # 1 BY <1>0, <2>1, <4>3
        <5>2. i - 1 \in DOMAIN asked' /\ asked'[i - 1] = asked[i] BY <1>0, <2>1, <5>1
        <5> QED BY <4>2, <4>3, <5>2
      <4> QED BY <4>1, <4>3 DEF Pending
    <3>2. new = es /\ now = old /\ sound = Sound /\ held = kept
      BY <1>01, <1>02, <2>1, <2>3 DEF Sound
    <3>3. dialog /\ missed' = missed BY <1>03, <2>1
    <3> QED BY <1>03, <1>04, <3>1, <3>2, <3>3
  <2> QED BY <1>2, <2>2, <2>3 DEF ClearServerHistory
<1>3. CASE LoadServerInfoHistory
  <2>1. UNCHANGED <<exists, kept, torn>> BY <1>3 DEF LoadServerInfoHistory, fileVars, shotVars
  <2>2. PICK misread \in SUBSET Glued :
          events' = Append(events, IF exists THEN [is |-> "history", infos |-> Parsed(misread)]
                                             ELSE [is |-> "not found"])
    BY <1>3 DEF LoadServerInfoHistory
  <2>3. PICK history \in Seq(Shots) : history = Parsed(misread) BY <1>0, ParsedIs DEF TypeOK
  <2>4. sound = Sound /\ held = kept BY <1>02, <2>1 DEF Sound
  <2>5. CASE exists
    <3>1. PICK event : event = [is |-> "history", infos |-> history] OBVIOUS
    <3>2. event \in Event BY <3>1 DEF Event
    <3>3. event.is = "history" /\ event.infos = history /\ IsAnswer(event) BY <3>1 DEF IsAnswer
    <3>4. new = Append(es, event) BY <1>01, <1>02, <2>2, <2>3, <2>5, <3>1
    <3>5. h = Len(es) + 1 /\ new[h] = event /\ \A j \in DOMAIN new : ~ (j > h)
      BY <1>03, <3>2, <3>3, <3>4, AnswerLast
    <3>6. h # 0 BY <3>5
    <3>7. Base(new, now, h) = history BY <3>3, <3>5, <3>6 DEF Base
    <3>8. /\ \A n \in sound : \E i \in DOMAIN history : history[i].stamp = n
          /\ \A i, j \in DOMAIN history :
               i < j /\ history[i].stamp \in sound /\ history[j].stamp \in sound =>
                 history[i].stamp < history[j].stamp
          /\ \A i \in DOMAIN history : history[i].stamp \in sound =>
               history[i].live \/ history[i].data = Tail(Pieces(history[i].stamp))
          /\ \A i \in DOMAIN history : history[i].stamp \in held \cup {Garbled}
      BY <1>0, <2>3, <2>4, HistoryRead
    <3>9. Covers(history, new, h, sound, held) BY <3>5, <3>8 DEF Covers
    <3> QED BY <3>7, <3>9
  <2>6. CASE ~ exists
    <3>1. PICK event : event = [is |-> "not found"] OBVIOUS
    <3>2. event \in Event BY <3>1 DEF Event
    <3>3. event.is = "not found" /\ IsAnswer(event) BY <3>1 DEF IsAnswer
    <3>4. new = Append(es, event) BY <1>01, <1>02, <2>2, <2>6, <3>1
    <3>5. h = Len(es) + 1 /\ new[h] = event /\ \A j \in DOMAIN new : ~ (j > h)
      BY <1>03, <3>2, <3>3, <3>4, AnswerLast
    <3>6. h # 0 BY <3>5
    <3>7. Base(new, now, h) = <<>> BY <3>3, <3>5, <3>6 DEF Base
    <3>8. sound = {} BY <2>4, <2>6 DEF FileInv, KeptInv, Sound
    <3>9. Covers(<<>>, new, h, sound, held) BY <3>5, <3>8 DEF Covers
    <3> QED BY <3>7, <3>9
  <2> QED BY <2>5, <2>6
<1>4. CASE Report
  <2>1. events # <<>> /\ events' = Tail(events) /\ dialog' = dialog /\ UNCHANGED <<kept, torn>>
    BY <1>4 DEF Report, shotVars
  <2>2. es # <<>> /\ new = Tail(es) /\ sound = Sound /\ held = kept
    BY <1>01, <1>02, <2>1 DEF Sound
  <2>3. PICK first \in Event : first = es[1] /\ first = Head(events)
    <3>1. Head(es) = es[1] BY <2>2, OneLess
    <3>2. Head(es) \in Event BY <2>2
    <3> QED BY <1>01, <3>1, <3>2
  <2>4. dialog BY <1>03, <2>1
  <2>5. asked' = IF first.is = "cleared" THEN Append(asked, "load") ELSE asked
    BY <1>4, <2>3, <2>4 DEF Report
  <2>6. first.is # "cleared"
    <3>1. ASSUME first.is = "cleared" PROVE Pending'
      <4>1. asked' = Append(asked, "load") BY <2>5, <3>1
      <4>2. Len(asked) + 1 \in DOMAIN asked' /\ asked'[Len(asked) + 1] = "load" BY <1>0, <4>1
      <4> QED BY <4>2 DEF Pending
    <3> QED BY <1>03, <3>1
  <2>7. ~ Pending
    <3>1. ~ \E i \in DOMAIN asked : asked[i] = "load" BY <1>03, <2>5, <2>6 DEF Pending
    <3>2. ~ \E j \in DOMAIN new : new[j].is = "cleared" BY <1>02, <1>03 DEF Pending
    <3>3. \A j \in DOMAIN es : j = 1 \/ (j - 1 \in DOMAIN new /\ es[j] = new[j - 1]) BY <2>2, OneLess
    <3> QED BY <1>01, <2>3, <2>6, <3>1, <3>2, <3>3 DEF Pending
  <2>8. /\ h # 0 => LastAnswer(es, h + 1) /\ new[h] = es[h + 1]
        /\ h = 0 /\ IsAnswer(es[1]) => LastAnswer(es, 1)
        /\ h = 0 /\ ~ IsAnswer(es[1]) => LastAnswer(es, 0)
    BY <1>03, <2>2, AnswerSeen
  <2>9. PICK s0, k0 : s0 = Sound /\ k0 = kept OBVIOUS
  <2>10. CASE h # 0
    <3>1. h + 1 \in Nat /\ h + 1 # 0 OBVIOUS
    <3>2. Covers(Base(es, old, h + 1), es, h + 1, Sound, kept)
      BY <1>04, <2>4, <2>7, <2>8, <2>10, <3>1
    <3>3. PICK history : history = Base(es, old, h + 1) OBVIOUS
    <3>4. history = Base(new, now, h) BY <2>8, <2>10, <3>1, <3>3 DEF Base
    <3>5. Covers(history, es, h + 1, s0, k0) BY <2>9, <3>2, <3>3
    <3>6. Covers(history, new, h, s0, k0) BY <2>2, <3>5, CoversLess
    <3> QED BY <2>2, <2>9, <3>4, <3>6
  <2>11. CASE h = 0 /\ IsAnswer(es[1])
    <3>1. PICK one \in Nat : one = 1 /\ one = 0 + 1 OBVIOUS
    <3>2. Covers(Base(es, old, one), es, one, Sound, kept)
      BY <1>04, <2>4, <2>7, <2>8, <2>11, <3>1
    <3>3. PICK history : history = Base(es, old, one) OBVIOUS
    <3>4. Covers(history, es, 0 + 1, s0, k0) BY <2>9, <3>1, <3>2, <3>3
    <3>5. Covers(history, new, 0, s0, k0) BY <2>2, <3>4, CoversLess
    <3>8. one # 0 BY <3>1
    <3>9. es[one] = first BY <2>3, <3>1, Zenon
    <3>10. history = IF first.is = "history" THEN first.infos ELSE <<>>
      BY <3>3, <3>8, <3>9, Zenon DEF Base
    <3>6. CASE first.is = "history"
      <4>1. infos' = first.infos BY <1>0, <1>4, <2>3, <2>4, <3>6, ReportInfos
      <4>2. history = now BY <1>02, <3>6, <3>10, <4>1, Zenon
      <4>3. Base(new, now, h) = now BY <2>11 DEF Base
      <4> QED BY <2>2, <2>9, <2>11, <3>5, <4>2, <4>3
    <3>7. CASE first.is = "not found"
      <4>1. missed' = (infos # <<>>) BY <1>4, <2>3, <2>4, <3>7, ReportMissed
      <4>2. infos' = infos BY <1>0, <1>4, <2>3, <2>4, <3>7, ReportInfos
      <4>3. history = <<>>
        <5>1. first.is # "history" BY <3>7
        <5> QED BY <3>10, <5>1, Zenon
      <4>4. CASE infos # <<>> BY <2>11, <4>1, <4>4
      <4>5. CASE infos = <<>>
        <5>1. Base(new, now, h) = history BY <1>02, <2>11, <4>2, <4>3, <4>5 DEF Base
        <5> QED BY <2>2, <2>9, <2>11, <3>5, <5>1
      <4> QED BY <4>4, <4>5
    <3> QED BY <2>3, <2>11, <3>6, <3>7 DEF IsAnswer
  <2>12. CASE h = 0 /\ ~ IsAnswer(es[1])
    <3>1. first.is = "shot" BY <2>3, <2>6, <2>12 DEF IsAnswer, Event
    <3>2. missed' = missed
      <4>1. ~ (first.is \in {"history", "not found"}) BY <3>1
      <4> QED BY <1>4, <2>3, <4>1, ReportMissed
    <3>3. now = Append(old, first.shot)
      BY <1>0, <1>01, <1>02, <1>4, <2>3, <2>4, <3>1, ReportInfos
    <3>4. Base(es, old, 0) = old /\ Base(new, now, h) = now BY <2>12 DEF Base
    <3>5. missed \/ Covers(old, es, 0, s0, k0)
      BY <1>04, <2>4, <2>7, <2>8, <2>9, <2>12, <3>4
    <3>6. CASE missed BY <2>12, <3>2, <3>6
    <3>7. CASE Covers(old, es, 0, s0, k0)
      <4>1. Reported(es, old, shots) BY <1>01 DEF EventsInv
      <4>2. 1 \in DOMAIN es BY <2>2, OneLess
      <4>3. Later(old, es[1]) /\ es[1].shot.live BY <2>3, <3>1, <4>1, <4>2 DEF Reported
      <4>4. Covers(now, new, 0, s0, k0)
        BY <2>2, <2>3, <3>1, <3>3, <3>7, <4>3, CoversShown
      <4> QED BY <2>2, <2>9, <2>12, <3>4, <4>4
    <3> QED BY <3>5, <3>6, <3>7
  <2> QED BY <2>10, <2>11, <2>12
<1>5. CASE ShowDialog
  <2>1. asked' = Append(asked, "load") BY <1>5 DEF ShowDialog
  <2>2. Len(asked) + 1 \in DOMAIN asked' /\ asked'[Len(asked) + 1] = "load" BY <1>0, <2>1
  <2>3. Pending' BY <2>2 DEF Pending
  <2> QED BY <1>03, <2>3
<1>6. CASE CloseDialog \/ Killed BY <1>03, <1>6 DEF CloseDialog, Killed
<1>7. CASE TimerOpens \/ Restart \/ ClearHistory \/ UNCHANGED vars
  <2>1. /\ UNCHANGED <<dialog, infos, missed, events, kept, torn>>
        /\ asked' = asked \/ asked' = Append(asked, "clear")
    BY <1>7 DEF TimerOpens, Restart, ClearHistory, dialogVars, shotVars, vars
  <2>2. ~ Pending
    <3>1. ~ \E j \in DOMAIN events : events[j].is = "cleared" BY <1>03, <2>1 DEF Pending
    <3>2. ~ \E i \in DOMAIN asked' : asked'[i] = "load" BY <1>03 DEF Pending
    <3>3. PICK before \in Seq({"load", "clear"}), after \in Seq({"load", "clear"}) :
            /\ before = asked /\ after = asked'
            /\ after = before \/ after = Append(before, "clear")
      <4>1. CASE asked' = asked BY <1>0, <4>1
      <4>2. CASE asked' = Append(asked, "clear")
        <5>1. Append(asked, "clear") \in Seq({"load", "clear"}) BY <1>0
        <5> QED BY <1>0, <4>2, <5>1, Zenon
      <4> QED BY <2>1, <4>1, <4>2
    <3>4. \A i \in DOMAIN before : i \in DOMAIN after /\ after[i] = before[i]
      <4>1. CASE after = before BY <4>1
      <4>2. CASE after = Append(before, "clear") BY <4>2
      <4> QED BY <3>3, <4>1, <4>2
    <3>5. \A i \in DOMAIN asked : i \in DOMAIN asked' /\ asked'[i] = asked[i]
      BY <3>3, <3>4, Zenon
    <3> QED BY <3>1, <3>2, <3>5 DEF Pending
  <2>3. new = es /\ now = old /\ sound = Sound /\ held = kept /\ dialog /\ missed' = missed
    BY <1>01, <1>02, <1>03, <2>1 DEF Sound
  <2> QED BY <1>03, <1>04, <2>2, <2>3
<1> QED BY <1>1, <1>2, <1>3, <1>4, <1>5, <1>6, <1>7 DEF Next

-----------------------------------------------------------------------------
(* What the dialog shows. *)

HistoryInv == TypeInv /\ FileInv /\ EventsInv /\ DialogInv

\* The invariant holds throughout.
LEMMA HistoryAlways == Spec => []HistoryInv
<1>1. Init => HistoryInv BY InitType, InitFile, InitEvents, InitDialog DEF HistoryInv
<1>2. HistoryInv /\ [Next]_vars => HistoryInv'
  BY NextType, NextFile, NextEvents, NextDialog DEF HistoryInv
<1> QED BY <1>1, <1>2, PTL DEF Spec

\* A dialog that is up to date has been shown what it should.
LEMMA UpToDateShown ==
  ASSUME HistoryInv, UpToDate
  PROVE  Covers(infos, events, 0, Sound, kept) /\ events = <<>>
<1>1. dialog /\ asked = <<>> /\ events = <<>> /\ ~ missed BY DEF UpToDate
<1>2. ~ Pending BY <1>1 DEF Pending
<1>3. LastAnswer(events, 0) BY <1>1 DEF LastAnswer
<1>4. PICK h \in Nat : h = 0 OBVIOUS
<1>5. Covers(Base(events, infos, h), events, h, Sound, kept)
  BY <1>1, <1>2, <1>3, <1>4 DEF HistoryInv, DialogInv
<1> QED BY <1>1, <1>4, <1>5 DEF Base

\* However shots, loads and clears cross each other and wherever the program is killed,
\* a dialog that is up to date shows each sound shot once, in order, with its own info.
THEOREM SoundShotsAlwaysShown == Spec => []SoundShotsShown
<1>1. HistoryInv => SoundShotsShown
  <2> SUFFICES ASSUME HistoryInv, UpToDate
               PROVE  /\ \A n \in Sound : \E i \in DOMAIN infos : infos[i].stamp = n
                      /\ \A i, j \in DOMAIN infos :
                           i < j /\ {infos[i].stamp, infos[j].stamp} \subseteq Sound =>
                             infos[i].stamp < infos[j].stamp
                      /\ \A i \in DOMAIN infos : infos[i].stamp \in Sound =>
                           infos[i].live \/ infos[i].data = Tail(Pieces(infos[i].stamp))
    BY DEF SoundShotsShown
  <2>1. Covers(infos, events, 0, Sound, kept) /\ events = <<>> BY UpToDateShown
  <2>2. DOMAIN events = {} BY <2>1
  <2> QED BY <2>1, <2>2 DEF Covers
<1> QED BY <1>1, HistoryAlways, PTL

\* And it shows nothing that was not taken since the history was cleared, except under
\* the stamp of a line that a kill has garbled.
THEOREM NothingElseEverShown == Spec => []NothingElseShown
<1>1. HistoryInv => NothingElseShown BY UpToDateShown DEF NothingElseShown, Covers
<1> QED BY <1>1, HistoryAlways, PTL

=============================================================================
