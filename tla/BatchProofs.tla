---------------------------- MODULE BatchProofs ----------------------------
(***************************************************************************)
(* Proofs about Batch for any batches: lines of any words and any length,  *)
(* any repeat, and any interleaving of the driver and the output widget.   *)
(***************************************************************************)
EXTENDS Batch, FiniteSetTheorems, SequenceTheorems, WellFoundedInduction, TLAPS

-----------------------------------------------------------------------------
(* Sets of numbers. *)

\* A nonempty set of numbers has a least one.
LEMMA LeastOf ==
  ASSUME NEW S \in SUBSET Nat, S # {}
  PROVE  \E n \in S : \A m \in S : n <= m
<1>1. PICK n \in S : \A m \in S : ~(<<m, n>> \in OpToRel(<, Nat))
  BY NatLessThanWellFounded, WFMin, Zenon
<1>2. \A m \in S : ~(m < n) BY <1>1 DEF OpToRel
<1> QED BY <1>2

-----------------------------------------------------------------------------
(* CommandHandler::Execute on any line. *)

\* The entries that match a line.
Hits(s, line) == {j \in DOMAIN Table[s] : IsCommand(Table[s][j], line)}

\* The entry that decides.
Decides(s, line, j) == j \in Hits(s, line) /\ \A g \in Hits(s, line) : j <= g

\* What is assumed of an entry, in numbers.
LEMMA EntryNumbers ==
  ASSUME NEW s \in AllStores, NEW c \in Entry(s), EntryHolds(s, c)
  PROVE  /\ c.name \in Seq(STRING) /\ Len(c.name) \in 1 .. 2
         /\ c.required \in Nat /\ c.optional \in Nat /\ c.required + c.optional < 65536
         /\ MinArgumentsCount(c) = c.required
         /\ MaxArgumentsCount(c) = c.required + c.optional
<1>1. c.name \in Seq(STRING) /\ c.required \in Nat /\ c.optional \in Nat BY DEF Entry
<1>2. Len(c.name) \in 1 .. 2 /\ c.required + c.optional < 65536 BY DEF EntryHolds
<1>3. \A a \in Nat : a < 65536 => a % 65536 = a OBVIOUS
<1> QED BY <1>1, <1>2, <1>3 DEF MinArgumentsCount, MaxArgumentsCount

\* An entry of a table has its type.
LEMMA EntryType ==
  ASSUME NEW s \in AllStores, NEW j \in DOMAIN Table[s]
  PROVE  /\ j \in 1 .. Len(Table[s]) /\ Len(Table[s]) \in Nat
         /\ Table[s][j] \in Entry(s) /\ EntryHolds(s, Table[s][j])
<1>1. Table[s] \in Seq(Entry(s))
  BY TablesAssumption
<1>2. j \in 1 .. Len(Table[s]) /\ Table[s][j] \in Entry(s) /\ Len(Table[s]) \in Nat
  BY <1>1
<1> QED BY <1>2, TablesAssumption

\* An entry matches exactly the lines that begin with its name.
LEMMA MatchesBegun ==
  ASSUME NEW s \in AllStores, NEW c \in Entry(s), EntryHolds(s, c), NEW line \in Seq(STRING)
  PROVE  IsCommand(c, line)
           <=> Len(c.name) <= Len(line) /\ SubSeq(line, 1, Len(c.name)) = c.name
<1> DEFINE k == Len(c.name)
           m == Len(line)
<1>1. k \in 1 .. 2 BY EntryNumbers
<1>2. m \in Nat BY LenProperties
<1>3. (m > 0 /\ m # k - 1 /\ m > k - 1) <=> k <= m
  <2> HIDE DEF k, m
  <2> QED BY <1>1, <1>2
<1> QED BY <1>3 DEF IsCommand

\* No CHECK of IsCommand fails: a name has at most two words.
LEMMA NoAbort ==
  ASSUME NEW s \in AllStores, NEW c \in Entry(s), EntryHolds(s, c), NEW line \in Seq(STRING)
  PROVE  CheckHolds(c, line)
<1> DEFINE k == Len(c.name)
           m == Len(line)
<1>1. k \in 1 .. 2 BY EntryNumbers
<1>2. m \in Nat BY LenProperties
<1>3. m > 0 => m = k - 1 \/ m > k - 1
  <2> HIDE DEF k, m
  <2> QED BY <1>1, <1>2
<1> QED BY <1>3 DEF CheckHolds

\* What Execute answers, by the entry that decides.
LEMMA ExecuteCases ==
  ASSUME NEW s \in AllStores, NEW line \in Seq(STRING)
  PROVE  \/ /\ Hits(s, line) = {}
            /\ Execute(s, line) = [what |-> "unknown"]
         \/ \E j \in DOMAIN Table[s] :
              /\ Decides(s, line, j)
              /\ LET c == Table[s][j]
                     argc == Len(line) - Len(c.name)
                 IN \/ /\ argc > MaxArgumentsCount(c) \/ argc < MinArgumentsCount(c)
                       /\ Execute(s, line) = [what |-> "arguments", cmd |-> c]
                    \/ /\ argc <= MaxArgumentsCount(c) /\ argc >= MinArgumentsCount(c)
                       /\ Execute(s, line) = [what |-> "call", cmd |-> c, argc |-> argc,
                                              h |-> Handlers[s][c.func]]
<1> DEFINE T == Table[s]
           hits == {j \in DOMAIN T : IsCommand(T[j], line)}
           j == CHOOSE h \in hits : \A g \in hits : h <= g
           tried == IF hits = {} THEN DOMAIN T ELSE 1 .. j
           argc == Len(line) - Len(T[j].name)
<1>1. hits = Hits(s, line) BY DEF Hits
<1>2. \A g \in DOMAIN T : CheckHolds(T[g], line) BY EntryType, NoAbort
<1>3. hits \subseteq DOMAIN T OBVIOUS
<1>0. Execute(s, line) =
        IF \E g \in tried : ~ CheckHolds(T[g], line) THEN [what |-> "abort"]
        ELSE IF hits = {} THEN [what |-> "unknown"]
        ELSE IF argc > MaxArgumentsCount(T[j]) \/ argc < MinArgumentsCount(T[j])
        THEN [what |-> "arguments", cmd |-> T[j]]
        ELSE [what |-> "call", cmd |-> T[j], argc |-> argc, h |-> Handlers[s][T[j].func]]
  BY Zenon DEF Execute
<1> HIDE DEF j, hits, argc
<1>4. CASE hits = {}
  <2>1. ~ \E g \in tried : ~ CheckHolds(T[g], line) BY <1>2, <1>4
  <2>2. Execute(s, line) = [what |-> "unknown"] BY <2>1, <1>0, <1>4, Zenon
  <2> QED BY <2>2, <1>1, <1>4
<1>5. CASE hits # {}
  <2>1. hits \in SUBSET Nat
    <3>1. \A g \in DOMAIN T : g \in Nat BY EntryType
    <3> QED BY <3>1, <1>3
  <2>2. \E h \in hits : \A g \in hits : h <= g BY <2>1, <1>5, LeastOf
  <2>3. j \in hits /\ \A g \in hits : j <= g BY <2>2 DEF j
  <2>4. 1 .. j \subseteq DOMAIN T
    <3>1. T \in Seq(Entry(s)) /\ DOMAIN T = 1 .. Len(T) BY TablesAssumption
    <3>2. j \in 1 .. Len(T) /\ Len(T) \in Nat BY <2>3, <1>3, EntryType
    <3> QED BY <3>1, <3>2
  <2>5. ~ \E g \in tried : ~ CheckHolds(T[g], line) BY <1>2, <1>5, <2>4
  <2>6. Decides(s, line, j) BY <2>3, <1>1 DEF Decides
  <2>7. j \in DOMAIN T BY <2>3, <1>3
  <2>8. MaxArgumentsCount(T[j]) \in Int /\ MinArgumentsCount(T[j]) \in Int
    BY <2>7, EntryType, EntryNumbers
  <2>9. argc \in Int
    <3>1. Len(T[j].name) \in 1 .. 2 BY <2>7, EntryType, EntryNumbers
    <3>2. Len(line) \in Nat BY LenProperties
    <3> QED BY <3>1, <3>2 DEF argc
  <2>10. CASE argc > MaxArgumentsCount(T[j]) \/ argc < MinArgumentsCount(T[j])
    <3>1. Execute(s, line) = [what |-> "arguments", cmd |-> T[j]]
      BY <2>5, <2>10, <1>5, <1>0, Zenon
    <3> QED BY <3>1, <2>10, <2>6, <2>7, Zenon DEF argc
  <2>11. CASE ~ (argc > MaxArgumentsCount(T[j]) \/ argc < MinArgumentsCount(T[j]))
    <3>1. Execute(s, line) = [what |-> "call", cmd |-> T[j], argc |-> argc,
                             h |-> Handlers[s][T[j].func]]
      BY <2>5, <2>11, <1>5, <1>0, Zenon
    <3>2. argc <= MaxArgumentsCount(T[j]) /\ argc >= MinArgumentsCount(T[j])
      BY <2>11, <2>8, <2>9
    <3> QED BY <3>1, <3>2, <2>6, <2>7, Zenon DEF argc
  <2> QED BY <2>10, <2>11, Zenon
<1> QED BY <1>4, <1>5

\* The name of the entry that decides is the longest the line begins with.
LEMMA DecidesLongest ==
  ASSUME NEW s \in AllStores, NEW line \in Seq(STRING), NEW i \in DOMAIN Table[s],
         NEW j \in DOMAIN Table[s], Decides(s, line, j),
         Len(Table[s][i].name) <= Len(line),
         SubSeq(line, 1, Len(Table[s][i].name)) = Table[s][i].name
  PROVE  Len(Table[s][i].name) <= Len(Table[s][j].name)
<1> DEFINE c == Table[s][i]
           d == Table[s][j]
<1>1. /\ c \in Entry(s) /\ EntryHolds(s, c) /\ i \in Nat
      /\ d \in Entry(s) /\ EntryHolds(s, d) /\ j \in Nat
  BY EntryType
<1>2. IsCommand(c, line) /\ IsCommand(d, line)
  BY <1>1, MatchesBegun DEF Decides, Hits
<1>3. j <= i BY <1>2 DEF Decides, Hits
<1>4. j < i => NotBegun(d, c) BY TablesAssumption
<1>5. Len(d.name) <= Len(line) /\ SubSeq(line, 1, Len(d.name)) = d.name
  BY <1>1, <1>2, MatchesBegun
<1>6. c.name \in Seq(STRING) /\ d.name \in Seq(STRING) BY <1>1, EntryNumbers
<1> DEFINE p == c.name
           q == d.name
<1>7. p \in Seq(STRING) /\ q \in Seq(STRING) BY <1>6
<1>8. SubSeq(line, 1, Len(p)) = p /\ SubSeq(line, 1, Len(q)) = q BY <1>5
<1>9. Len(p) \in Nat /\ Len(q) \in Nat /\ Len(p) <= Len(line) /\ Len(q) <= Len(line)
  BY <1>5, <1>7, LenProperties
<1>10. NotBegun(d, c) <=> Len(q) >= Len(p) \/ SubSeq(p, 1, Len(q)) # q BY DEF NotBegun
<1> HIDE DEF p, q
<1>11. CASE j = i BY <1>11, <1>9 DEF p, q
<1>12. CASE j < i
  <2> SUFFICES ASSUME Len(q) < Len(p) PROVE FALSE BY <1>9 DEF p, q
  <2>1. SubSeq(p, 1, Len(q)) # q BY <1>12, <1>4, <1>9, <1>10
  <2>2. \A m \in 1 .. Len(p) : p[m] = line[m]
    BY <1>8, <1>9, SubSeqProperties
  <2>3. \A m \in 1 .. Len(q) : q[m] = line[m]
    BY <1>8, <1>9, SubSeqProperties
  <2>4. /\ SubSeq(p, 1, Len(q)) \in Seq(STRING) /\ Len(SubSeq(p, 1, Len(q))) = Len(q)
        /\ \A m \in 1 .. Len(q) : SubSeq(p, 1, Len(q))[m] = p[m]
    BY <1>7, <1>9, SubSeqProperties
  <2>5. SubSeq(p, 1, Len(q)) = q
    BY <2>2, <2>3, <2>4, <1>7, <1>9, SeqEqual
  <2> QED BY <2>1, <2>5
<1> QED BY <1>1, <1>3, <1>11, <1>12

\* A handler that reads r of argc arguments behind a name of k words reads no others.
LEMMA PositionsInside ==
  ASSUME NEW k \in Nat, NEW r \in Nat, NEW argc \in Nat, r <= argc, NEW argv,
         \/ argv.kind = "at" /\ \A n \in DOMAIN argv.of : argv.of[n] \in 0 .. r - 1
         \/ argv.kind = "optional"
         \/ argv.kind = "rest" /\ argv.n \in 0 .. r
         \/ argv.kind = "back" /\ argv.n = k
  PROVE  LET pos == Positions(argv, argc)
         IN /\ \A n \in DOMAIN pos : k + 1 + pos[n] \in 1 .. k + argc
            /\ argv.kind = "back" => /\ DOMAIN pos = 1 .. k + argc
                                     /\ \A n \in 1 .. k + argc : k + 1 + pos[n] = n
<1> DEFINE pos == Positions(argv, argc)
<1>5. CASE argv.kind = "at" /\ \A n \in DOMAIN argv.of : argv.of[n] \in 0 .. r - 1
  <2>1. pos = argv.of BY <1>5 DEF Positions
  <2> QED BY <2>1, <1>5
<1>6. CASE argv.kind = "optional"
  <2>1. pos = IF argc = 1 THEN <<0>> ELSE <<>> BY <1>6 DEF Positions
  <2> QED BY <2>1, <1>6
<1>7. CASE argv.kind = "rest" /\ argv.n \in 0 .. r
  <2>1. pos = [i \in 1 .. (IF argc > argv.n THEN argc ELSE argv.n) |-> i - 1]
    BY <1>7 DEF Positions
  <2>2. (IF argc > argv.n THEN argc ELSE argv.n) = argc BY <1>7
  <2>3. pos = [i \in 1 .. argc |-> i - 1] BY <2>1, <2>2
  <2> QED BY <2>3, <1>7
<1>8. CASE argv.kind = "back" /\ argv.n = k
  <2>1. pos = [i \in 1 .. argc + k |-> i - 1 - k] BY <1>8 DEF Positions, Forwards
  <2> QED BY <2>1
<1> QED BY <1>5, <1>6, <1>7, <1>8

\* A handler that takes what its entry requires is passed words of the line, and a
\* forwarding one the whole line.
LEMMA PassesWords ==
  ASSUME NEW s \in AllStores, NEW c \in Entry(s), EntryHolds(s, c), NEW line \in Seq(STRING),
         Len(line) - Len(c.name) >= c.required, TakesRequired(c, Handlers[s][c.func])
  PROVE  LET argv == Handlers[s][c.func].argv
             pos == Positions(argv, Len(line) - Len(c.name))
         IN /\ \A n \in DOMAIN pos : Len(c.name) + 1 + pos[n] \in DOMAIN line
            /\ argv.kind = "back" =>
                 [n \in DOMAIN pos |-> line[Len(c.name) + 1 + pos[n]]] = line
<1> DEFINE argv == Handlers[s][c.func].argv
           k == Len(c.name)
           L == Len(line)
           argc == L - k
           pos == Positions(argv, argc)
<1>1. k \in 1 .. 2 /\ c.required \in Nat BY EntryNumbers
<1>2. L \in Nat /\ DOMAIN line = 1 .. L /\ line \in [1 .. L -> STRING] BY LenProperties
<1>3. argc >= c.required OBVIOUS
<1> HIDE DEF k, L
<1>5. argc \in Nat /\ k + argc = L /\ k \in Nat BY <1>1, <1>2, <1>3
<1>6. \/ argv.kind = "at" /\ \A n \in DOMAIN argv.of : argv.of[n] \in 0 .. c.required - 1
      \/ argv.kind = "optional"
      \/ argv.kind = "rest" /\ argv.n \in 0 .. c.required
      \/ argv.kind = "back" /\ argv.n = k
  BY DEF TakesRequired, k
<1> HIDE DEF argc, argv
<1>7. /\ \A n \in DOMAIN pos : k + 1 + pos[n] \in 1 .. k + argc
      /\ argv.kind = "back" => /\ DOMAIN pos = 1 .. k + argc
                               /\ \A n \in 1 .. k + argc : k + 1 + pos[n] = n
  BY <1>1, <1>3, <1>5, <1>6, PositionsInside
<1> HIDE DEF pos
<1>8. argv.kind = "back" => [n \in DOMAIN pos |-> line[k + 1 + pos[n]]] = line
  <2> SUFFICES ASSUME argv.kind = "back"
               PROVE  [n \in DOMAIN pos |-> line[k + 1 + pos[n]]] = line
    OBVIOUS
  <2>1. [n \in DOMAIN pos |-> line[k + 1 + pos[n]]] = [n \in 1 .. L |-> line[n]]
    BY <1>5, <1>7
  <2> QED BY <2>1, <1>2
<1> QED BY <1>2, <1>5, <1>7, <1>8 DEF argc, argv, pos, k, L

-----------------------------------------------------------------------------
(* The loops of HandleExecuteEvent. *)

\* Where the loops are, and that ex is what Execute makes of the current line.
ControlInv ==
  /\ job \in Jobs
  /\ pc \in {"start", "next", "added", "answers", "reply", "done"}
  /\ at \in Nat \ {0} /\ round \in Nat
  /\ pc = "start" => at = 1 /\ round = 0
  /\ pc \in {"next", "added", "answers"} => at \in 1 .. Len(job.lines)
  /\ Running => ex = Execute(job.store, Line)

\* What is known of a job.
LEMMA JobType ==
  ASSUME job \in Jobs
  PROVE  /\ job.store \in AllStores
         /\ job.lines \in Seq(Seq(STRING)) /\ Len(job.lines) \in Nat
         /\ job.repeat \in Nat /\ job.repeat <= WatchRepeat
         /\ job.history \in BOOLEAN /\ job.silence \in BOOLEAN
<1>1. job.lines \in Seq(Seq(STRING)) BY JobsAssumption
<1>2. Len(job.lines) \in Nat BY <1>1, LenProperties
<1>3. job.repeat \in 0 .. WatchRepeat /\ WatchRepeat \in Nat BY JobsAssumption DEF WatchRepeat
<1> QED BY <1>1, <1>2, <1>3, JobsAssumption

\* The loops begin at their first command.
LEMMA InitControl == Init => ControlInv
BY DEF Init, ControlInv, Running

\* Every step keeps the loops within the lines.
LEMMA NextControl == ControlInv /\ [Next]_vars => ControlInv'
<1> SUFFICES ASSUME ControlInv, [Next]_vars PROVE ControlInv'
  OBVIOUS
<1> USE DEF ControlInv, Running, Line
<1>0. /\ job.lines \in Seq(Seq(STRING)) /\ Len(job.lines) \in Nat
      /\ job.lines # <<>> => Len(job.lines) # 0
  <2>1. job.lines \in Seq(Seq(STRING)) /\ Len(job.lines) \in Nat BY JobType
  <2> QED BY <2>1, EmptySeq
<1>1. CASE Start
  BY <1>0, <1>1 DEF Start
<1>2. CASE Command
  <2>1. job' = job /\ at' = at /\ round' = round /\ pc = "next" /\ pc' \in {"added", "answers"}
        /\ ex' = Execute(job.store, job.lines[at])
    BY <1>2, Zenon DEF Command
  <2> QED BY <2>1
<1>3. CASE KeyAdded
  BY <1>3 DEF KeyAdded
<1>4. CASE Answer
  BY <1>4 DEF Answer
<1>5. CASE Returned
  BY <1>0, <1>5 DEF Returned
<1>6. CASE Interrupted
  BY <1>6 DEF Interrupted
<1>7. CASE Reply
  BY <1>7 DEF Reply
<1>8. CASE Deliver
  BY <1>8 DEF Deliver, driver
<1>9. CASE Idle \/ UNCHANGED vars
  BY <1>9 DEF Idle, vars
<1> QED
  BY <1>1, <1>2, <1>3, <1>4, <1>5, <1>6, <1>7, <1>8, <1>9 DEF Next

\* ControlInv always holds.
LEMMA ControlAlways == Spec => []ControlInv
<1>1. QED BY InitControl, NextControl, PTL DEF Spec

\* The entry that decides a line that is being run, if there is one.
LEMMA RunningCases ==
  ASSUME ControlInv, Running
  PROVE  /\ job.store \in AllStores /\ Line \in Seq(STRING)
         /\ \/ Hits(job.store, Line) = {} /\ ex = [what |-> "unknown"]
            \/ \E j \in DOMAIN Table[job.store] :
                 /\ Decides(job.store, Line, j)
                 /\ LET c == Table[job.store][j]
                        argc == Len(Line) - Len(c.name)
                    IN \/ /\ argc > MaxArgumentsCount(c) \/ argc < MinArgumentsCount(c)
                          /\ ex = [what |-> "arguments", cmd |-> c]
                       \/ /\ argc <= MaxArgumentsCount(c) /\ argc >= MinArgumentsCount(c)
                          /\ ex = [what |-> "call", cmd |-> c, argc |-> argc,
                                   h |-> Handlers[job.store][c.func]]
<1>1. job.store \in AllStores /\ job.lines \in Seq(Seq(STRING)) BY JobType DEF ControlInv
<1>2. Line \in Seq(STRING) BY <1>1 DEF ControlInv, Running, Line
<1>3. ex = Execute(job.store, Line) BY DEF ControlInv
<1> QED BY <1>1, <1>2, <1>3, ExecuteCases

\* A line begins with a name exactly if the entry of that name matches it.
LEMMA BeginsHits ==
  ASSUME job.store \in AllStores, Line \in Seq(STRING)
  PROVE  Hits(job.store, Line) = {j \in DOMAIN Table[job.store] : Begins(Table[job.store][j].name)}
<1>1. ASSUME NEW j \in DOMAIN Table[job.store]
      PROVE  IsCommand(Table[job.store][j], Line) <=> Begins(Table[job.store][j].name)
  BY EntryType, MatchesBegun DEF Begins
<1> QED BY <1>1 DEF Hits

\* The search of CommandHandler::Execute is never misled by the order of the table.
LEMMA ControlNotShadowed == ControlInv => NotShadowed
<1> SUFFICES ASSUME ControlInv, Running
             PROVE  /\ ex.what # "abort"
                    /\ ex.what = "unknown" <=> \A name \in Names : ~ Begins(name)
                    /\ ex.what \in {"call", "arguments"} =>
                         \A name \in Names : Begins(name) => Len(name) <= Len(ex.cmd.name)
  BY DEF NotShadowed
<1> DEFINE T == Table[job.store]
<1>0. job.store \in AllStores /\ Line \in Seq(STRING) BY RunningCases
<1>1. CASE Hits(job.store, Line) = {} /\ ex = [what |-> "unknown"]
  <2>1. \A name \in Names : ~ Begins(name) BY <1>0, <1>1, BeginsHits DEF Names
  <2> QED BY <1>1, <2>1
<1>2. ASSUME NEW j \in DOMAIN T, Decides(job.store, Line, j),
             ex.what \in {"call", "arguments"}, ex.cmd = T[j]
      PROVE  /\ ex.what # "abort"
             /\ ex.what = "unknown" <=> \A name \in Names : ~ Begins(name)
             /\ \A name \in Names : Begins(name) => Len(name) <= Len(ex.cmd.name)
  <2>1. Begins(T[j].name) BY <1>0, <1>2, BeginsHits DEF Decides
  <2>2. \E name \in Names : Begins(name) BY <2>1 DEF Names
  <2>3. ASSUME NEW i \in DOMAIN T, Begins(T[i].name)
        PROVE  Len(T[i].name) <= Len(T[j].name)
    BY <1>0, <1>2, <2>3, DecidesLongest DEF Begins
  <2>4. \A name \in Names : Begins(name) => Len(name) <= Len(T[j].name)
    BY <2>3 DEF Names
  <2> QED BY <1>2, <2>2, <2>4
<1>3. \/ Hits(job.store, Line) = {} /\ ex = [what |-> "unknown"]
      \/ \E j \in DOMAIN T : /\ Decides(job.store, Line, j)
                              /\ ex.what \in {"call", "arguments"} /\ ex.cmd = T[j]
  BY RunningCases
<1> QED BY <1>1, <1>2, <1>3

\* A handler that is called reads words of the line only.
LEMMA ControlReadsPassed == ControlInv => ReadsPassed /\ WholeLineSent
<1> SUFFICES ASSUME ControlInv, Running, ex.what = "call"
             PROVE  /\ \/ job.store = "ssdb" /\ ex.cmd.func \in Misread
                       \/ \A n \in DOMAIN Positions(ex.h.argv, ex.argc) :
                            Len(ex.cmd.name) + 1 + Positions(ex.h.argv, ex.argc)[n] \in DOMAIN Line
                    /\ ex.h.call \in {"CommonExec", "Monitor", "Subscribe"} =>
                         Passed(Line, ex) = Line
  BY DEF ReadsPassed, WholeLineSent
<1> DEFINE T == Table[job.store]
<1>0. job.store \in AllStores /\ Line \in Seq(STRING) BY RunningCases
<1>1. PICK j \in DOMAIN T :
        /\ Len(Line) - Len(T[j].name) >= MinArgumentsCount(T[j])
        /\ ex = [what |-> "call", cmd |-> T[j], argc |-> Len(Line) - Len(T[j].name),
                 h |-> Handlers[job.store][T[j].func]]
  BY RunningCases
<1> DEFINE c == T[j]
<1>2. c \in Entry(job.store) /\ EntryHolds(job.store, c) BY <1>0, EntryType
<1>3. ex.cmd = c /\ ex.argc = Len(Line) - Len(c.name) /\ ex.h = Handlers[job.store][c.func]
  BY <1>1
<1>4. Len(Line) - Len(c.name) >= c.required BY <1>0, <1>1, <1>2, EntryNumbers
<1>5. ex.h.call \in {"CommonExec", "Monitor", "Subscribe"} =>
        ex.h.argv.kind = "back" /\ ex.h.argv.n = Len(c.name)
  BY <1>2, <1>3 DEF EntryHolds, Back
<1>6. CASE TakesRequired(c, ex.h)
  <2> HIDE DEF c
  <2>1. /\ \A n \in DOMAIN Positions(ex.h.argv, ex.argc) :
             Len(c.name) + 1 + Positions(ex.h.argv, ex.argc)[n] \in DOMAIN Line
        /\ ex.h.argv.kind = "back" => Passed(Line, ex) = Line
    BY <1>0, <1>2, <1>3, <1>4, <1>6, PassesWords DEF Passed
  <2> QED BY <1>3, <1>5, <2>1
<1>7. CASE ~ TakesRequired(c, ex.h)
  <2>1. job.store = "ssdb" /\ c.func \in Misread BY <1>2, <1>3, <1>7 DEF EntryHolds
  <2>2. ~ (ex.h.call \in {"CommonExec", "Monitor", "Subscribe"})
    BY <1>5, <1>7 DEF TakesRequired
  <2> QED BY <1>3, <2>1, <2>2
<1> QED BY <1>6, <1>7

\* Execute refuses no documented number of arguments.
LEMMA ControlUsageAccepted == ControlInv => UsageAccepted
<1> SUFFICES ASSUME ControlInv, Running, ex.what = "arguments",
                    <<job.store, ex.cmd.name[1]>> \notin Narrower
             PROVE  Len(Line) - Len(ex.cmd.name) \notin ex.cmd.documented
  BY DEF UsageAccepted
<1> DEFINE T == Table[job.store]
<1>0. job.store \in AllStores /\ Line \in Seq(STRING) BY RunningCases
<1>1. PICK j \in DOMAIN T :
        /\ \/ Len(Line) - Len(T[j].name) > MaxArgumentsCount(T[j])
           \/ Len(Line) - Len(T[j].name) < MinArgumentsCount(T[j])
        /\ ex = [what |-> "arguments", cmd |-> T[j]]
  BY RunningCases
<1> DEFINE c == T[j]
           argc == Len(Line) - Len(c.name)
<1>2. c \in Entry(job.store) /\ EntryHolds(job.store, c) BY <1>0, EntryType
<1>3. ex.cmd = c BY <1>1
<1>4. c.documented \subseteq c.required .. c.required + c.optional
  BY <1>2, <1>3 DEF EntryHolds
<1>5. c.required \in Nat /\ c.optional \in Nat /\ Len(c.name) \in 1 .. 2
      /\ (argc > c.required + c.optional \/ argc < c.required)
  BY <1>0, <1>1, <1>2, EntryNumbers
<1>6. argc \in Int
  <2>1. Len(Line) \in Nat BY <1>0, LenProperties
  <2> QED BY <2>1, <1>5
<1> HIDE DEF argc
<1>7. argc \notin c.required .. c.required + c.optional BY <1>5, <1>6
<1> QED BY <1>3, <1>4, <1>7 DEF argc

-----------------------------------------------------------------------------
(* The objects, the events and the items. *)

Object == [parent : Nat, kind : {"command", "value", "array", "inner"}, line : Seq(STRING),
           val : Seq(Nat)]

\* The keys a SET can store.
SetKeys == {Passed(l, Execute(s, l))[1] : s \in AllStores, l \in Seq(STRING)}

Event ==
  [ev : {"RootCreated", "RootCompleated"}]
  \cup [ev : {"ChildAdded"}, obj : Nat]
  \cup [ev : {"ItemUpdated"}, obj : Nat, val : Seq(Nat)]
  \cup [ev : {"KeyAdded"}, key : SetKeys, val : Seq(Nat)]

Shown == [obj : Nat, under : Nat, key : STRING \cup {""}, val : Seq(Nat)]

Given == [line : Seq(STRING), set : BOOLEAN, key : SetKeys \cup {""}, val : Seq(Nat)]

\* What a handler adds at once: an inner array follows its array.
Shapes == {<<>>, <<"value">>, <<"array">>, <<"array", "inner">>, <<"value", "value">>}

\* Types, and that events and items are about objects of the batch.
TypeInv ==
  /\ objs \in Seq(Object) /\ watched \in Seq(Nat) /\ queue \in Seq(Event)
  /\ view \in Seq(Shown) /\ log \in Seq(Given)
  /\ answers \in Shapes \cup {<<"inner">>}
  /\ fails \in BOOLEAN /\ rooted \in BOOLEAN
  /\ res \in {"none", "error", "interrupted"}
  /\ \A n \in 1 .. Len(queue) :
       queue[n].ev \in {"ChildAdded", "ItemUpdated"} => queue[n].obj \in 1 .. Len(objs)
  /\ \A n \in 1 .. Len(view) : view[n].obj \in 1 .. Len(objs)

\* FindCmdChildNode: the root, or the first object under the command.
LEMMA FirstAnswerFound ==
  ASSUME NEW os \in Seq(Object), NEW c
  PROVE  LET f == FirstAnswer(os, c)
         IN \/ f = Root /\ \A o \in 1 .. Len(os) : os[o].parent # c
            \/ /\ f \in 1 .. Len(os) /\ os[f].parent = c
               /\ \A o \in 1 .. Len(os) : os[o].parent = c => f <= o
<1> DEFINE kids == {o \in DOMAIN os : os[o].parent = c}
<1>1. DOMAIN os = 1 .. Len(os) /\ Len(os) \in Nat BY LenProperties
<1>2. kids \in SUBSET Nat BY <1>1
<1>3. CASE kids = {} BY <1>1, <1>3 DEF FirstAnswer
<1>4. CASE kids # {}
  <2>1. \E o \in kids : \A p \in kids : o <= p BY <1>2, <1>4, LeastOf
  <2> DEFINE f == CHOOSE o \in kids : \A p \in kids : o <= p
  <2>2. f \in kids /\ \A p \in kids : f <= p BY <2>1
  <2>3. FirstAnswer(os, c) = f BY <1>4 DEF FirstAnswer
  <2> HIDE DEF f
  <2> QED BY <1>1, <2>2, <2>3
<1> QED BY <1>3, <1>4

\* What AddChildren may do: nothing but adding the child; posting it; watching it as
\* well; posting a new value of another object instead.
Quietly(child) == objs' = Append(objs, child) /\ watched' = watched /\ queue' = queue
Posting(child) ==
  /\ objs' = Append(objs, child) /\ watched' = watched
  /\ queue' = Append(queue, Added(Len(objs) + 1))
Watching(child) ==
  /\ objs' = Append(objs, child) /\ watched' = Append(watched, Len(objs) + 1)
  /\ queue' = Append(queue, Added(Len(objs) + 1))
Updating(child, first) ==
  /\ objs' = [Append(objs, child) EXCEPT ![first].val = child.val] /\ watched' = watched
  /\ queue' = Append(queue, Updated(first, child.val))

\* The first answer of the watched command with the text of the child's command.
FirstOf(child) ==
  LET os == Append(objs, child)
  IN FirstAnswer(os, FindWatchedCmd(os, watched, os[child.parent].line))

\* What AddChildren does, by the observer and the child.
LEMMA AddCases ==
  ASSUME TypeInv, job \in Jobs, NEW child \in Object, AddChildren(child)
  PROVE  LET command == child.kind = "command"
             answer == ~ command /\ Append(objs, child)[child.parent].kind = "command"
             watch == ~ job.silence /\ ~ job.history
             first == FirstOf(child)
         IN \/ job.silence /\ Quietly(child)
            \/ ~ job.silence /\ job.history /\ Posting(child)
            \/ watch /\ command /\ Len(watched) = Len(job.lines) /\ Quietly(child)
            \/ watch /\ command /\ Len(watched) # Len(job.lines) /\ Watching(child)
            \/ watch /\ ~ command /\ ~ answer /\ Quietly(child)
            \/ watch /\ answer /\ first = Root /\ Quietly(child)
            \/ watch /\ answer /\ first = Len(objs) + 1 /\ Posting(child)
            \/ watch /\ answer /\ first \in 1 .. Len(objs) /\ Updating(child, first)
<1> DEFINE os == Append(objs, child)
           o == Len(objs) + 1
           first == FirstOf(child)
           answer == child.kind # "command" /\ os[child.parent].kind = "command"
           seen == IF job.silence THEN [objs |-> os, watched |-> watched, post |-> <<>>]
                   ELSE IF job.history THEN RootChildrenAdded(os, watched, Len(os))
                   ELSE WatchChildrenAdded(os, watched, Len(os))
<1>1. os \in Seq(Object) /\ Len(os) = o /\ os[o] = child /\ Len(objs) \in Nat
  BY AppendProperties DEF TypeInv
<1>2. queue \o <<>> = queue BY ConcatEmptySeq DEF TypeInv
<1>3. ASSUME NEW x PROVE queue \o <<x>> = Append(queue, x)
  BY DEF TypeInv
<1>4. first = Root \/ first \in 1 .. o
  BY <1>1, FirstAnswerFound DEF FirstOf
<1>5. objs' = seen.objs /\ watched' = seen.watched /\ queue' = queue \o seen.post
  BY Zenon DEF AddChildren
<1>6. job.history \in BOOLEAN /\ job.silence \in BOOLEAN BY JobType
<1> HIDE DEF first, os, answer, seen
<1>7. ASSUME seen = [objs |-> os, watched |-> watched, post |-> <<>>] PROVE Quietly(child)
  BY <1>2, <1>5, <1>7 DEF Quietly, os
<1>8. ASSUME seen = [objs |-> os, watched |-> watched, post |-> <<Added(o)>>]
      PROVE  Posting(child)
  BY <1>3, <1>5, <1>8 DEF Posting, os
<1>9. CASE job.silence BY <1>7, <1>9, Zenon DEF seen
<1>10. CASE ~ job.silence /\ job.history
  <2>1. seen = [objs |-> os, watched |-> watched, post |-> <<Added(o)>>]
    BY <1>1, <1>10 DEF RootChildrenAdded, seen
  <2> QED BY <1>8, <1>10, <2>1
<1>11. CASE ~ job.silence /\ ~ job.history
  <2>0. seen = WatchChildrenAdded(os, watched, o) BY <1>1, <1>11 DEF seen
  <2>1. CASE child.kind = "command" /\ Len(watched) = Len(job.lines)
    <3>1. seen = [objs |-> os, watched |-> watched, post |-> <<>>]
      BY <1>1, <2>0, <2>1 DEF WatchChildrenAdded
    <3> QED BY <1>7, <1>11, <2>1, <3>1
  <2>2. CASE child.kind = "command" /\ Len(watched) # Len(job.lines)
    <3>1. seen = [objs |-> os, watched |-> Append(watched, o), post |-> <<Added(o)>>]
      BY <1>1, <2>0, <2>2 DEF WatchChildrenAdded
    <3>2. Watching(child) BY <1>3, <1>5, <3>1 DEF Watching, os
    <3> QED BY <1>11, <2>2, <3>2
  <2>3. CASE child.kind # "command" /\ ~ answer
    <3>1. seen = [objs |-> os, watched |-> watched, post |-> <<>>]
      BY <1>1, <2>0, <2>3 DEF WatchChildrenAdded, answer
    <3> QED BY <1>7, <1>11, <2>3, <3>1 DEF answer, os
  <2>4. CASE answer
    <3>1. seen = IF first = Root THEN [objs |-> os, watched |-> watched, post |-> <<>>]
                 ELSE IF first = o
                 THEN [objs |-> os, watched |-> watched, post |-> <<Added(o)>>]
                 ELSE [objs |-> [os EXCEPT ![first].val = child.val], watched |-> watched,
                       post |-> <<Updated(first, child.val)>>]
      BY <1>1, <2>0, <2>4 DEF WatchChildrenAdded, first, FirstOf, os, answer
    <3>2. CASE first = Root
      <4>1. Quietly(child) BY <1>7, <3>1, <3>2
      <4> QED BY <4>1, <1>11, <2>4, <3>2 DEF os, first, answer
    <3>3. CASE first = o /\ first # Root
      <4>1. Posting(child) BY <1>8, <3>1, <3>3
      <4> QED BY <4>1, <1>11, <2>4, <3>3 DEF os, first, answer
    <3>4. CASE first # o /\ first # Root
      <4>1. first \in 1 .. Len(objs) BY <1>1, <1>4, <3>4
      <4>2. seen = [objs |-> [os EXCEPT ![first].val = child.val], watched |-> watched,
                    post |-> <<Updated(first, child.val)>>]
        BY <3>1, <3>4
      <4>3. Updating(child, first) BY <1>3, <1>5, <4>2 DEF Updating, os
      <4> QED BY <1>11, <2>4, <4>1, <4>3 DEF os, first, answer
    <3> QED BY <3>2, <3>3, <3>4
  <2> QED BY <2>1, <2>2, <2>3, <2>4 DEF answer
<1> QED BY <1>6, <1>9, <1>10, <1>11

\* AddChildren adds the child after the objects there are, which keep what they are and
\* where they hang.
LEMMA AddGrows ==
  ASSUME TypeInv, job \in Jobs, NEW child \in Object, AddChildren(child)
  PROVE  /\ objs' \in Seq(Object) /\ Len(objs) \in Nat /\ Len(objs') = Len(objs) + 1
         /\ objs'[Len(objs) + 1] = child
         /\ \A o \in 1 .. Len(objs) :
              /\ objs'[o].parent = objs[o].parent /\ objs'[o].kind = objs[o].kind
              /\ objs'[o].line = objs[o].line
         /\ watched' \in Seq(Nat) /\ queue' \in Seq(Event)
         /\ \A n \in 1 .. Len(queue') :
              queue'[n].ev \in {"ChildAdded", "ItemUpdated"} => queue'[n].obj \in 1 .. Len(objs')
<1> DEFINE os == Append(objs, child)
           o == Len(objs) + 1
<1>1. /\ objs \in Seq(Object) /\ Len(objs) \in Nat /\ queue \in Seq(Event) /\ Len(queue) \in Nat
      /\ watched \in Seq(Nat)
      /\ \A n \in 1 .. Len(queue) :
           queue[n].ev \in {"ChildAdded", "ItemUpdated"} => queue[n].obj \in 1 .. Len(objs)
  BY DEF TypeInv
<1>2. /\ os \in Seq(Object) /\ Len(os) = o /\ os[o] = child
      /\ \A p \in 1 .. Len(objs) : os[p] = objs[p]
  BY <1>1, AppendProperties
<1> HIDE DEF os
<1>3. ASSUME objs' = os
      PROVE  /\ objs' \in Seq(Object) /\ Len(objs') = o /\ objs'[o] = child
             /\ \A p \in 1 .. Len(objs) :
                  /\ objs'[p].parent = objs[p].parent /\ objs'[p].kind = objs[p].kind
                  /\ objs'[p].line = objs[p].line
  BY <1>2, <1>3
<1>4. ASSUME NEW e \in Event, queue' = Append(queue, e), Len(objs') = o,
             e.ev \in {"ChildAdded", "ItemUpdated"} => e.obj \in 1 .. o
      PROVE  /\ queue' \in Seq(Event)
             /\ \A n \in 1 .. Len(queue') :
                  queue'[n].ev \in {"ChildAdded", "ItemUpdated"} => queue'[n].obj \in 1 .. Len(objs')
  <2>1. /\ queue' \in Seq(Event) /\ Len(queue') = Len(queue) + 1 /\ queue'[Len(queue) + 1] = e
        /\ \A n \in 1 .. Len(queue) : queue'[n] = queue[n]
    BY <1>1, <1>4, AppendProperties
  <2>2. ASSUME NEW n \in 1 .. Len(queue'), queue'[n].ev \in {"ChildAdded", "ItemUpdated"}
        PROVE  queue'[n].obj \in 1 .. o
    <3>1. CASE n = Len(queue) + 1 BY <1>4, <2>1, <2>2, <3>1
    <3>2. CASE n \in 1 .. Len(queue) BY <1>1, <2>1, <2>2, <3>2
    <3> QED BY <1>1, <2>1, <3>1, <3>2
  <2> QED BY <2>1, <2>2, <1>4
<1>5. Added(o) \in Event /\ Added(o).obj = o /\ o \in 1 .. o
  BY <1>1 DEF Added, Event
<1>6. ASSUME Quietly(child)
      PROVE  /\ objs' = os /\ watched' \in Seq(Nat) /\ queue' \in Seq(Event)
             /\ \A n \in 1 .. Len(queue') :
                  queue'[n].ev \in {"ChildAdded", "ItemUpdated"} => queue'[n].obj \in 1 .. Len(objs')
  <2>1. objs' = os /\ watched' = watched /\ queue' = queue BY <1>6 DEF Quietly, os
  <2>2. Len(objs') = o BY <1>2, <2>1
  <2> QED BY <1>1, <2>1, <2>2
<1>7. ASSUME Posting(child) \/ Watching(child)
      PROVE  /\ objs' = os /\ watched' \in Seq(Nat) /\ queue' \in Seq(Event)
             /\ \A n \in 1 .. Len(queue') :
                  queue'[n].ev \in {"ChildAdded", "ItemUpdated"} => queue'[n].obj \in 1 .. Len(objs')
  <2>1. /\ objs' = os /\ watched' \in {watched, Append(watched, o)}
        /\ queue' = Append(queue, Added(o))
    BY <1>7 DEF Posting, Watching, os
  <2>2. Append(watched, o) \in Seq(Nat) BY <1>1, AppendProperties
  <2>3. Len(objs') = o BY <1>2, <2>1
  <2> QED BY <1>1, <1>4, <1>5, <2>1, <2>2, <2>3
<1>8. ASSUME NEW first \in 1 .. Len(objs), Updating(child, first)
      PROVE  /\ objs' \in Seq(Object) /\ Len(objs') = o /\ objs'[o] = child
             /\ \A p \in 1 .. Len(objs) :
                  /\ objs'[p].parent = objs[p].parent /\ objs'[p].kind = objs[p].kind
                  /\ objs'[p].line = objs[p].line
             /\ watched' \in Seq(Nat) /\ queue' \in Seq(Event)
             /\ \A n \in 1 .. Len(queue') :
                  queue'[n].ev \in {"ChildAdded", "ItemUpdated"} => queue'[n].obj \in 1 .. Len(objs')
  <2>1. /\ objs' = [os EXCEPT ![first].val = child.val] /\ watched' = watched
        /\ queue' = Append(queue, Updated(first, child.val))
    BY <1>8 DEF Updating, os
  <2>2. child.val \in Seq(Nat) BY DEF Object
  <2>3. os[first] = objs[first] /\ objs[first] \in Object BY <1>1, <1>2
  <2>4. [os[first] EXCEPT !.val = child.val] \in Object BY <2>2, <2>3 DEF Object
  <2>5. /\ objs' \in Seq(Object) /\ Len(objs') = o
        /\ \A p \in 1 .. o : objs'[p] = IF p = first THEN [os[first] EXCEPT !.val = child.val]
                                         ELSE os[p]
    BY <1>1, <1>2, <2>1, <2>4, ExceptSeq
  <2>6. objs'[o] = child BY <1>1, <1>2, <2>5
  <2>7. \A p \in 1 .. Len(objs) :
          /\ objs'[p].parent = objs[p].parent /\ objs'[p].kind = objs[p].kind
          /\ objs'[p].line = objs[p].line
    <3>1. ASSUME NEW p \in 1 .. Len(objs)
          PROVE  /\ objs'[p].parent = objs[p].parent /\ objs'[p].kind = objs[p].kind
                 /\ objs'[p].line = objs[p].line
      <4>1. CASE p # first BY <1>1, <1>2, <2>5, <4>1
      <4>2. CASE p = first
        <5>1. objs'[p] = [objs[p] EXCEPT !.val = child.val] BY <1>1, <2>3, <2>5, <4>2
        <5> QED BY <5>1, <2>3, <4>2 DEF Object
      <4> QED BY <4>1, <4>2
    <3> QED BY <3>1
  <2>8. Updated(first, child.val) \in Event /\ Updated(first, child.val).obj = first
    BY <1>1, <2>2 DEF Updated, Event
  <2>9. first \in 1 .. o BY <1>1
  <2>10. /\ queue' \in Seq(Event)
         /\ \A n \in 1 .. Len(queue') :
              queue'[n].ev \in {"ChildAdded", "ItemUpdated"} => queue'[n].obj \in 1 .. Len(objs')
    BY <1>4, <2>1, <2>5, <2>8, <2>9
  <2> QED BY <1>1, <2>1, <2>5, <2>6, <2>7, <2>10
<1>9. \/ Quietly(child) \/ Posting(child) \/ Watching(child)
      \/ \E first \in 1 .. Len(objs) : Updating(child, first)
  BY AddCases
<1>10. CASE Quietly(child) BY <1>1, <1>3, <1>6, <1>10
<1>11. CASE Posting(child) \/ Watching(child) BY <1>1, <1>3, <1>7, <1>11
<1>12. CASE \E first \in 1 .. Len(objs) : Updating(child, first) BY <1>1, <1>8, <1>12
<1> QED BY <1>9, <1>10, <1>11, <1>12

\* The kinds of answers of a handler that is called.
Outs == {"none", "value", "array", "stats", "ttl", "help", "reply", "stream", "unsupported"}

\* Execute calls a handler with one of these kinds of answers, or none.
LEMMA ExecuteOut ==
  ASSUME NEW s \in AllStores, NEW line \in Seq(STRING)
  PROVE  LET e == Execute(s, line) IN e.what = "call" => e.h.out \in Outs
<1> DEFINE e == Execute(s, line)
<1>1. ASSUME e.what = "call" PROVE e.h.out \in Outs
  <2>1. PICK j \in DOMAIN Table[s] : e.h = Handlers[s][Table[s][j].func]
    BY <1>1, ExecuteCases
  <2>2. EntryHolds(s, Table[s][j]) BY EntryType
  <2>3. Handlers[s][Table[s][j].func].out \in Outs BY <2>2 DEF EntryHolds, Outs
  <2> QED BY <2>1, <2>3, Zenon
<1> QED BY <1>1, Zenon

Ok(kids) == [add |-> kids, err |-> FALSE]
Err(kids) == [add |-> kids, err |-> TRUE]

\* The outcomes of a handler, by the kind of its answers.
LEMMA OutcomesAre ==
  ASSUME NEW e, NEW line
  PROVE  /\ e.what # "call" => Outcomes(e, line) = {Err(<<>>)}
         /\ e.what = "call" /\ e.h.out \in Outs =>
              \/ e.h.out = "none" /\ Outcomes(e, line) = {Ok(<<>>), Err(<<>>)}
              \/ e.h.out = "value" /\ Outcomes(e, line) = {Ok(<<"value">>), Err(<<>>)}
              \/ e.h.out = "array" /\ Outcomes(e, line) = {Ok(<<"array">>), Err(<<>>)}
              \/ e.h.out = "stats" /\ Outcomes(e, line) \in {{Ok(<<"array">>), Err(<<>>)},
                                                            {Ok(<<"value">>), Err(<<>>)}}
              \/ e.h.out = "ttl" /\ Outcomes(e, line) = {Ok(<<"value">>), Err(<<"value">>)}
              \/ e.h.out = "help" /\ Outcomes(e, line) = {Ok(HelpTexts(Tail(line)))}
              \/ /\ e.h.out = "reply"
                 /\ Outcomes(e, line) = {Ok(<<"value">>), Ok(<<"array">>),
                                         Ok(<<"array", "inner">>), Err(<<>>)}
              \/ /\ e.h.out = "stream"
                 /\ Outcomes(e, line) = {Err(<<>>), Err(<<"value">>), Err(<<"value", "value">>)}
              \/ e.h.out = "unsupported" /\ Outcomes(e, line) = {Err(<<>>)}
<1> DEFINE out == e.h.out
           none == {Ok(<<>>), Err(<<>>)}
           value == {Ok(<<"value">>), Err(<<>>)}
           array == {Ok(<<"array">>), Err(<<>>)}
           ttl == {Ok(<<"value">>), Err(<<"value">>)}
           help == {Ok(HelpTexts(Tail(line)))}
           reply == {Ok(<<"value">>), Ok(<<"array">>), Ok(<<"array", "inner">>), Err(<<>>)}
           stream == {Err(<<>>), Err(<<"value">>), Err(<<"value", "value">>)}
           refused == {Err(<<>>)}
<1>1. Outcomes(e, line) =
        IF e.what # "call" THEN refused
        ELSE CASE out = "none" -> none
               [] out = "value" -> value
               [] out = "array" -> array
               [] out = "stats" -> IF Tail(line) = <<"items">> THEN array ELSE value
               [] out = "ttl" -> ttl
               [] out = "help" -> help
               [] out = "reply" -> reply
               [] out = "stream" -> stream
               [] out = "unsupported" -> refused
  BY Zenon DEF Outcomes, Ok, Err
<1> HIDE DEF out, none, value, array, ttl, help, reply, stream, refused
<1>2. e.what # "call" => Outcomes(e, line) = refused BY <1>1
<1>3. e.what = "call" /\ out \in Outs =>
        \/ out = "none" /\ Outcomes(e, line) = none
        \/ out = "value" /\ Outcomes(e, line) = value
        \/ out = "array" /\ Outcomes(e, line) = array
        \/ out = "stats" /\ Outcomes(e, line) \in {array, value}
        \/ out = "ttl" /\ Outcomes(e, line) = ttl
        \/ out = "help" /\ Outcomes(e, line) = help
        \/ out = "reply" /\ Outcomes(e, line) = reply
        \/ out = "stream" /\ Outcomes(e, line) = stream
        \/ out = "unsupported" /\ Outcomes(e, line) = refused
  BY <1>1 DEF Outs
<1> QED
  BY <1>2, <1>3, Zenon DEF out, none, value, array, ttl, help, reply, stream, refused

\* A handler adds one of the shapes.
LEMMA OutcomesShape ==
  ASSUME NEW s \in AllStores, NEW line \in Seq(STRING),
         NEW out \in Outcomes(Execute(s, line), line)
  PROVE  out.add \in Shapes /\ out.err \in BOOLEAN
<1> DEFINE e == Execute(s, line)
<1>0. e.what = "call" => e.h.out \in Outs BY ExecuteOut
<1>1. HelpTexts(Tail(line)) \in Shapes BY DEF HelpTexts, Shapes
<1>2. \E kids \in Shapes : out = Ok(kids) \/ out = Err(kids)
  <2> HIDE DEF e
  <2>1. out \in Outcomes(e, line) BY DEF e
  <2>2. /\ <<>> \in Shapes /\ <<"value">> \in Shapes /\ <<"array">> \in Shapes
        /\ <<"array", "inner">> \in Shapes /\ <<"value", "value">> \in Shapes
    BY Zenon DEF Shapes
  <2>3. CASE e.what # "call"
    <3>1. Outcomes(e, line) = {Err(<<>>)} BY <2>3, OutcomesAre, Zenon
    <3> QED BY <2>1, <2>2, <3>1, Zenon
  <2>4. CASE e.what = "call"
    <3>1. \/ Outcomes(e, line) = {Ok(<<>>), Err(<<>>)}
          \/ Outcomes(e, line) = {Ok(<<"value">>), Err(<<>>)}
          \/ Outcomes(e, line) = {Ok(<<"array">>), Err(<<>>)}
          \/ Outcomes(e, line) = {Ok(<<"value">>), Err(<<"value">>)}
          \/ Outcomes(e, line) = {Ok(HelpTexts(Tail(line)))}
          \/ Outcomes(e, line) = {Ok(<<"value">>), Ok(<<"array">>),
                                   Ok(<<"array", "inner">>), Err(<<>>)}
          \/ Outcomes(e, line) = {Err(<<>>), Err(<<"value">>), Err(<<"value", "value">>)}
          \/ Outcomes(e, line) = {Err(<<>>)}
      BY <1>0, <2>4, OutcomesAre, Zenon
    <3> QED BY <1>1, <2>1, <2>2, <3>1, Zenon
  <2> QED BY <2>3, <2>4
<1>3. PICK kids \in Shapes : out = Ok(kids) \/ out = Err(kids) BY <1>2
<1>4. Ok(kids).add = kids /\ Ok(kids).err = FALSE BY DEF Ok
<1>5. Err(kids).add = kids /\ Err(kids).err = TRUE BY DEF Err
<1>6. CASE out = Ok(kids) BY <1>4, <1>6, Zenon
<1>7. CASE out = Err(kids) BY <1>5, <1>7, Zenon
<1> QED BY <1>3, <1>6, <1>7

\* The command object made for the current line.
CommandOf(line) == [parent |-> Root, kind |-> "command", line |-> line, val |-> <<>>]

\* What the step of a command does.
LEMMA CommandStep ==
  ASSUME ControlInv, Command
  PROVE  /\ pc = "next" /\ at \in 1 .. Len(job.lines) /\ round < Rounds
         /\ Line \in Seq(STRING) /\ CommandOf(Line) \in Object
         /\ \E out \in Outcomes(Execute(job.store, Line), Line) :
              /\ answers' = out.add /\ fails' = out.err
              /\ out.add \in Shapes /\ out.err \in BOOLEAN
         /\ AddChildren(CommandOf(Line))
         /\ pc' \in {"added", "answers"}
         /\ UNCHANGED <<job, round, at, res, rooted, view, log>>
<1> DEFINE e == Execute(job.store, Line)
<1>1. pc = "next" /\ at \in 1 .. Len(job.lines) /\ round < Rounds
  BY DEF Command, ControlInv
<1>2. job.store \in AllStores /\ job.lines \in Seq(Seq(STRING)) BY JobType DEF ControlInv
<1>3. Line \in Seq(STRING) BY <1>1, <1>2 DEF Line
<1>4. CommandOf(Line) \in Object BY <1>3 DEF CommandOf, Object, Root
<1>5. PICK out \in Outcomes(e, Line) :
        /\ answers' = out.add /\ fails' = out.err
        /\ AddChildren(CommandOf(Line)) /\ pc' \in {"added", "answers"}
  BY Zenon DEF Command, Line, CommandOf
<1>6. out.add \in Shapes /\ out.err \in BOOLEAN BY <1>2, <1>3, <1>5, OutcomesShape
<1>7. UNCHANGED <<job, round, at, res, rooted, view, log>> BY DEF Command
<1> QED BY <1>1, <1>3, <1>4, <1>5, <1>6, <1>7

\* The command that is being run: the last one.
Current(c) ==
  /\ c \in 1 .. Len(objs) /\ objs[c].kind = "command" /\ objs[c].line = Line
  /\ \A p \in 1 .. Len(objs) : c < p => objs[p].kind # "command"

\* Where an object hangs: an answer under a command and an inner array under an array,
\* both with the same line.
Hangs(o) ==
  LET p == objs[o].parent
  IN /\ objs[o].kind = "command" => p = Root
     /\ objs[o].kind \in {"value", "array"} =>
          p \in 1 .. o - 1 /\ objs[p].kind = "command" /\ objs[p].line = objs[o].line
     /\ objs[o].kind = "inner" =>
          p \in 1 .. o - 1 /\ objs[p].kind = "array" /\ objs[p].line = objs[o].line

\* The tree of FastoObjects.
TreeInv ==
  /\ \A o \in 1 .. Len(objs) : Hangs(o)
  /\ Running => \E c \in 1 .. Len(objs) : Current(c)
  /\ ~ Running => answers = <<>>
  /\ answers = <<"inner">> =>
       Len(objs) # 0 /\ objs[Len(objs)].kind = "array" /\ objs[Len(objs)].line = Line

\* What the other invariants rest on.
BaseInv == ControlInv /\ TypeInv /\ TreeInv

\* The answer object that is added next, under the command c.
AnswerOf(c) ==
  [parent |-> IF Head(answers) = "inner" THEN Len(objs) ELSE c,
   kind |-> Head(answers), line |-> Line, val |-> <<Len(log) + 1>>]

\* The answers still to be added, one by one.
LEMMA AnswersLeft ==
  ASSUME answers \in Shapes \cup {<<"inner">>}, answers # <<>>
  PROVE  /\ Head(answers) \in {"value", "array", "inner"}
         /\ Tail(answers) \in Shapes \cup {<<"inner">>}
         /\ Head(answers) = "inner" <=> answers = <<"inner">>
         /\ Tail(answers) = <<"inner">> => Head(answers) = "array"
<1>1. CASE answers = <<"value">> BY <1>1 DEF Shapes
<1>2. CASE answers = <<"array">> BY <1>2 DEF Shapes
<1>3. CASE answers = <<"inner">> BY <1>3 DEF Shapes
<1>4. CASE answers = <<"array", "inner">>
  <2>1. Head(answers) = "array" /\ Tail(answers) = <<"inner">> /\ Len(answers) = 2 BY <1>4
  <2> QED BY <2>1, <1>4
<1>5. CASE answers = <<"value", "value">>
  <2>1. Head(answers) = "value" /\ Tail(answers) = <<"value">> BY <1>5
  <2>2. <<"value">> \in Shapes /\ <<"value">> # <<"inner">> BY DEF Shapes
  <2> QED BY <2>1, <2>2, <1>5
<1> QED BY <1>1, <1>2, <1>3, <1>4, <1>5 DEF Shapes

\* What the step of an answer does.
LEMMA AnswerStep ==
  ASSUME BaseInv, Answer
  PROVE  /\ pc = "answers" /\ answers # <<>> /\ at \in 1 .. Len(job.lines)
         /\ Line \in Seq(STRING)
         /\ \E c \in 1 .. Len(objs) :
              Current(c) /\ AnswerOf(c) \in Object /\ AddChildren(AnswerOf(c))
         /\ log' = IF Head(answers) = "inner" THEN log
                   ELSE Append(log, [line |-> Line, set |-> FALSE, key |-> "",
                                     val |-> <<Len(log) + 1>>])
         /\ answers' = Tail(answers)
         /\ UNCHANGED <<job, pc, round, at, ex, fails, res, rooted, view>>
<1> DEFINE cmds == {o \in DOMAIN objs : objs[o].kind = "command"}
           cmd == CHOOSE o \in cmds : \A p \in cmds : p <= o
<1>1. pc = "answers" /\ answers # <<>> /\ at \in 1 .. Len(job.lines) /\ Running
  BY DEF Answer, BaseInv, ControlInv, Running
<1>2. job.lines \in Seq(Seq(STRING)) BY JobType DEF BaseInv, ControlInv
<1>3. Line \in Seq(STRING) BY <1>1, <1>2 DEF Line
<1>4. PICK c \in 1 .. Len(objs) : Current(c) BY <1>1 DEF BaseInv, TreeInv
<1>5. DOMAIN objs = 1 .. Len(objs) /\ Len(objs) \in Nat BY DEF BaseInv, TypeInv
<1>6. c \in cmds /\ \A p \in cmds : p <= c BY <1>4, <1>5 DEF Current
<1>7. cmd = c
  <2>1. cmd \in cmds /\ \A p \in cmds : p <= cmd BY <1>6
  <2>2. cmd <= c /\ c <= cmd BY <1>6, <2>1
  <2>3. cmd \in Nat /\ c \in Nat BY <1>5, <1>6, <2>1
  <2> HIDE DEF cmd
  <2> QED BY <2>2, <2>3
<1>8. AddChildren([parent |-> IF Head(answers) = "inner" THEN Len(objs) ELSE cmd,
                   kind |-> Head(answers), line |-> Line, val |-> <<Len(log) + 1>>])
  BY Zenon DEF Answer, Line
<1>9. AddChildren(AnswerOf(c)) BY <1>7, <1>8, Zenon DEF AnswerOf
<1>10. Head(answers) \in {"value", "array", "inner"} BY <1>1, AnswersLeft DEF BaseInv, TypeInv
<1>11. <<Len(log) + 1>> \in Seq(Nat) BY DEF BaseInv, TypeInv
<1>12. (IF Head(answers) = "inner" THEN Len(objs) ELSE c) \in Nat BY <1>5
<1>13. AnswerOf(c) \in Object BY <1>3, <1>10, <1>11, <1>12 DEF AnswerOf, Object
<1>14. /\ log' = IF Head(answers) = "inner" THEN log
                 ELSE Append(log, [line |-> Line, set |-> FALSE, key |-> "",
                                   val |-> <<Len(log) + 1>>])
       /\ answers' = Tail(answers)
       /\ UNCHANGED <<job, pc, round, at, ex, fails, res, rooted, view>>
  BY Zenon DEF Answer, Line
<1> QED BY <1>1, <1>3, <1>4, <1>9, <1>13, <1>14

\* What delivering an event does to the queue.
LEMMA DeliverStep ==
  ASSUME TypeInv, Deliver
  PROVE  /\ Len(queue) \in Nat \ {0} /\ queue[1] \in Event /\ Head(queue) = queue[1]
         /\ queue' \in Seq(Event) /\ Len(queue') = Len(queue) - 1
         /\ \A n \in 1 .. Len(queue') : queue'[n] = queue[n + 1]
         /\ rooted' = (rooted \/ queue[1].ev = "RootCreated")
         /\ UNCHANGED driver
<1>1. queue \in Seq(Event) /\ queue # <<>> BY DEF TypeInv, Deliver
<1>2. queue' = Tail(queue) /\ rooted' = (rooted \/ Head(queue).ev = "RootCreated")
      /\ UNCHANGED driver
  BY DEF Deliver
<1>3. Len(queue) \in Nat \ {0} /\ queue[1] \in Event BY <1>1
<1>4. Head(queue) = queue[1] BY <1>1
<1>5. /\ queue' \in Seq(Event) /\ Len(queue') = Len(queue) - 1
      /\ \A n \in 1 .. Len(queue') : queue'[n] = queue[n + 1]
  BY <1>1, <1>2, HeadTailProperties
<1> QED BY <1>2, <1>3, <1>4, <1>5

\* The item an object is shown under: the root, or the array it belongs to.
Under(o) == IF objs[objs[o].parent].kind = "command" THEN Root ELSE objs[o].parent

\* The item of an answer.
LEMMA ItemType ==
  ASSUME TypeInv, NEW o \in 1 .. Len(objs), NEW u \in Nat
  PROVE  /\ Item(o, u) \in Shown /\ Item(o, u).obj = o /\ Item(o, u).under = u
         /\ Item(o, u).val = objs[o].val
         /\ u = Root => Item(o, u).key = ItemKey(objs[o].line)
<1>1. objs[o] \in Object /\ Len(objs) \in Nat BY DEF TypeInv
<1>2. objs[o].line \in Seq(STRING) /\ objs[o].val \in Seq(Nat) BY <1>1 DEF Object
<1>3. ASSUME NEW l \in Seq(STRING) PROVE ItemKey(l) \in STRING \cup {""}
  <2>1. CASE Len(l) > 1
    <3>1. l \in [1 .. Len(l) -> STRING] /\ 2 \in 1 .. Len(l) BY <2>1, LenProperties
    <3>2. l[2] \in STRING BY <3>1
    <3> QED BY <2>1, <3>2, Zenon DEF ItemKey
  <2>2. CASE ~ (Len(l) > 1) BY <2>2, Zenon DEF ItemKey
  <2> QED BY <2>1, <2>2
<1> DEFINE key == IF u = Root THEN ItemKey(objs[o].line) ELSE ""
<1>4. ItemKey(objs[o].line) \in STRING \cup {""} BY <1>2, <1>3
<1>5. key \in STRING \cup {""} BY <1>4, Zenon
<1>6. u = Root => key = ItemKey(objs[o].line) OBVIOUS
<1>7. Item(o, u) = [obj |-> o, under |-> u, key |-> key, val |-> objs[o].val]
  BY Zenon DEF Item
<1> HIDE DEF key
<1> DEFINE val == objs[o].val
           it == [obj |-> o, under |-> u, key |-> key, val |-> val]
<1>8. o \in Nat /\ val \in Seq(Nat) BY <1>1, <1>2
<1> HIDE DEF val
<1>9. it \in Shown BY <1>5, <1>8 DEF Shown
<1>10. it.obj = o /\ it.under = u /\ it.val = val /\ it.key = key OBVIOUS
<1>11. Item(o, u) = it BY <1>7, Zenon DEF val
<1> HIDE DEF it
<1> QED BY <1>6, <1>9, <1>10, <1>11, Zenon DEF val

\* What delivering an event does to the items.
LEMMA DeliverCases ==
  ASSUME TypeInv, Deliver
  PROVE  \/ queue[1].ev \in {"RootCreated"} /\ view' = <<>>
         \/ queue[1].ev = "RootCompleated" /\ view' = view
         \/ /\ queue[1].ev = "ChildAdded" /\ queue[1].obj \in 1 .. Len(objs)
            /\ AddChild(queue[1].obj)
         \/ /\ queue[1].ev = "ItemUpdated" /\ queue[1].obj \in 1 .. Len(objs)
            /\ queue[1].val \in Seq(Nat) /\ UpdateItem(queue[1].obj, queue[1].val)
         \/ /\ queue[1].ev = "KeyAdded" /\ queue[1].val \in Seq(Nat)
            /\ ChangeValue(queue[1].key, queue[1].val)
<1> DEFINE e == queue[1]
<1>1. e \in Event /\ Head(queue) = e /\ Len(queue) \in Nat \ {0} BY DeliverStep
<1>2. e.ev \in {"ChildAdded", "ItemUpdated"} => e.obj \in 1 .. Len(objs)
  BY <1>1 DEF TypeInv
<1>3. CASE e.ev = "RootCreated" BY <1>1, <1>3 DEF Deliver
<1>4. CASE e.ev = "ChildAdded" BY <1>1, <1>2, <1>4 DEF Deliver
<1>5. CASE e.ev = "ItemUpdated"
  <2>1. e.val \in Seq(Nat) BY <1>1, <1>5 DEF Event
  <2>2. UpdateItem(e.obj, e.val) BY <1>1, <1>5 DEF Deliver
  <2> QED BY <1>2, <1>5, <2>1, <2>2
<1>6. CASE e.ev = "KeyAdded"
  <2>1. e.val \in Seq(Nat) BY <1>1, <1>6 DEF Event
  <2>2. ChangeValue(e.key, e.val) BY <1>1, <1>6 DEF Deliver
  <2> QED BY <1>6, <2>1, <2>2
<1>7. CASE e.ev = "RootCompleated" BY <1>1, <1>7 DEF Deliver
<1>8. e.ev \in {"RootCreated", "RootCompleated", "ChildAdded", "ItemUpdated", "KeyAdded"}
  BY <1>1 DEF Event
<1> QED BY <1>3, <1>4, <1>5, <1>6, <1>7, <1>8

\* addChild: nothing, or an item after the others.
LEMMA AddChildCases ==
  ASSUME TypeInv, NEW o \in 1 .. Len(objs), Hangs(o), AddChild(o)
  PROVE  /\ objs[o].kind = "command" => view' = view
         /\ objs[o].kind # "command" =>
              /\ Under(o) \in Nat
              /\ IF rooted /\ (Under(o) = Root \/ \E n \in 1 .. Len(view) : view[n].obj = Under(o))
                 THEN /\ view' = Append(view, Item(o, Under(o))) /\ view' \in Seq(Shown)
                      /\ Len(view') = Len(view) + 1 /\ view'[Len(view) + 1] = Item(o, Under(o))
                      /\ \A n \in 1 .. Len(view) : view'[n] = view[n]
                 ELSE view' = view
<1> DEFINE found == rooted /\ (Under(o) = Root \/ \E n \in DOMAIN view : view[n].obj = Under(o))
<1>1. view' = IF objs[o].kind = "command" \/ ~ found THEN view
              ELSE Append(view, Item(o, Under(o)))
  BY Zenon DEF AddChild, Under
<1>2. DOMAIN view = 1 .. Len(view) /\ view \in Seq(Shown) BY DEF TypeInv
<1>3. ASSUME objs[o].kind # "command" PROVE Under(o) \in Nat
  <2>1. objs[o] \in Object BY DEF TypeInv
  <2> QED BY <2>1 DEF Under, Object, Root
<1>4. ASSUME objs[o].kind # "command", found
      PROVE  /\ view' = Append(view, Item(o, Under(o))) /\ view' \in Seq(Shown)
             /\ Len(view') = Len(view) + 1 /\ view'[Len(view) + 1] = Item(o, Under(o))
             /\ \A n \in 1 .. Len(view) : view'[n] = view[n]
  <2>1. view' = Append(view, Item(o, Under(o))) BY <1>1, <1>4
  <2>2. Item(o, Under(o)) \in Shown BY <1>3, <1>4, ItemType
  <2> HIDE DEF found
  <2> QED BY <1>2, <2>1, <2>2, AppendProperties
<1>5. CASE objs[o].kind = "command" BY <1>1, <1>5
<1>6. CASE objs[o].kind # "command" /\ found BY <1>2, <1>3, <1>4, <1>6
<1>7. CASE objs[o].kind # "command" /\ ~ found
  <2>1. view' = view BY <1>1, <1>7
  <2> QED BY <1>2, <1>3, <1>7, <2>1
<1> QED BY <1>5, <1>6, <1>7

\* The other changes of items: a new value for some of them.
Revalued(v) ==
  /\ view' \in Seq(Shown) /\ Len(view') = Len(view)
  /\ \A n \in 1 .. Len(view) :
       /\ view'[n].obj = view[n].obj /\ view'[n].under = view[n].under
       /\ view'[n].key = view[n].key /\ view'[n].val \in {view[n].val, v}

\* updateItem
LEMMA UpdateItemCases ==
  ASSUME TypeInv, NEW o, NEW v \in Seq(Nat), UpdateItem(o, v)
  PROVE  /\ Revalued(v)
         /\ \A n \in 1 .. Len(view) :
              view'[n].val = IF view[n].obj = o THEN v ELSE view[n].val
<1>1. view \in Seq(Shown) /\ DOMAIN view = 1 .. Len(view) /\ Len(view) \in Nat BY DEF TypeInv
<1>2. view' = [n \in 1 .. Len(view) |-> IF view[n].obj = o THEN [view[n] EXCEPT !.val = v]
                                         ELSE view[n]]
  BY <1>1 DEF UpdateItem
<1>3. ASSUME NEW n \in 1 .. Len(view)
      PROVE  /\ view'[n] \in Shown
             /\ view'[n].obj = view[n].obj /\ view'[n].under = view[n].under
             /\ view'[n].key = view[n].key
             /\ view'[n].val = IF view[n].obj = o THEN v ELSE view[n].val
  <2>1. view[n] \in Shown BY <1>1
  <2>2. CASE view[n].obj = o
    <3>1. view'[n] = [view[n] EXCEPT !.val = v] BY <1>2, <2>2
    <3> QED BY <2>1, <2>2, <3>1 DEF Shown
  <2>3. CASE view[n].obj # o
    <3>1. view'[n] = view[n] BY <1>2, <2>3
    <3> QED BY <2>1, <2>3, <3>1
  <2> QED BY <2>2, <2>3
<1>4. view' \in [1 .. Len(view) -> Shown] BY <1>2, <1>3
<1>5. view' \in Seq(Shown) /\ Len(view') = Len(view) BY <1>1, <1>4, IsASeq, LenProperties
<1> QED BY <1>3, <1>5 DEF Revalued

\* changeValue
LEMMA ChangeValueCases ==
  ASSUME TypeInv, NEW key, NEW v \in Seq(Nat), ChangeValue(key, v)
  PROVE  /\ Revalued(v)
         /\ \A n \in 1 .. Len(view) :
              \/ view'[n].val = view[n].val
              \/ view'[n].val = v /\ view[n].under = Root /\ view[n].key = key
<1> DEFINE same == {n \in DOMAIN view : view[n].under = Root /\ view[n].key = key}
           first == CHOOSE n \in same : \A m \in same : n <= m
<1>1. view \in Seq(Shown) /\ DOMAIN view = 1 .. Len(view) /\ Len(view) \in Nat BY DEF TypeInv
<1>2. view' = IF same = {} THEN view ELSE [view EXCEPT ![first].val = v]
  BY Zenon DEF ChangeValue
<1>3. same \in SUBSET Nat BY <1>1
<1>4. CASE same = {}
  <2>1. view' = view BY <1>2, <1>4
  <2> QED BY <1>1, <2>1 DEF Revalued
<1>5. CASE same # {}
  <2>1. \E n \in same : \A m \in same : n <= m BY <1>3, <1>5, LeastOf
  <2>2. first \in same BY <2>1
  <2> HIDE DEF first
  <2>3. first \in 1 .. Len(view) /\ view[first].under = Root /\ view[first].key = key
    BY <1>1, <2>2
  <2>4. view' = [view EXCEPT ![first] = [view[first] EXCEPT !.val = v]] BY <1>2, <1>5
  <2>5. view[first] \in Shown BY <1>1, <2>3
  <2>6. [view[first] EXCEPT !.val = v] \in Shown BY <2>5 DEF Shown
  <2>7. /\ view' \in Seq(Shown) /\ Len(view') = Len(view)
        /\ \A n \in 1 .. Len(view) : view'[n] = IF n = first THEN [view[first] EXCEPT !.val = v]
                                                 ELSE view[n]
    BY <1>1, <2>3, <2>4, <2>6, ExceptSeq
  <2>8. ASSUME NEW n \in 1 .. Len(view)
        PROVE  /\ view'[n].obj = view[n].obj /\ view'[n].under = view[n].under
               /\ view'[n].key = view[n].key /\ view'[n].val \in {view[n].val, v}
               /\ \/ view'[n].val = view[n].val
                  \/ view'[n].val = v /\ view[n].under = Root /\ view[n].key = key
    <3>1. CASE n # first BY <2>7, <3>1
    <3>2. CASE n = first
      <4>1. view'[n] = [view[first] EXCEPT !.val = v] BY <2>7, <3>2
      <4> QED BY <2>3, <2>5, <3>2, <4>1 DEF Shown
    <3> QED BY <3>1, <3>2
  <2> QED BY <2>7, <2>8 DEF Revalued
<1> QED BY <1>4, <1>5

\* An inner array does not come first.
LEMMA InnerNoShape == <<"inner">> \notin Shapes
<1>1. /\ <<"inner">>[1] = "inner" /\ <<"value">>[1] = "value" /\ <<"array">>[1] = "array"
      /\ <<"value", "value">>[1] = "value" /\ <<"array", "inner">>[1] = "array"
  OBVIOUS
<1>2. <<"inner">> # <<>> OBVIOUS
<1>3. "inner" # "value" /\ "inner" # "array" OBVIOUS
<1> QED BY <1>1, <1>2, <1>3, Zenon DEF Shapes

\* An event that is about no object may be added.
LEMMA QueueAppended ==
  ASSUME TypeInv, NEW e \in Event, e.ev \notin {"ChildAdded", "ItemUpdated"}
  PROVE  /\ Append(queue, e) \in Seq(Event)
         /\ \A n \in 1 .. Len(Append(queue, e)) :
              Append(queue, e)[n].ev \in {"ChildAdded", "ItemUpdated"} =>
                Append(queue, e)[n].obj \in 1 .. Len(objs)
<1> DEFINE q == Append(queue, e)
<1>1. queue \in Seq(Event) /\ Len(queue) \in Nat BY DEF TypeInv
<1>2. /\ q \in Seq(Event) /\ Len(q) = Len(queue) + 1 /\ q[Len(queue) + 1] = e
      /\ \A n \in 1 .. Len(queue) : q[n] = queue[n]
  BY <1>1, AppendProperties
<1> HIDE DEF q
<1>3. ASSUME NEW n \in 1 .. Len(q), q[n].ev \in {"ChildAdded", "ItemUpdated"}
      PROVE  q[n].obj \in 1 .. Len(objs)
  <2>1. n \in 1 .. Len(queue) BY <1>1, <1>2, <1>3
  <2> QED BY <1>2, <1>3, <2>1 DEF TypeInv
<1> QED BY <1>2, <1>3 DEF q

\* The first state has the types and no objects.
LEMMA InitBase == Init => BaseInv
<1> SUFFICES ASSUME Init PROVE BaseInv OBVIOUS
<1>1. ControlInv BY InitControl
<1>2. /\ objs = <<>> /\ watched = <<>> /\ queue = <<>> /\ view = <<>> /\ log = <<>>
      /\ answers = <<>> /\ fails = FALSE /\ rooted = FALSE /\ res = "none" /\ pc = "start"
  BY DEF Init
<1>3. TypeInv
  <2>1. answers \in Shapes BY <1>2 DEF Shapes
  <2>2. Len(queue) = 0 /\ Len(view) = 0 BY <1>2
  <2>3. /\ objs \in Seq(Object) /\ watched \in Seq(Nat) /\ queue \in Seq(Event)
        /\ view \in Seq(Shown) /\ log \in Seq(Given)
    BY <1>2, EmptySeq
  <2>4. fails \in BOOLEAN /\ rooted \in BOOLEAN BY <1>2, Zenon
  <2>5. res \in {"none", "error", "interrupted"} BY <1>2
  <2> QED BY <2>1, <2>2, <2>3, <2>4, <2>5 DEF TypeInv
<1>4. TreeInv
  <2>1. Len(objs) = 0 BY <1>2
  <2>2. answers # <<"inner">> BY <1>2
  <2> QED BY <1>2, <2>1, <2>2 DEF TreeInv, Running
<1> QED BY <1>1, <1>3, <1>4 DEF BaseInv

\* An object that is added to the tree hangs where it should, the others stay.
LEMMA TreeGrows ==
  ASSUME BaseInv, NEW child \in Object, AddChildren(child),
         LET p == child.parent
         IN /\ child.kind = "command" => p = Root
            /\ child.kind \in {"value", "array"} =>
                 p \in 1 .. Len(objs) /\ objs[p].kind = "command" /\ objs[p].line = child.line
            /\ child.kind = "inner" =>
                 p \in 1 .. Len(objs) /\ objs[p].kind = "array" /\ objs[p].line = child.line
  PROVE  \A o \in 1 .. Len(objs') : Hangs(o)'
<1>1. job \in Jobs /\ TypeInv BY DEF BaseInv, ControlInv
<1>2. /\ Len(objs) \in Nat /\ Len(objs') = Len(objs) + 1 /\ objs'[Len(objs) + 1] = child
      /\ \A o \in 1 .. Len(objs) :
           /\ objs'[o].parent = objs[o].parent /\ objs'[o].kind = objs[o].kind
           /\ objs'[o].line = objs[o].line
  BY <1>1, AddGrows
<1>3. ASSUME NEW o \in 1 .. Len(objs) PROVE Hangs(o)'
  <2>1. Hangs(o) BY DEF BaseInv, TreeInv
  <2>2. 1 .. o - 1 \subseteq 1 .. Len(objs) BY <1>2
  <2> QED BY <1>2, <2>1, <2>2 DEF Hangs
<1>4. ASSUME NEW o, o = Len(objs) + 1 PROVE Hangs(o)'
  <2>1. 1 .. o - 1 = 1 .. Len(objs) BY <1>2, <1>4
  <2>2. objs'[o] = child BY <1>2, <1>4
  <2> QED BY <1>2, <2>1, <2>2 DEF Hangs
<1> QED BY <1>2, <1>3, <1>4

\* Every step keeps the types and the tree.
LEMMA NextBase == BaseInv /\ [Next]_vars => BaseInv'
<1> SUFFICES ASSUME BaseInv, [Next]_vars PROVE TypeInv' /\ TreeInv'
  BY NextControl DEF BaseInv
<1>0. ControlInv /\ TypeInv /\ TreeInv /\ job \in Jobs BY DEF BaseInv, ControlInv
<1>1. CASE Start
  <2>1. /\ objs' = objs /\ watched' = watched /\ view' = view /\ log' = log /\ answers' = answers
        /\ fails' = fails /\ rooted' = rooted /\ pc = "start" /\ pc' \in {"next", "done"}
        /\ res' \in {res, "error"} /\ job' = job /\ at' = at
        /\ queue' \in {queue, Append(queue, [ev |-> "RootCreated"])}
    BY <1>1 DEF Start
  <2>2. [ev |-> "RootCreated"] \in Event BY DEF Event
  <2>3. /\ queue' \in Seq(Event)
        /\ \A n \in 1 .. Len(queue') :
             queue'[n].ev \in {"ChildAdded", "ItemUpdated"} => queue'[n].obj \in 1 .. Len(objs)
    <3>1. CASE queue' = queue BY <1>0, <3>1 DEF TypeInv
    <3>2. CASE queue' # queue BY <1>0, <2>1, <2>2, <3>2, QueueAppended
    <3> QED BY <3>1, <3>2
  <2>4. TypeInv' BY <1>0, <2>1, <2>3 DEF TypeInv
  <2>5. ~ Running /\ ~ Running' BY <2>1 DEF Running
  <2>6. TreeInv' BY <1>0, <2>1, <2>5 DEF TreeInv, Hangs, Line
  <2> QED BY <2>4, <2>6
<1>2. CASE Command
  <2> DEFINE child == CommandOf(Line)
  <2>1. /\ child \in Object /\ AddChildren(child) /\ pc' \in {"added", "answers"}
        /\ answers' \in Shapes /\ fails' \in BOOLEAN /\ Line \in Seq(STRING)
        /\ UNCHANGED <<job, round, at, res, rooted, view, log>>
    BY <1>0, <1>2, CommandStep
  <2>2. child.kind = "command" /\ child.parent = Root /\ child.line = Line BY DEF CommandOf
  <2> HIDE DEF child
  <2>3. /\ objs' \in Seq(Object) /\ Len(objs) \in Nat /\ Len(objs') = Len(objs) + 1
        /\ objs'[Len(objs) + 1] = child
        /\ watched' \in Seq(Nat) /\ queue' \in Seq(Event)
        /\ \A n \in 1 .. Len(queue') :
             queue'[n].ev \in {"ChildAdded", "ItemUpdated"} => queue'[n].obj \in 1 .. Len(objs')
    BY <1>0, <2>1, AddGrows
  <2>4. \A n \in 1 .. Len(view) : view[n].obj \in 1 .. Len(objs')
    BY <1>0, <2>3 DEF TypeInv
  <2>5. TypeInv' BY <1>0, <2>1, <2>3, <2>4 DEF TypeInv
  <2>6. \A o \in 1 .. Len(objs') : Hangs(o)' BY <2>1, <2>2, TreeGrows
  <2>7. Line' = Line BY <2>1 DEF Line
  <2>8. \E c \in 1 .. Len(objs') : Current(c)'
    <3>1. PICK c : c = Len(objs) + 1 OBVIOUS
    <3>2. c \in 1 .. Len(objs') /\ objs'[c] = child /\ \A p \in 1 .. Len(objs') : ~ (c < p)
      BY <2>3, <3>1
    <3> QED BY <2>2, <2>7, <3>2 DEF Current
  <2>9. answers' # <<"inner">> BY <2>1, InnerNoShape
  <2>10. Running' BY <2>1 DEF Running
  <2> QED BY <2>5, <2>6, <2>8, <2>9, <2>10 DEF TreeInv
<1>3. CASE KeyAdded
  <2> DEFINE key == Passed(job.lines[at], ex)[1]
             set == [line |-> job.lines[at], set |-> TRUE, key |-> key, val |-> <<Len(log) + 1>>]
             event == [ev |-> "KeyAdded", key |-> key, val |-> <<Len(log) + 1>>]
  <2>1. /\ queue' = Append(queue, event) /\ log' = Append(log, set)
        /\ pc = "added" /\ pc' = "answers"
        /\ UNCHANGED <<job, round, at, ex, answers, fails, res, objs, watched, rooted, view>>
    BY <1>3 DEF KeyAdded
  <2>2. at \in 1 .. Len(job.lines) /\ ex = Execute(job.store, job.lines[at])
    BY <1>0, <2>1 DEF ControlInv, Running, Line
  <2>3. job.store \in AllStores /\ job.lines[at] \in Seq(STRING) BY <1>0, <2>2, JobType
  <2>4. key \in SetKeys BY <2>2, <2>3 DEF SetKeys
  <2> HIDE DEF key
  <2>5. <<Len(log) + 1>> \in Seq(Nat) BY <1>0 DEF TypeInv
  <2>6. set \in Given BY <2>3, <2>4, <2>5 DEF Given
  <2>7. event \in Event /\ event.ev = "KeyAdded" BY <2>4, <2>5 DEF Event
  <2> HIDE DEF set, event
  <2>8. /\ queue' \in Seq(Event) /\ log' \in Seq(Given)
        /\ \A n \in 1 .. Len(queue') :
             queue'[n].ev \in {"ChildAdded", "ItemUpdated"} => queue'[n].obj \in 1 .. Len(objs)
    BY <1>0, <2>1, <2>6, <2>7, AppendProperties DEF TypeInv
  <2>9. TypeInv' BY <1>0, <2>1, <2>8 DEF TypeInv
  <2>10. TreeInv' BY <1>0, <2>1 DEF TreeInv, Hangs, Line, Running, Current
  <2> QED BY <2>9, <2>10
<1>4. CASE Answer
  <2>1. /\ pc = "answers" /\ answers # <<>> /\ Line \in Seq(STRING)
        /\ log' = IF Head(answers) = "inner" THEN log
                  ELSE Append(log, [line |-> Line, set |-> FALSE, key |-> "",
                                    val |-> <<Len(log) + 1>>])
        /\ answers' = Tail(answers)
        /\ UNCHANGED <<job, pc, round, at, ex, fails, res, rooted, view>>
    BY <1>4, AnswerStep
  <2>2. PICK c \in 1 .. Len(objs) :
          Current(c) /\ AnswerOf(c) \in Object /\ AddChildren(AnswerOf(c))
    BY <1>4, AnswerStep
  <2> DEFINE child == AnswerOf(c)
  <2>3. /\ Head(answers) \in {"value", "array", "inner"}
        /\ Tail(answers) \in Shapes \cup {<<"inner">>}
        /\ Head(answers) = "inner" <=> answers = <<"inner">>
        /\ Tail(answers) = <<"inner">> => Head(answers) = "array"
    BY <1>0, <2>1, AnswersLeft DEF TypeInv
  <2>4. /\ child.kind = Head(answers) /\ child.line = Line
        /\ child.parent = IF Head(answers) = "inner" THEN Len(objs) ELSE c
    BY DEF AnswerOf
  <2>5. child \in Object /\ AddChildren(child) BY <2>2
  <2> HIDE DEF child
  <2>6. /\ objs' \in Seq(Object) /\ Len(objs) \in Nat /\ Len(objs') = Len(objs) + 1
        /\ objs'[Len(objs) + 1] = child
        /\ \A o \in 1 .. Len(objs) : objs'[o].kind = objs[o].kind /\ objs'[o].line = objs[o].line
        /\ watched' \in Seq(Nat) /\ queue' \in Seq(Event)
        /\ \A n \in 1 .. Len(queue') :
             queue'[n].ev \in {"ChildAdded", "ItemUpdated"} => queue'[n].obj \in 1 .. Len(objs')
    BY <1>0, <2>5, AddGrows
  <2>7. \A n \in 1 .. Len(view) : view[n].obj \in 1 .. Len(objs')
    BY <1>0, <2>6 DEF TypeInv
  <2>8. log' \in Seq(Given)
    <3>1. [line |-> Line, set |-> FALSE, key |-> "", val |-> <<Len(log) + 1>>] \in Given
      <4>1. <<Len(log) + 1>> \in Seq(Nat) BY <1>0 DEF TypeInv
      <4>2. "" \in SetKeys \cup {""} BY Zenon
      <4> QED BY <2>1, <4>1, <4>2 DEF Given
    <3> QED BY <1>0, <2>1, <3>1, AppendProperties DEF TypeInv
  <2>9. TypeInv' BY <1>0, <2>1, <2>3, <2>6, <2>7, <2>8 DEF TypeInv
  <2>10. \A o \in 1 .. Len(objs') : Hangs(o)'
    <3>1. child.kind \in {"value", "array"} =>
            /\ child.parent \in 1 .. Len(objs) /\ objs[child.parent].kind = "command"
            /\ objs[child.parent].line = child.line
      BY <2>2, <2>4 DEF Current
    <3>2. child.kind = "inner" =>
            /\ child.parent \in 1 .. Len(objs) /\ objs[child.parent].kind = "array"
            /\ objs[child.parent].line = child.line
      BY <1>0, <2>3, <2>4, <2>6 DEF TreeInv
    <3> QED BY <2>3, <2>4, <2>5, <3>1, <3>2, TreeGrows
  <2>11. Line' = Line /\ Running' BY <2>1 DEF Line, Running
  <2>12. Current(c)'
    <3>1. c \in 1 .. Len(objs') BY <2>6
    <3>2. objs'[c].kind = "command" /\ objs'[c].line = Line BY <2>2, <2>6 DEF Current
    <3>3. ASSUME NEW p \in 1 .. Len(objs'), c < p PROVE objs'[p].kind # "command"
      <4>1. CASE p \in 1 .. Len(objs) BY <2>2, <2>6, <3>3, <4>1 DEF Current
      <4>2. CASE p = Len(objs) + 1 BY <2>3, <2>4, <2>6, <4>2
      <4> QED BY <2>6, <4>1, <4>2
    <3> QED BY <2>11, <3>1, <3>2, <3>3 DEF Current
  <2>13. answers' = <<"inner">> => objs'[Len(objs')].kind = "array" /\ objs'[Len(objs')].line = Line
    BY <2>1, <2>3, <2>4, <2>6
  <2>14. Len(objs') # 0 /\ c \in 1 .. Len(objs') BY <2>6
  <2> QED BY <2>9, <2>10, <2>11, <2>12, <2>13, <2>14 DEF TreeInv
<1>5. CASE Returned
  <2>1. /\ UNCHANGED <<job, ex, answers, fails, objs, watched, queue, rooted, view, log>>
        /\ answers = <<>> /\ pc' \in {"reply", "next"} /\ res' \in {res, "error"}
    BY <1>5 DEF Returned
  <2>2. TypeInv' BY <1>0, <2>1 DEF TypeInv
  <2>3. ~ Running' /\ answers' # <<"inner">> BY <2>1 DEF Running
  <2> QED BY <1>0, <2>1, <2>2, <2>3 DEF TreeInv, Hangs
<1>6. CASE Interrupted
  <2>1. /\ UNCHANGED <<job, at, ex, answers, fails, objs, watched, queue, rooted, view, log>>
        /\ pc = "next" /\ pc' = "reply" /\ res' = "interrupted"
    BY <1>6 DEF Interrupted
  <2>2. TypeInv' BY <1>0, <2>1 DEF TypeInv
  <2> QED BY <1>0, <2>1, <2>2 DEF TreeInv, Hangs, Running, Line
<1>7. CASE Reply
  <2>1. /\ UNCHANGED <<job, at, ex, answers, fails, res, objs, watched, rooted, view, log>>
        /\ pc \in {"reply", "next"} /\ pc' = "done"
        /\ queue' \in {queue, Append(queue, [ev |-> "RootCompleated"])}
    BY <1>7 DEF Reply
  <2>2. [ev |-> "RootCompleated"] \in Event BY DEF Event
  <2>3. /\ queue' \in Seq(Event)
        /\ \A n \in 1 .. Len(queue') :
             queue'[n].ev \in {"ChildAdded", "ItemUpdated"} => queue'[n].obj \in 1 .. Len(objs)
    <3>1. CASE queue' = queue BY <1>0, <3>1 DEF TypeInv
    <3>2. CASE queue' # queue BY <1>0, <2>1, <2>2, <3>2, QueueAppended
    <3> QED BY <3>1, <3>2
  <2>4. TypeInv' BY <1>0, <2>1, <2>3 DEF TypeInv
  <2> QED BY <1>0, <2>1, <2>4 DEF TreeInv, Hangs, Running, Line
<1>8. CASE Deliver
  <2>1. /\ Len(queue) \in Nat \ {0} /\ queue' \in Seq(Event) /\ Len(queue') = Len(queue) - 1
        /\ \A n \in 1 .. Len(queue') : queue'[n] = queue[n + 1]
        /\ rooted' = (rooted \/ queue[1].ev = "RootCreated")
        /\ UNCHANGED driver
    BY <1>0, <1>8, DeliverStep
  <2>2. \A n \in 1 .. Len(queue') :
          queue'[n].ev \in {"ChildAdded", "ItemUpdated"} => queue'[n].obj \in 1 .. Len(objs)
    BY <1>0, <2>1 DEF TypeInv
  <2>3. view' \in Seq(Shown) /\ \A n \in 1 .. Len(view') : view'[n].obj \in 1 .. Len(objs)
    <3>1. ASSUME NEW v, Revalued(v)
          PROVE  view' \in Seq(Shown) /\ \A n \in 1 .. Len(view') : view'[n].obj \in 1 .. Len(objs)
      BY <1>0, <3>1 DEF Revalued, TypeInv
    <3>2. CASE view' = <<>> BY <3>2
    <3>3. CASE view' = view BY <1>0, <3>3 DEF TypeInv
    <3>4. ASSUME NEW o \in 1 .. Len(objs), AddChild(o)
          PROVE  view' \in Seq(Shown) /\ \A n \in 1 .. Len(view') : view'[n].obj \in 1 .. Len(objs)
      <4>1. Hangs(o) BY <1>0 DEF TreeInv
      <4>2. \/ view' = view
            \/ /\ Under(o) \in Nat /\ view' \in Seq(Shown) /\ Len(view') = Len(view) + 1
               /\ view'[Len(view) + 1] = Item(o, Under(o))
               /\ \A n \in 1 .. Len(view) : view'[n] = view[n]
        BY <1>0, <3>4, <4>1, AddChildCases
      <4>3. CASE view' = view BY <1>0, <4>3 DEF TypeInv
      <4>4. CASE view' # view
        <5>1. Item(o, Under(o)).obj = o BY <1>0, <4>2, <4>4, ItemType
        <5>2. \A n \in 1 .. Len(view) : view[n].obj \in 1 .. Len(objs) BY <1>0 DEF TypeInv
        <5>3. Len(view) \in Nat BY <1>0 DEF TypeInv
        <5> QED BY <4>2, <4>4, <5>1, <5>2, <5>3
      <4> QED BY <4>3, <4>4
    <3>5. CASE UpdateItem(queue[1].obj, queue[1].val) /\ queue[1].val \in Seq(Nat)
      BY <1>0, <3>1, <3>5, UpdateItemCases
    <3>6. CASE ChangeValue(queue[1].key, queue[1].val) /\ queue[1].val \in Seq(Nat)
      BY <1>0, <3>1, <3>6, ChangeValueCases
    <3> QED BY <1>0, <1>8, <3>2, <3>3, <3>4, <3>5, <3>6, DeliverCases
  <2>4. rooted' \in BOOLEAN BY <2>1, Zenon
  <2>5. TypeInv' BY <1>0, <2>1, <2>2, <2>3, <2>4 DEF TypeInv, driver
  <2> QED BY <1>0, <2>1, <2>5 DEF TreeInv, Hangs, Running, Line, Current, driver
<1>9. CASE Idle \/ UNCHANGED vars
  <2>1. UNCHANGED vars BY <1>9 DEF Idle
  <2>2. TypeInv' BY <1>0, <2>1 DEF TypeInv, vars
  <2> QED BY <1>0, <2>1, <2>2 DEF TreeInv, Hangs, Running, Line, Current, vars
<1> QED
  BY <1>1, <1>2, <1>3, <1>4, <1>5, <1>6, <1>7, <1>8, <1>9 DEF Next

\* BaseInv always holds.
LEMMA BaseAlways == Spec => []BaseInv
<1>1. QED BY InitBase, NextBase, PTL DEF Spec

-----------------------------------------------------------------------------
(* How often each line runs. *)

\* The commands made for a text, and the lines with this text among the first k.
Ran(t) == {o \in 1 .. Len(objs) : objs[o].kind = "command" /\ objs[o].line = t}
Among(k, t) == {m \in 1 .. k : job.lines[m] = t}

\* The lines of this round whose command has been made.
Begun == IF Running THEN at ELSE at - 1

\* So far each text has run once for each of its lines in each round.
Counted ==
  \A t \in Seq(STRING) :
    Cardinality(Ran(t)) = round * Cardinality(Among(Len(job.lines), t)) + Cardinality(Among(Begun, t))

\* The loops and the commands they have made.
RunsInv ==
  /\ pc = "start" => Len(objs) = 0
  /\ pc = "reply" => res # "none"
  /\ pc = "next" => round < Rounds \/ (round = Rounds /\ at = 1)
  /\ Running => round < Rounds
  /\ pc \in {"next", "added", "answers"} => Counted
  /\ pc = "done" /\ res = "none" => round = Rounds /\ at = 1 /\ Counted

\* The bound of the outer loop does not wrap.
LEMMA RoundsExact ==
  ASSUME job \in Jobs
  PROVE  Rounds = job.repeat + 1 /\ Rounds \in Nat \ {0}
<1>1. job.repeat \in Nat /\ job.repeat <= Sizes - 2 /\ Sizes \in Nat
  BY JobType, JobsAssumption DEF WatchRepeat
<1>2. \A a, b \in Nat : a < b => a % b = a OBVIOUS
<1>3. job.repeat + 1 \in Nat /\ job.repeat + 1 < Sizes BY <1>1
<1> QED BY <1>1, <1>2, <1>3 DEF Rounds

\* The sets that are counted are finite.
LEMMA CountedSets ==
  ASSUME BaseInv, NEW t, NEW k \in Int
  PROVE  /\ IsFiniteSet(Ran(t)) /\ Cardinality(Ran(t)) \in Nat
         /\ IsFiniteSet(Among(k, t)) /\ Cardinality(Among(k, t)) \in Nat
<1>1. Len(objs) \in Nat BY DEF BaseInv, TypeInv
<1>2. IsFiniteSet(1 .. Len(objs)) /\ IsFiniteSet(1 .. k) BY <1>1, FS_Interval
<1>3. Ran(t) \subseteq 1 .. Len(objs) /\ Among(k, t) \subseteq 1 .. k BY DEF Ran, Among
<1> QED BY <1>2, <1>3, FS_Subset, FS_CardinalityType

\* One line more is counted if it has the text.
LEMMA OneMore ==
  ASSUME BaseInv, NEW t, NEW k \in Nat \ {0}
  PROVE  Cardinality(Among(k, t)) =
           Cardinality(Among(k - 1, t)) + (IF job.lines[k] = t THEN 1 ELSE 0)
<1>1. IsFiniteSet(Among(k - 1, t)) /\ Cardinality(Among(k - 1, t)) \in Nat BY CountedSets
<1>2. CASE job.lines[k] = t
  <2>1. Among(k, t) = Among(k - 1, t) \cup {k} /\ k \notin Among(k - 1, t) BY <1>2 DEF Among
  <2> QED BY <1>1, <1>2, <2>1, FS_AddElement
<1>3. CASE job.lines[k] # t
  <2>1. Among(k, t) = Among(k - 1, t) BY <1>3 DEF Among
  <2> QED BY <1>1, <1>3, <2>1
<1> QED BY <1>2, <1>3

\* A new command is counted for its text; other objects are not.
LEMMA RanGrows ==
  ASSUME BaseInv, NEW child \in Object, AddChildren(child), NEW t
  PROVE  Cardinality(Ran(t)') = Cardinality(Ran(t)) +
           (IF child.kind = "command" /\ child.line = t THEN 1 ELSE 0)
<1>0. job \in Jobs /\ TypeInv BY DEF BaseInv, ControlInv
<1>1. /\ Len(objs) \in Nat /\ Len(objs') = Len(objs) + 1 /\ objs'[Len(objs) + 1] = child
      /\ \A o \in 1 .. Len(objs) : objs'[o].kind = objs[o].kind /\ objs'[o].line = objs[o].line
  BY <1>0, AddGrows
<1>2. IsFiniteSet(Ran(t)) /\ Cardinality(Ran(t)) \in Nat BY CountedSets
<1>3. PICK o : o = Len(objs) + 1 OBVIOUS
<1>4. o \notin Ran(t) BY <1>1, <1>3 DEF Ran
<1>5. CASE child.kind = "command" /\ child.line = t
  <2>1. Ran(t)' = Ran(t) \cup {o} BY <1>1, <1>3, <1>5 DEF Ran
  <2> QED BY <1>2, <1>4, <1>5, <2>1, FS_AddElement
<1>6. CASE ~ (child.kind = "command" /\ child.line = t)
  <2>1. Ran(t)' = Ran(t) BY <1>1, <1>3, <1>6 DEF Ran
  <2> QED BY <1>2, <1>6, <2>1
<1> QED BY <1>5, <1>6

\* Nothing has run at the beginning.
LEMMA InitRuns == Init => RunsInv
BY DEF Init, RunsInv, Running

\* Every step counts right.
LEMMA NextRuns == BaseInv /\ BaseInv' /\ RunsInv /\ [Next]_vars => RunsInv'
<1> SUFFICES ASSUME BaseInv, BaseInv', RunsInv, [Next]_vars PROVE RunsInv'
  OBVIOUS
<1>0. job \in Jobs /\ ControlInv /\ TypeInv /\ round \in Nat /\ at \in Nat \ {0}
  BY DEF BaseInv, ControlInv
<1>00. Rounds \in Nat \ {0} /\ Len(job.lines) \in Nat BY <1>0, RoundsExact, JobType
<1>1. CASE Start
  <2>1. pc = "start" /\ at = 1 /\ round = 0 /\ Len(objs) = 0
    BY <1>0, <1>1 DEF Start, ControlInv, RunsInv
  <2>2. UNCHANGED <<job, round, at, objs>> BY <1>1 DEF Start
  <2>3. (pc' = "done" /\ res' = "error") \/ pc' = "next" BY <1>1 DEF Start
  <2>4. CASE pc' = "done" /\ res' = "error" BY <2>4 DEF RunsInv, Running
  <2>5. CASE pc' = "next"
    <3>1. Begun' = 0 BY <2>1, <2>2, <2>5 DEF Begun, Running
    <3>2. ASSUME NEW t \in Seq(STRING) PROVE Ran(t)' = {} /\ Among(0, t)' = {}
      BY <2>1, <2>2 DEF Ran, Among
    <3>3. ASSUME NEW t \in Seq(STRING)
          PROVE  Cardinality(Ran(t)') = round' * Cardinality(Among(Len(job.lines), t)')
                                          + Cardinality(Among(Begun, t)')
      <4>1. Cardinality(Among(Len(job.lines), t)) \in Nat BY <1>00, CountedSets
      <4>2. Among(Len(job.lines), t)' = Among(Len(job.lines), t) BY <2>2 DEF Among
      <4>3. Among(Begun, t)' = {} BY <3>1, <3>2 DEF Among
      <4>4. Cardinality({}) = 0 BY FS_EmptySet
      <4>5. \A a \in Nat : 0 * a = 0 OBVIOUS
      <4>6. round' * Cardinality(Among(Len(job.lines), t)') = 0
        BY <2>1, <2>2, <4>1, <4>2, <4>5
      <4>7. Ran(t)' = {} BY <3>2
      <4> QED BY <4>3, <4>4, <4>6, <4>7
    <3>4. Counted' BY <3>3 DEF Counted
    <3>5. round' < Rounds' BY <1>00, <2>1, <2>2 DEF Rounds
    <3> QED BY <2>5, <3>4, <3>5 DEF RunsInv, Running
  <2> QED BY <2>3, <2>4, <2>5
<1>2. CASE Command
  <2> DEFINE child == CommandOf(Line)
  <2>1. /\ pc = "next" /\ round < Rounds /\ child \in Object /\ AddChildren(child)
        /\ pc' \in {"added", "answers"} /\ Line \in Seq(STRING)
        /\ UNCHANGED <<job, round, at, res, rooted, view, log>>
    BY <1>0, <1>2, CommandStep
  <2>2. child.kind = "command" /\ child.line = Line BY DEF CommandOf
  <2> HIDE DEF child
  <2>3. Begun = at - 1 /\ Begun' = at BY <2>1 DEF Begun, Running
  <2>4. Counted BY <2>1 DEF RunsInv
  <2>5. ASSUME NEW t \in Seq(STRING)
        PROVE  Cardinality(Ran(t)') = round * Cardinality(Among(Len(job.lines), t))
                                        + Cardinality(Among(at, t))
    <3>1. Cardinality(Ran(t)') = Cardinality(Ran(t)) + (IF Line = t THEN 1 ELSE 0)
      BY <2>1, <2>2, RanGrows
    <3>2. Cardinality(Among(at, t)) = Cardinality(Among(at - 1, t)) + (IF Line = t THEN 1 ELSE 0)
      BY <1>0, OneMore DEF Line
    <3>3. Cardinality(Ran(t)) = round * Cardinality(Among(Len(job.lines), t))
                                  + Cardinality(Among(at - 1, t))
      BY <2>3, <2>4 DEF Counted
    <3>4. /\ Cardinality(Ran(t)) \in Nat /\ Cardinality(Among(Len(job.lines), t)) \in Nat
          /\ Cardinality(Among(at - 1, t)) \in Nat
      BY <1>0, <1>00, CountedSets
    <3> QED BY <1>0, <3>1, <3>2, <3>3, <3>4
  <2>6. ASSUME NEW t, NEW k PROVE Among(k, t)' = Among(k, t) BY <2>1 DEF Among
  <2>7. Counted' BY <2>1, <2>3, <2>5, <2>6 DEF Counted, Among
  <2> QED BY <2>1, <2>7 DEF RunsInv, Running, Rounds
<1>3. CASE KeyAdded
  <2>1. /\ UNCHANGED <<job, round, at, res, objs>> /\ pc = "added" /\ pc' = "answers"
    BY <1>3 DEF KeyAdded
  <2>2. Counted <=> Counted' BY <2>1 DEF Counted, Ran, Among, Begun, Running
  <2> QED BY <2>1, <2>2 DEF RunsInv, Running, Rounds
<1>4. CASE Answer
  <2>1. PICK c \in 1 .. Len(objs) : AnswerOf(c) \in Object /\ AddChildren(AnswerOf(c))
    BY <1>4, AnswerStep
  <2>2. /\ UNCHANGED <<job, pc, round, at, res>> /\ pc = "answers" /\ answers # <<>>
    BY <1>4, AnswerStep
  <2>3. AnswerOf(c).kind # "command"
    <3>1. Head(answers) \in {"value", "array", "inner"} BY <1>0, <2>2, AnswersLeft DEF TypeInv
    <3>2. AnswerOf(c).kind = Head(answers) BY DEF AnswerOf
    <3> QED BY <3>1, <3>2
  <2>4. ASSUME NEW t PROVE Cardinality(Ran(t)') = Cardinality(Ran(t))
    <3>1. Cardinality(Ran(t)) \in Nat BY CountedSets
    <3> QED BY <2>1, <2>3, <3>1, RanGrows
  <2>5. Counted => Counted' BY <2>2, <2>4 DEF Counted, Among, Begun, Running
  <2> QED BY <2>2, <2>5 DEF RunsInv, Running, Rounds
<1>5. CASE Returned
  <2>1. /\ UNCHANGED <<job, objs>> /\ pc = "answers"
        /\ \/ pc' = "reply" /\ res' = "error"
           \/ /\ pc' = "next"
              /\ \/ at < Len(job.lines) /\ at' = at + 1 /\ round' = round
                 \/ ~ (at < Len(job.lines)) /\ at' = 1 /\ round' = round + 1
    BY <1>5 DEF Returned
  <2>2. Counted /\ Begun = at /\ round < Rounds /\ at \in 1 .. Len(job.lines)
    BY <1>0, <2>1 DEF RunsInv, Running, Begun, ControlInv
  <2>3. ASSUME NEW t, NEW k PROVE Ran(t)' = Ran(t) /\ Among(k, t)' = Among(k, t)
    BY <2>1 DEF Ran, Among
  <2>4. CASE pc' = "reply" /\ res' = "error" BY <2>4 DEF RunsInv, Running
  <2>5. CASE pc' = "next" /\ at < Len(job.lines) /\ at' = at + 1 /\ round' = round
    <3>1. Begun' = at BY <1>0, <2>5 DEF Begun, Running
    <3>2. Counted' BY <2>1, <2>2, <2>3, <2>5, <3>1 DEF Counted, Among
    <3> QED BY <2>1, <2>2, <2>5, <3>2 DEF RunsInv, Running, Rounds
  <2>6. CASE pc' = "next" /\ ~ (at < Len(job.lines)) /\ at' = 1 /\ round' = round + 1
    <3>1. Begun' = 0 /\ at = Len(job.lines) BY <1>00, <2>2, <2>6 DEF Begun, Running
    <3>2. ASSUME NEW t \in Seq(STRING)
          PROVE  Cardinality(Ran(t)) = (round + 1) * Cardinality(Among(Len(job.lines), t))
                                         + Cardinality(Among(0, t))
      <4>1. Cardinality(Ran(t)) = round * Cardinality(Among(Len(job.lines), t))
                                    + Cardinality(Among(Len(job.lines), t))
        BY <2>2, <3>1 DEF Counted
      <4>2. Cardinality(Among(Len(job.lines), t)) \in Nat BY <1>00, CountedSets
      <4>3. Among(0, t) = {} BY DEF Among
      <4>4. Cardinality({}) = 0 BY FS_EmptySet
      <4>5. \A a, b \in Nat : (a + 1) * b = a * b + b OBVIOUS
      <4>6. (round + 1) * Cardinality(Among(Len(job.lines), t))
              = round * Cardinality(Among(Len(job.lines), t))
                  + Cardinality(Among(Len(job.lines), t))
        BY <1>0, <4>2, <4>5
      <4>7. PICK p : p = (round + 1) * Cardinality(Among(Len(job.lines), t)) OBVIOUS
      <4>8. \A a, b \in Nat : (a + 1) * b \in Nat OBVIOUS
      <4>9. p \in Nat BY <1>0, <4>2, <4>7, <4>8
      <4>10. Cardinality(Ran(t)) = p /\ Cardinality(Among(0, t)) = 0
        BY <4>1, <4>3, <4>4, <4>6, <4>7
      <4> QED BY <4>7, <4>9, <4>10
    <3>3. Counted' BY <2>1, <2>3, <2>6, <3>1, <3>2 DEF Counted, Among
    <3>4. round' <= Rounds' BY <1>0, <1>00, <2>1, <2>2, <2>6 DEF Rounds
    <3>5. round' < Rounds' \/ round' = Rounds'
      <4>1. Rounds' = Rounds BY <2>1 DEF Rounds
      <4> QED BY <1>0, <1>00, <2>6, <3>4, <4>1
    <3> QED BY <2>6, <3>3, <3>5 DEF RunsInv, Running
  <2> QED BY <2>1, <2>4, <2>5, <2>6
<1>6. CASE Interrupted
  BY <1>6 DEF Interrupted, RunsInv, Running
<1>7. CASE Reply
  <2>1. /\ UNCHANGED <<job, round, at, res, objs>> /\ pc' = "done"
        /\ pc = "reply" \/ (pc = "next" /\ round >= Rounds)
    BY <1>7 DEF Reply
  <2>2. CASE pc = "reply" BY <2>1, <2>2 DEF RunsInv, Running
  <2>3. CASE pc = "next" /\ round >= Rounds
    <3>1. Counted <=> Counted' BY <2>1, <2>3 DEF Counted, Ran, Among, Begun, Running
    <3>2. round = Rounds /\ at = 1 BY <1>0, <1>00, <2>3 DEF RunsInv
    <3> QED BY <2>1, <2>3, <3>1, <3>2 DEF RunsInv, Running, Rounds
  <2> QED BY <2>1, <2>2, <2>3
<1>8. CASE Deliver
  <2>1. UNCHANGED <<job, pc, round, at, res, objs>> BY <1>8 DEF Deliver, driver
  <2> QED BY <2>1 DEF RunsInv, Counted, Ran, Among, Begun, Running, Rounds
<1>9. CASE Idle \/ UNCHANGED vars
  <2>1. UNCHANGED <<job, pc, round, at, res, objs>> BY <1>9 DEF Idle, vars
  <2> QED BY <2>1 DEF RunsInv, Counted, Ran, Among, Begun, Running, Rounds
<1> QED
  BY <1>1, <1>2, <1>3, <1>4, <1>5, <1>6, <1>7, <1>8, <1>9 DEF Next

\* A batch that ended without an error has counted all rounds.
LEMMA RunsEach == BaseInv /\ RunsInv => EachRuns
<1> SUFFICES ASSUME BaseInv, RunsInv, pc = "done", res = "none", NEW n \in DOMAIN job.lines
             PROVE  Cardinality({o \in DOMAIN objs : /\ objs[o].kind = "command"
                                                     /\ objs[o].line = job.lines[n]})
                      = (job.repeat + 1)
                          * Cardinality({m \in DOMAIN job.lines : job.lines[m] = job.lines[n]})
  BY DEF EachRuns
<1> DEFINE t == job.lines[n]
<1>1. job \in Jobs /\ TypeInv BY DEF BaseInv, ControlInv
<1>2. job.lines \in Seq(Seq(STRING)) /\ Len(job.lines) \in Nat BY <1>1, JobType
<1>3. t \in Seq(STRING) BY <1>2
<1>4. DOMAIN job.lines = 1 .. Len(job.lines) /\ DOMAIN objs = 1 .. Len(objs)
  BY <1>1, <1>2 DEF TypeInv
<1>5. {o \in DOMAIN objs : objs[o].kind = "command" /\ objs[o].line = t} = Ran(t)
  BY <1>4 DEF Ran
<1>6. {m \in DOMAIN job.lines : job.lines[m] = t} = Among(Len(job.lines), t)
  BY <1>4 DEF Among
<1>7. Counted /\ round = Rounds /\ Begun = 0 BY DEF RunsInv, Begun, Running
<1>8. Among(0, t) = {} BY DEF Among
<1>9. Cardinality(Among(Len(job.lines), t)) \in Nat BY <1>2, CountedSets
<1>10. Cardinality(Ran(t)) = Rounds * Cardinality(Among(Len(job.lines), t)) + 0
  BY <1>3, <1>7, <1>8, FS_EmptySet DEF Counted
<1>11. Rounds = job.repeat + 1 /\ Rounds \in Nat BY <1>1, RoundsExact
<1>12. \A a, b \in Nat : a * b + 0 = a * b OBVIOUS
<1>13. Cardinality(Ran(t)) = (job.repeat + 1) * Cardinality(Among(Len(job.lines), t))
  BY <1>9, <1>10, <1>11, <1>12
<1> QED BY <1>5, <1>6, <1>13

-----------------------------------------------------------------------------
(* The queue, the log and the root. *)

\* An event after the others.
LEMMA QueueGrows ==
  ASSUME TypeInv, NEW e \in Event, queue' = Append(queue, e)
  PROVE  /\ Len(queue) \in Nat /\ Len(queue') = Len(queue) + 1 /\ queue'[Len(queue) + 1] = e
         /\ \A n \in 1 .. Len(queue) : queue'[n] = queue[n]
<1>1. queue \in Seq(Event) BY DEF TypeInv
<1> QED BY <1>1, AppendProperties

\* An entry after the others.
LEMMA LogGrows ==
  ASSUME TypeInv, NEW g \in Given, log' = Append(log, g)
  PROVE  /\ Len(log) \in Nat /\ Len(log') = Len(log) + 1 /\ log'[Len(log) + 1] = g
         /\ \A k \in 1 .. Len(log) : log'[k] = log[k]
<1>1. log \in Seq(Given) BY DEF TypeInv
<1> QED BY <1>1, AppendProperties

\* What AddChildren posts.
LEMMA AddPosts ==
  ASSUME TypeInv, job \in Jobs, NEW child \in Object, AddChildren(child)
  PROVE  \/ queue' = queue
         \/ \E e \in Event : e.ev \in {"ChildAdded", "ItemUpdated"} /\ queue' = Append(queue, e)
<1>1. Len(objs) \in Nat BY DEF TypeInv
<1>2. child.val \in Seq(Nat) BY DEF Object
<1>3. \/ Quietly(child) \/ Posting(child) \/ Watching(child)
      \/ \E first \in 1 .. Len(objs) : Updating(child, first)
  BY AddCases
<1>4. CASE Quietly(child) BY <1>4 DEF Quietly
<1>5. CASE Posting(child) \/ Watching(child)
  <2>1. Added(Len(objs) + 1) \in Event /\ Added(Len(objs) + 1).ev = "ChildAdded"
    BY <1>1 DEF Added, Event
  <2> QED BY <1>5, <2>1 DEF Posting, Watching
<1>6. CASE \E first \in 1 .. Len(objs) : Updating(child, first)
  <2>1. PICK first \in 1 .. Len(objs) : Updating(child, first) BY <1>6
  <2>2. Updated(first, child.val) \in Event /\ Updated(first, child.val).ev = "ItemUpdated"
    BY <1>1, <1>2 DEF Updated, Event
  <2> QED BY <2>1, <2>2 DEF Updating
<1> QED BY <1>3, <1>4, <1>5, <1>6

\* The entries the log gets.
SetOf == [line |-> Line, set |-> TRUE, key |-> Passed(Line, ex)[1], val |-> <<Len(log) + 1>>]
AnswerGiven == [line |-> Line, set |-> FALSE, key |-> "", val |-> <<Len(log) + 1>>]

\* What the step of OnKeyAdded does.
LEMMA KeyAddedStep ==
  ASSUME BaseInv, KeyAdded
  PROVE  /\ pc = "added" /\ pc' = "answers" /\ SetOf \in Given /\ log' = Append(log, SetOf)
         /\ \E e \in Event : /\ e.ev = "KeyAdded" /\ e.key = SetOf.key /\ e.val = SetOf.val
                             /\ queue' = Append(queue, e)
         /\ UNCHANGED <<job, round, at, ex, answers, fails, res, objs, watched, rooted, view>>
<1> DEFINE key == Passed(Line, ex)[1]
           event == [ev |-> "KeyAdded", key |-> key, val |-> <<Len(log) + 1>>]
           set == [line |-> Line, set |-> TRUE, key |-> key, val |-> <<Len(log) + 1>>]
<1>1. /\ queue' = Append(queue, event) /\ log' = Append(log, set) /\ pc = "added"
      /\ pc' = "answers"
      /\ UNCHANGED <<job, round, at, ex, answers, fails, res, objs, watched, rooted, view>>
  BY DEF KeyAdded, Line
<1>2. at \in 1 .. Len(job.lines) /\ ex = Execute(job.store, Line)
  BY <1>1 DEF BaseInv, ControlInv, Running
<1>3. job.store \in AllStores /\ Line \in Seq(STRING)
  BY <1>2, JobType DEF BaseInv, ControlInv, Line
<1>4. key \in SetKeys BY <1>2, <1>3 DEF SetKeys
<1>5. SetOf = set BY DEF SetOf
<1> HIDE DEF key
<1>6. <<Len(log) + 1>> \in Seq(Nat) BY DEF BaseInv, TypeInv
<1>7. set \in Given /\ set.key = key /\ set.val = <<Len(log) + 1>> BY <1>3, <1>4, <1>6 DEF Given
<1>8. /\ event \in Event /\ event.ev = "KeyAdded" /\ event.key = key
      /\ event.val = <<Len(log) + 1>>
  BY <1>4, <1>6 DEF Event
<1> HIDE DEF set, event
<1> QED BY <1>1, <1>5, <1>7, <1>8

\* The entry of an answer.
LEMMA AnswerGivenType ==
  ASSUME TypeInv, Line \in Seq(STRING)
  PROVE  /\ AnswerGiven \in Given /\ AnswerGiven.line = Line /\ AnswerGiven.set = FALSE
         /\ AnswerGiven.val = <<Len(log) + 1>>
<1>1. <<Len(log) + 1>> \in Seq(Nat) BY DEF TypeInv
<1>2. "" \in SetKeys \cup {""} BY Zenon
<1>3. AnswerGiven \in Given BY <1>1, <1>2 DEF Given, AnswerGiven
<1> QED BY <1>3 DEF AnswerGiven

\* A set of the log that stored this value under this key.
Stored(l, key, v) == \E k \in 1 .. Len(l) : l[k].set /\ l[k].key = key /\ l[k].val = v

\* An entry's value is its number; an event that a key was added comes from a set.
LogInv ==
  /\ \A k \in 1 .. Len(log) : log[k].val = <<k>>
  /\ \A n \in 1 .. Len(queue) :
       queue[n].ev = "KeyAdded" => Stored(log, queue[n].key, queue[n].val)

\* The root comes first and once.
RootInv ==
  /\ \A n \in 1 .. Len(queue) : queue[n].ev = "RootCreated" => n = 1 /\ ~ rooted /\ ~ job.silence
  /\ ~ rooted => Len(view) = 0
  /\ job.silence => ~ rooted
  /\ pc = "start" => Len(queue) = 0 /\ ~ rooted
  /\ ~ rooted /\ ~ job.silence /\ pc # "start" =>
       \/ pc = "done" /\ Len(queue) = 0
       \/ Len(queue) # 0 /\ queue[1].ev = "RootCreated"

\* A set that is in the log stays there.
LEMMA StoredStays ==
  ASSUME TypeInv, NEW key, NEW v, Stored(log, key, v),
         \/ log' = log
         \/ \E g \in Given : log' = Append(log, g)
  PROVE  Stored(log', key, v)
<1>1. CASE log' = log BY <1>1 DEF Stored
<1>2. CASE \E g \in Given : log' = Append(log, g)
  <2>1. PICK g \in Given : log' = Append(log, g) BY <1>2
  <2>2. /\ Len(log) \in Nat /\ Len(log') = Len(log) + 1
        /\ \A k \in 1 .. Len(log) : log'[k] = log[k]
    BY <2>1, LogGrows
  <2> QED BY <2>2 DEF Stored
<1> QED BY <1>1, <1>2

\* What a step does to the log: nothing, a set, or an answer.
LEMMA LogSteps ==
  ASSUME BaseInv, [Next]_vars
  PROVE  \/ log' = log
         \/ \E g \in Given : log' = Append(log, g) /\ g.val = <<Len(log) + 1>>
<1>1. CASE KeyAdded
  <2>1. SetOf \in Given /\ log' = Append(log, SetOf) BY <1>1, KeyAddedStep
  <2>2. SetOf.val = <<Len(log) + 1>> BY DEF SetOf
  <2> QED BY <2>1, <2>2
<1>2. CASE Answer
  <2>1. log' = log \/ log' = Append(log, AnswerGiven) BY <1>2, AnswerStep DEF AnswerGiven
  <2>2. AnswerGiven \in Given /\ AnswerGiven.val = <<Len(log) + 1>>
    BY <1>2, AnswerStep, AnswerGivenType DEF BaseInv
  <2> QED BY <2>1, <2>2
<1>3. CASE Start \/ Command \/ Returned \/ Interrupted \/ Reply \/ Deliver \/ Idle \/ UNCHANGED vars
  BY <1>3 DEF Start, Command, Returned, Interrupted, Reply, Deliver, driver, Idle, vars
<1> QED BY <1>1, <1>2, <1>3 DEF Next

\* What a step posts, if it does not deliver.
LEMMA QueueSteps ==
  ASSUME BaseInv, [Next]_vars
  PROVE  \/ queue' = queue /\ ~ Deliver
         \/ /\ \E e \in Event : /\ queue' = Append(queue, e)
                                /\ e.ev = "KeyAdded" => KeyAdded
                                /\ e.ev = "RootCreated" => Start /\ ~ job.silence
         \/ Deliver
<1>0. job \in Jobs /\ TypeInv /\ ControlInv BY DEF BaseInv, ControlInv
<1>1. CASE Start
  <2>1. queue' = queue \/ (~ job.silence /\ queue' = Append(queue, [ev |-> "RootCreated"]))
    BY <1>1 DEF Start
  <2>2. [ev |-> "RootCreated"] \in Event /\ [ev |-> "RootCreated"].ev = "RootCreated" BY DEF Event
  <2> QED BY <1>1, <2>1, <2>2
<1>2. CASE Command \/ Answer
  <2>1. \/ queue' = queue
        \/ \E e \in Event : e.ev \in {"ChildAdded", "ItemUpdated"} /\ queue' = Append(queue, e)
    BY <1>0, <1>2, CommandStep, AnswerStep, AddPosts
  <2> QED BY <2>1
<1>3. CASE KeyAdded
  <2>1. \E e \in Event : e.ev = "KeyAdded" /\ queue' = Append(queue, e) BY <1>3, KeyAddedStep
  <2> QED BY <1>3, <2>1
<1>4. CASE Returned \/ Interrupted \/ Idle \/ UNCHANGED vars
  BY <1>4 DEF Returned, Interrupted, Idle, vars
<1>5. CASE Reply
  <2>1. queue' = queue \/ queue' = Append(queue, [ev |-> "RootCompleated"]) BY <1>5 DEF Reply
  <2>2. /\ [ev |-> "RootCompleated"] \in Event
        /\ [ev |-> "RootCompleated"].ev = "RootCompleated"
    BY DEF Event
  <2> QED BY <2>1, <2>2
<1> QED BY <1>1, <1>2, <1>3, <1>4, <1>5 DEF Next

\* Nothing is logged at the beginning.
LEMMA InitLog == Init => LogInv /\ RootInv
BY DEF Init, LogInv, RootInv

\* Every step keeps the log and its events in step.
LEMMA NextLog == BaseInv /\ LogInv /\ [Next]_vars => LogInv'
<1> SUFFICES ASSUME BaseInv, LogInv, [Next]_vars PROVE LogInv'
  OBVIOUS
<1>0. TypeInv BY DEF BaseInv
<1>1. \A k \in 1 .. Len(log') : log'[k].val = <<k>>
  <2>1. CASE log' = log BY <2>1 DEF LogInv
  <2>2. CASE log' # log
    <3>1. PICK g \in Given : log' = Append(log, g) /\ g.val = <<Len(log) + 1>>
      BY <2>2, LogSteps
    <3>2. /\ Len(log) \in Nat /\ Len(log') = Len(log) + 1 /\ log'[Len(log) + 1] = g
          /\ \A k \in 1 .. Len(log) : log'[k] = log[k]
      BY <1>0, <3>1, LogGrows
    <3> QED BY <3>1, <3>2 DEF LogInv
  <2> QED BY <2>1, <2>2
<1>2. ASSUME NEW key, NEW v, Stored(log, key, v) PROVE Stored(log', key, v)
  BY <1>0, <1>2, LogSteps, StoredStays
<1>3. ASSUME NEW n \in 1 .. Len(queue'), queue'[n].ev = "KeyAdded"
      PROVE  Stored(log', queue'[n].key, queue'[n].val)
  <2>1. CASE queue' = queue
    BY <1>2, <1>3, <2>1 DEF LogInv
  <2>2. CASE Deliver
    <3>1. queue'[n] = queue[n + 1] /\ n + 1 \in 1 .. Len(queue) BY <1>0, <2>2, DeliverStep
    <3> QED BY <1>2, <1>3, <3>1 DEF LogInv
  <2>3. ASSUME NEW e \in Event, queue' = Append(queue, e), e.ev = "KeyAdded" => KeyAdded
        PROVE  Stored(log', queue'[n].key, queue'[n].val)
    <3>1. /\ Len(queue) \in Nat /\ Len(queue') = Len(queue) + 1 /\ queue'[Len(queue) + 1] = e
          /\ \A m \in 1 .. Len(queue) : queue'[m] = queue[m]
      BY <1>0, <2>3, QueueGrows
    <3>2. CASE n \in 1 .. Len(queue) BY <1>2, <1>3, <3>1, <3>2 DEF LogInv
    <3>3. CASE n = Len(queue) + 1
      <4>1. KeyAdded BY <1>3, <2>3, <3>1, <3>3
      <4>2. SetOf \in Given /\ log' = Append(log, SetOf) BY <4>1, KeyAddedStep
      <4>3. PICK f \in Event : f.key = SetOf.key /\ f.val = SetOf.val /\ queue' = Append(queue, f)
        BY <4>1, KeyAddedStep
      <4>4. queue'[n] = f BY <1>0, <3>3, <4>3, QueueGrows
      <4>5. Len(log') \in Nat /\ Len(log') # 0 /\ log'[Len(log')] = SetOf
        BY <1>0, <4>2, LogGrows
      <4>6. SetOf.set BY DEF SetOf
      <4> HIDE DEF SetOf
      <4> QED BY <4>3, <4>4, <4>5, <4>6 DEF Stored
    <3> QED BY <3>1, <3>2, <3>3
  <2> QED BY <2>1, <2>2, <2>3, QueueSteps
<1> QED BY <1>1, <1>3 DEF LogInv

\* Every step keeps the root first.
LEMMA NextRoot == BaseInv /\ RootInv /\ [Next]_vars => RootInv'
<1> SUFFICES ASSUME BaseInv, RootInv, [Next]_vars PROVE RootInv'
  OBVIOUS
<1>0. TypeInv /\ job \in Jobs /\ Len(queue) \in Nat BY DEF BaseInv, ControlInv, TypeInv
<1>1. CASE Start
  <2>1. /\ pc = "start" /\ Len(queue) = 0 /\ ~ rooted /\ Len(view) = 0
        /\ UNCHANGED <<job, rooted, view>>
    BY <1>1 DEF Start, RootInv
  <2>2. \/ pc' = "done" /\ queue' = queue
        \/ pc' = "next" /\ job.silence /\ queue' = queue
        \/ pc' = "next" /\ ~ job.silence /\ queue' = Append(queue, [ev |-> "RootCreated"])
    BY <1>1 DEF Start
  <2>3. CASE queue' = queue BY <2>1, <2>2, <2>3 DEF RootInv
  <2>4. CASE /\ pc' = "next" /\ ~ job.silence
             /\ queue' = Append(queue, [ev |-> "RootCreated"])
    <3>1. [ev |-> "RootCreated"] \in Event BY DEF Event
    <3>2. Len(queue') = 1 /\ queue'[1] = [ev |-> "RootCreated"]
      BY <1>0, <2>1, <2>4, <3>1, QueueGrows
    <3> QED BY <2>1, <2>4, <3>2 DEF RootInv
  <2> QED BY <2>2, <2>3, <2>4
<1>2. CASE Deliver
  <2>1. /\ Len(queue) \in Nat \ {0} /\ Len(queue') = Len(queue) - 1
        /\ \A n \in 1 .. Len(queue') : queue'[n] = queue[n + 1]
        /\ rooted' = (rooted \/ queue[1].ev = "RootCreated")
        /\ job' = job /\ pc' = pc
    BY <1>0, <1>2, DeliverStep DEF driver
  <2>2. \A n \in 1 .. Len(queue') : queue'[n].ev # "RootCreated"
    BY <2>1 DEF RootInv
  <2>3. CASE rooted
    <3>1. rooted' BY <2>1, <2>3
    <3> QED BY <2>1, <2>2, <2>3, <3>1 DEF RootInv
  <2>4. CASE ~ rooted /\ queue[1].ev = "RootCreated"
    <3>1. rooted' BY <2>1, <2>4
    <3>2. ~ job.silence /\ pc # "start" BY <2>1, <2>4 DEF RootInv
    <3> QED BY <2>1, <2>2, <3>1, <3>2 DEF RootInv
  <2>5. CASE ~ rooted /\ queue[1].ev # "RootCreated"
    <3>1. ~ rooted' BY <2>1, <2>5
    <3>2. job.silence /\ pc # "start" BY <2>1, <2>5 DEF RootInv
    <3>3. Len(view) = 0 /\ view \in Seq(Shown) BY <1>0, <2>5 DEF RootInv, TypeInv
    <3>4. Len(view') = 0
      <4>1. ASSUME NEW o \in 1 .. Len(objs), AddChild(o) PROVE view' = view
        <5>1. Hangs(o) BY DEF BaseInv, TreeInv
        <5> QED BY <1>0, <2>5, <4>1, <5>1, AddChildCases
      <4>2. ASSUME NEW v, Revalued(v) PROVE Len(view') = 0 BY <3>3, <4>2 DEF Revalued
      <4> QED BY <1>0, <1>2, <2>5, <3>3, <4>1, <4>2, DeliverCases, UpdateItemCases, ChangeValueCases
    <3> QED BY <2>1, <2>2, <3>1, <3>2, <3>4 DEF RootInv
  <2> QED BY <2>3, <2>4, <2>5
<1>3. CASE UNCHANGED <<job, pc, queue, rooted, view>>
  BY <1>3 DEF RootInv
<1>4. CASE /\ pc \notin {"start", "done"} /\ pc' # "start" /\ UNCHANGED <<job, rooted, view>>
           /\ ~ Start /\ ~ Deliver
  <2>1. CASE queue' = queue BY <1>4, <2>1 DEF RootInv
  <2>2. ASSUME NEW e \in Event, queue' = Append(queue, e), e.ev # "RootCreated" PROVE RootInv'
    <3>1. /\ Len(queue) \in Nat /\ Len(queue') = Len(queue) + 1 /\ queue'[Len(queue) + 1] = e
          /\ \A m \in 1 .. Len(queue) : queue'[m] = queue[m]
      BY <1>0, <2>2, QueueGrows
    <3>2. \A n \in 1 .. Len(queue') :
            queue'[n].ev = "RootCreated" => n = 1 /\ ~ rooted /\ ~ job.silence
      BY <2>2, <3>1 DEF RootInv
    <3>3. ~ rooted /\ ~ job.silence => Len(queue) # 0 /\ queue[1].ev = "RootCreated"
      BY <1>4 DEF RootInv
    <3>4. ~ rooted /\ ~ job.silence => Len(queue') # 0 /\ queue'[1].ev = "RootCreated"
      BY <3>1, <3>3
    <3> QED BY <1>4, <3>2, <3>4 DEF RootInv
  <2> QED BY <1>4, <2>1, <2>2, QueueSteps
<1>5. CASE Command \/ KeyAdded \/ Answer \/ Returned \/ Interrupted \/ Reply
  <2>1. pc \notin {"start", "done"} /\ pc' # "start"
    BY <1>5 DEF Command, KeyAdded, Answer, Returned, Interrupted, Reply
  <2>2. UNCHANGED <<job, rooted, view>>
    BY <1>5 DEF Command, KeyAdded, Answer, Returned, Interrupted, Reply
  <2>3. ~ Start BY <2>1 DEF Start
  <2> QED BY <1>2, <1>4, <2>1, <2>2, <2>3
<1>6. CASE Idle \/ UNCHANGED vars BY <1>3, <1>6 DEF Idle, vars
<1> QED BY <1>1, <1>2, <1>5, <1>6 DEF Next

-----------------------------------------------------------------------------
(* The answers in the tree and in the log, with history. *)

IsAnswer(o) == objs[o].kind \in {"value", "array"}

\* The object o holds the answer with the number k.
Holds(o, k) == objs[o].val = <<k>> /\ ~ log[k].set /\ log[k].line = objs[o].line

\* The answers in the tree are those of the log, in the same order.
HistoryInv ==
  job.history /\ ~ job.silence =>
    /\ \A o \in 1 .. Len(objs) : IsAnswer(o) => \E k \in 1 .. Len(log) : Holds(o, k)
    /\ \A o, p \in 1 .. Len(objs) :
         IsAnswer(o) /\ IsAnswer(p) /\ o < p => objs[o].val[1] < objs[p].val[1]
    /\ \A k \in 1 .. Len(log) :
         ~ log[k].set => \E o \in 1 .. Len(objs) : IsAnswer(o) /\ Holds(o, k)

\* With history a child is added and posted.
LEMMA HistoryAdds ==
  ASSUME TypeInv, job \in Jobs, job.history, ~ job.silence, NEW child \in Object,
         AddChildren(child)
  PROVE  /\ Posting(child) /\ Len(objs) \in Nat /\ Len(objs') = Len(objs) + 1
         /\ objs'[Len(objs) + 1] = child /\ \A o \in 1 .. Len(objs) : objs'[o] = objs[o]
<1>1. Posting(child) BY AddCases
<1>2. objs' = Append(objs, child) BY <1>1 DEF Posting
<1>3. objs \in Seq(Object) BY DEF TypeInv
<1> QED BY <1>1, <1>2, <1>3, AppendProperties

\* The step of an answer that is logged: it is under its command.
LEMMA AnswerLogged ==
  ASSUME BaseInv, Answer, Head(answers) # "inner"
  PROVE  /\ Len(log) \in Nat /\ Len(log') = Len(log) + 1 /\ log'[Len(log) + 1] = AnswerGiven
         /\ \A k \in 1 .. Len(log) : log'[k] = log[k]
         /\ AnswerGiven.line = Line /\ AnswerGiven.set = FALSE
         /\ AnswerGiven.val = <<Len(log) + 1>>
<1>1. log' = Append(log, AnswerGiven) /\ Line \in Seq(STRING) BY AnswerStep DEF AnswerGiven
<1>2. TypeInv BY DEF BaseInv
<1>3. /\ AnswerGiven \in Given /\ AnswerGiven.line = Line /\ AnswerGiven.set = FALSE
      /\ AnswerGiven.val = <<Len(log) + 1>>
  BY <1>1, <1>2, AnswerGivenType
<1> QED BY <1>1, <1>2, <1>3, LogGrows

\* The object of an answer.
LEMMA AnswerObject ==
  ASSUME BaseInv, Answer, NEW c
  PROVE  /\ AnswerOf(c).kind = Head(answers) /\ AnswerOf(c).line = Line
         /\ AnswerOf(c).val = <<Len(log) + 1>> /\ AnswerOf(c).kind \in {"value", "array", "inner"}
         /\ AnswerOf(c).kind # "inner" => AnswerOf(c).parent = c
<1>1. Head(answers) \in {"value", "array", "inner"}
  BY AnswerStep, AnswersLeft DEF BaseInv, TypeInv
<1> QED BY <1>1 DEF AnswerOf

\* There are no answers at the beginning.
LEMMA InitHistory == Init => HistoryInv
BY DEF Init, HistoryInv

\* Every step keeps the answers in the tree and the log the same.
LEMMA NextHistory == BaseInv /\ HistoryInv /\ [Next]_vars => HistoryInv'
<1> SUFFICES ASSUME BaseInv, HistoryInv, [Next]_vars, job'.history, ~ job'.silence
             PROVE  HistoryInv'
  BY DEF HistoryInv
<1>0. TypeInv /\ ControlInv /\ job \in Jobs BY DEF BaseInv, ControlInv
<1>1. job' = job
  BY DEF Next, Start, Command, KeyAdded, Answer, Returned, Interrupted, Reply, Deliver, driver,
         Idle, vars
<1>2. /\ \A o \in 1 .. Len(objs) : IsAnswer(o) => \E k \in 1 .. Len(log) : Holds(o, k)
      /\ \A o, p \in 1 .. Len(objs) :
           IsAnswer(o) /\ IsAnswer(p) /\ o < p => objs[o].val[1] < objs[p].val[1]
      /\ \A k \in 1 .. Len(log) :
           ~ log[k].set => \E o \in 1 .. Len(objs) : IsAnswer(o) /\ Holds(o, k)
  BY <1>1 DEF HistoryInv
<1>3. CASE objs' = objs /\ log' = log BY <1>2, <1>3 DEF HistoryInv, IsAnswer, Holds
<1>4. CASE Start \/ Returned \/ Interrupted \/ Reply \/ Deliver \/ Idle \/ UNCHANGED vars
  BY <1>3, <1>4 DEF Start, Returned, Interrupted, Reply, Deliver, driver, Idle, vars
<1>5. CASE KeyAdded
  <2>1. objs' = objs /\ SetOf \in Given /\ log' = Append(log, SetOf) BY <1>5, KeyAddedStep
  <2>2. /\ Len(log) \in Nat /\ Len(log') = Len(log) + 1 /\ log'[Len(log) + 1] = SetOf
        /\ \A k \in 1 .. Len(log) : log'[k] = log[k]
    BY <1>0, <2>1, LogGrows
  <2>3. SetOf.set = TRUE BY DEF SetOf
  <2>4. \A o \in 1 .. Len(objs), k \in 1 .. Len(log) : Holds(o, k)' <=> Holds(o, k)
    BY <2>1, <2>2 DEF Holds
  <2>5. \A o \in 1 .. Len(objs) : IsAnswer(o)' <=> IsAnswer(o) BY <2>1 DEF IsAnswer
  <2>6. \A o \in 1 .. Len(objs) : IsAnswer(o)' => \E k \in 1 .. Len(log') : Holds(o, k)'
    BY <1>2, <2>2, <2>4, <2>5
  <2>7. \A k \in 1 .. Len(log') : ~ log'[k].set => k \in 1 .. Len(log) BY <2>2, <2>3
  <2>8. \A k \in 1 .. Len(log') :
          ~ log'[k].set => \E o \in 1 .. Len(objs) : IsAnswer(o)' /\ Holds(o, k)'
    BY <1>2, <2>2, <2>4, <2>5, <2>7
  <2> QED BY <1>2, <2>1, <2>5, <2>6, <2>8 DEF HistoryInv
<1>6. CASE Command
  <2> DEFINE child == CommandOf(Line)
  <2>1. child \in Object /\ AddChildren(child) /\ log' = log BY <1>0, <1>6, CommandStep
  <2>2. child.kind = "command" BY DEF CommandOf
  <2> HIDE DEF child
  <2>3. /\ Len(objs) \in Nat /\ Len(objs') = Len(objs) + 1 /\ objs'[Len(objs) + 1] = child
        /\ \A o \in 1 .. Len(objs) : objs'[o] = objs[o]
    BY <1>0, <1>1, <2>1, HistoryAdds
  <2>4. \A o \in 1 .. Len(objs') : IsAnswer(o)' => o \in 1 .. Len(objs) /\ IsAnswer(o)
    BY <2>2, <2>3 DEF IsAnswer
  <2>5. \A o \in 1 .. Len(objs) : IsAnswer(o)' <=> IsAnswer(o) BY <2>3 DEF IsAnswer
  <2>6. \A o \in 1 .. Len(objs) : \A k \in 1 .. Len(log) : Holds(o, k)' <=> Holds(o, k)
    BY <2>1, <2>3 DEF Holds
  <2>7. \A o \in 1 .. Len(objs') : IsAnswer(o)' => \E k \in 1 .. Len(log') : Holds(o, k)'
    BY <1>2, <2>1, <2>4, <2>6
  <2>8. \A o, p \in 1 .. Len(objs') :
          IsAnswer(o)' /\ IsAnswer(p)' /\ o < p => objs'[o].val[1] < objs'[p].val[1]
    BY <1>2, <2>3, <2>4
  <2>9. \A k \in 1 .. Len(log') :
          ~ log'[k].set => \E o \in 1 .. Len(objs') : IsAnswer(o)' /\ Holds(o, k)'
    BY <1>2, <2>1, <2>3, <2>5, <2>6
  <2> QED BY <2>7, <2>8, <2>9 DEF HistoryInv
<1>7. CASE Answer
  <2>1. PICK c \in 1 .. Len(objs) : AnswerOf(c) \in Object /\ AddChildren(AnswerOf(c))
    BY <1>7, AnswerStep
  <2> DEFINE child == AnswerOf(c)
  <2>2. /\ child.kind = Head(answers) /\ child.line = Line /\ child.val = <<Len(log) + 1>>
        /\ child.kind \in {"value", "array", "inner"}
    BY <1>7, AnswerObject
  <2>3. child \in Object /\ AddChildren(child) BY <2>1
  <2> HIDE DEF child
  <2>4. /\ Len(objs) \in Nat /\ Len(objs') = Len(objs) + 1 /\ objs'[Len(objs) + 1] = child
        /\ \A o \in 1 .. Len(objs) : objs'[o] = objs[o]
    BY <1>0, <1>1, <2>3, HistoryAdds
  <2>5. \A o \in 1 .. Len(objs) : IsAnswer(o)' <=> IsAnswer(o) BY <2>4 DEF IsAnswer
  <2>6. CASE child.kind = "inner"
    <3>1. log' = log BY <1>7, <2>2, <2>6, AnswerStep
    <3>2. \A o \in 1 .. Len(objs') : IsAnswer(o)' => o \in 1 .. Len(objs) /\ IsAnswer(o)
      BY <2>4, <2>6 DEF IsAnswer
    <3>3. \A o \in 1 .. Len(objs) : \A k \in 1 .. Len(log) : Holds(o, k)' <=> Holds(o, k)
      BY <3>1, <2>4 DEF Holds
    <3>4. \A o \in 1 .. Len(objs') : IsAnswer(o)' => \E k \in 1 .. Len(log') : Holds(o, k)'
      BY <1>2, <3>1, <3>2, <3>3
    <3>5. \A o, p \in 1 .. Len(objs') :
            IsAnswer(o)' /\ IsAnswer(p)' /\ o < p => objs'[o].val[1] < objs'[p].val[1]
      BY <1>2, <2>4, <3>2
    <3>6. \A k \in 1 .. Len(log') :
            ~ log'[k].set => \E o \in 1 .. Len(objs') : IsAnswer(o)' /\ Holds(o, k)'
      BY <1>2, <2>4, <2>5, <3>1, <3>3
    <3> QED BY <3>4, <3>5, <3>6 DEF HistoryInv
  <2>7. CASE child.kind # "inner"
    <3>1. /\ Len(log) \in Nat /\ Len(log') = Len(log) + 1 /\ log'[Len(log) + 1] = AnswerGiven
          /\ \A k \in 1 .. Len(log) : log'[k] = log[k]
          /\ AnswerGiven.line = Line /\ AnswerGiven.set = FALSE
      BY <1>7, <2>2, <2>7, AnswerLogged
    <3>2. PICK new, num : new = Len(objs) + 1 /\ num = Len(log) + 1 OBVIOUS
    <3>3. \A o \in 1 .. Len(objs) : \A k \in 1 .. Len(log) : Holds(o, k)' <=> Holds(o, k)
      BY <3>1, <2>4 DEF Holds
    <3>4. Holds(new, num)' /\ IsAnswer(new)'
      BY <2>2, <2>4, <2>7, <3>1, <3>2 DEF Holds, IsAnswer
    <3>5. new \in 1 .. Len(objs') /\ num \in 1 .. Len(log') BY <2>4, <3>1, <3>2
    <3>6. \A o \in 1 .. Len(objs') : o \in 1 .. Len(objs) \/ o = new BY <2>4, <3>2
    <3>7. \A k \in 1 .. Len(log') : k \in 1 .. Len(log) \/ k = num BY <3>1, <3>2
    <3>8. \A o \in 1 .. Len(objs') : IsAnswer(o)' => \E k \in 1 .. Len(log') : Holds(o, k)'
      BY <1>2, <2>5, <3>1, <3>3, <3>4, <3>5, <3>6
    <3>9. ASSUME NEW o \in 1 .. Len(objs'), NEW p \in 1 .. Len(objs'), IsAnswer(o)', IsAnswer(p)',
                 o < p
          PROVE  objs'[o].val[1] < objs'[p].val[1]
      <4>1. o \in 1 .. Len(objs) BY <2>4, <3>9
      <4>2. CASE p \in 1 .. Len(objs) BY <1>2, <2>4, <2>5, <3>9, <4>1, <4>2
      <4>3. CASE p = new
        <5>1. objs'[p].val = <<num>> BY <2>2, <2>4, <3>2, <4>3
        <5>2. PICK k \in 1 .. Len(log) : Holds(o, k) BY <1>2, <2>5, <3>9, <4>1
        <5>3. objs'[o].val = <<k>> BY <2>4, <4>1, <5>2 DEF Holds
        <5> QED BY <3>1, <3>2, <5>1, <5>2, <5>3
      <4> QED BY <3>6, <4>2, <4>3
    <3>10. \A k \in 1 .. Len(log') :
             ~ log'[k].set => \E o \in 1 .. Len(objs') : IsAnswer(o)' /\ Holds(o, k)'
      BY <1>2, <2>4, <2>5, <3>1, <3>3, <3>4, <3>5, <3>7
    <3> QED BY <3>8, <3>9, <3>10 DEF HistoryInv
  <2> QED BY <2>6, <2>7
<1> QED BY <1>4, <1>5, <1>6, <1>7 DEF Next

-----------------------------------------------------------------------------
(* The watched commands, without history. *)

Watches == ~ job.history /\ ~ job.silence

\* A watched command of the same text, not after c.
Covered(c) ==
  \E m \in 1 .. Len(watched) : objs[watched[m]].line = objs[c].line /\ watched[m] <= c

\* The watched commands are those of the first round, in the order of the lines.
WatchedInv ==
  Watches =>
    /\ pc = "start" => Len(watched) = 0
    /\ pc \in {"next", "added", "answers"} =>
         Len(watched) = IF round = 0 THEN Begun ELSE Len(job.lines)
    /\ \A m \in 1 .. Len(watched) :
         /\ m <= Len(job.lines) /\ watched[m] \in 1 .. Len(objs)
         /\ objs[watched[m]].kind = "command" /\ objs[watched[m]].line = job.lines[m]
    /\ \A m, n \in 1 .. Len(watched) : m < n => watched[m] < watched[n]
    /\ \A c \in 1 .. Len(objs) : objs[c].kind = "command" => Covered(c)

\* Nothing is watched at the beginning.
LEMMA InitWatched == Init => WatchedInv
BY DEF Init, WatchedInv

\* The batch stays the same.
LEMMA JobStays == [Next]_vars => job' = job
BY DEF Next, Start, Command, KeyAdded, Answer, Returned, Interrupted, Reply, Deliver, driver,
       Idle, vars

\* Every step keeps the watched commands.
LEMMA NextWatched == BaseInv /\ WatchedInv /\ [Next]_vars => WatchedInv'
<1> SUFFICES ASSUME BaseInv, WatchedInv, [Next]_vars, Watches' PROVE WatchedInv'
  BY DEF WatchedInv
<1>0. /\ TypeInv /\ ControlInv /\ job \in Jobs /\ round \in Nat /\ at \in Nat \ {0}
      /\ Len(job.lines) \in Nat /\ job' = job
  BY JobStays, JobType DEF BaseInv, ControlInv
<1>1. Watches BY <1>0 DEF Watches
<1> DEFINE count == Len(watched) = IF round = 0 THEN Begun ELSE Len(job.lines)
<1>2. /\ pc = "start" => Len(watched) = 0
      /\ pc \in {"next", "added", "answers"} => count
      /\ \A m \in 1 .. Len(watched) :
           /\ m <= Len(job.lines) /\ watched[m] \in 1 .. Len(objs)
           /\ objs[watched[m]].kind = "command" /\ objs[watched[m]].line = job.lines[m]
      /\ \A m, n \in 1 .. Len(watched) : m < n => watched[m] < watched[n]
      /\ \A c \in 1 .. Len(objs) : objs[c].kind = "command" => Covered(c)
  BY <1>1 DEF WatchedInv
<1>3. watched \in Seq(Nat) /\ Len(watched) \in Nat /\ Len(objs) \in Nat BY <1>0 DEF TypeInv
<1>4. ASSUME objs' = objs, watched' = watched, pc' # "start",
             pc' \in {"next", "added", "answers"} => count'
      PROVE  WatchedInv'
  <2>1. \A c \in 1 .. Len(objs) : Covered(c)' <=> Covered(c) BY <1>4 DEF Covered
  <2> QED BY <1>0, <1>2, <1>4, <2>1 DEF WatchedInv
<1>5. CASE Start
  <2>1. pc = "start" /\ at = 1 /\ round = 0 /\ UNCHANGED <<objs, watched, at, round>>
        /\ pc' \in {"next", "done"}
    BY <1>0, <1>5 DEF Start, ControlInv
  <2>2. pc' = "next" => Begun' = 0 BY <2>1 DEF Begun, Running
  <2>3. pc' = "next" => count' BY <1>2, <2>1, <2>2
  <2> QED BY <1>4, <2>1, <2>3
<1>6. CASE Command
  <2> DEFINE child == CommandOf(Line)
  <2>1. /\ pc = "next" /\ pc' \in {"added", "answers"} /\ at \in 1 .. Len(job.lines)
        /\ child \in Object /\ AddChildren(child) /\ UNCHANGED <<at, round>>
    BY <1>0, <1>6, CommandStep
  <2>2. child.kind = "command" /\ child.line = Line BY DEF CommandOf
  <2> HIDE DEF child
  <2>3. Begun = at - 1 /\ Begun' = at BY <2>1 DEF Begun, Running
  <2>4. /\ Len(objs') = Len(objs) + 1 /\ objs'[Len(objs) + 1] = child
        /\ \A o \in 1 .. Len(objs) : objs'[o].kind = objs[o].kind /\ objs'[o].line = objs[o].line
    BY <1>0, <2>1, AddGrows
  <2>5. PICK new : new = Len(objs) + 1 OBVIOUS
  <2>6. new \in 1 .. Len(objs') /\ \A o \in 1 .. Len(objs') : o \in 1 .. Len(objs) \/ o = new
    BY <1>3, <2>4, <2>5
  <2>7. \/ round = 0 /\ Watching(child)
        \/ round # 0 /\ Quietly(child)
    <3>1. \/ Len(watched) = Len(job.lines) /\ Quietly(child)
          \/ Len(watched) # Len(job.lines) /\ Watching(child)
      BY <1>0, <1>1, <2>1, <2>2, AddCases DEF Watches
    <3>2. count BY <1>2, <2>1
    <3> QED BY <1>0, <2>1, <2>3, <3>1, <3>2
  <2>8. CASE round = 0 /\ Watching(child)
    <3>1. watched' = Append(watched, new) BY <2>5, <2>8 DEF Watching
    <3>2. Len(watched) = at - 1 BY <1>2, <2>1, <2>3, <2>8
    <3>3. new \in Nat BY <1>3, <2>5
    <3>4. /\ Len(watched') = at /\ watched'[at] = new
          /\ \A m \in 1 .. at - 1 : watched'[m] = watched[m]
      BY <1>0, <1>3, <3>1, <3>2, <3>3, AppendProperties
    <3>5. count' BY <2>1, <2>3, <2>8, <3>4
    <3>6. ASSUME NEW m \in 1 .. Len(watched')
          PROVE  /\ m <= Len(job.lines) /\ watched'[m] \in 1 .. Len(objs')
                 /\ objs'[watched'[m]].kind = "command" /\ objs'[watched'[m]].line = job.lines[m]
      <4>1. CASE m = at BY <2>1, <2>2, <2>4, <2>5, <2>6, <3>4, <4>1 DEF Line
      <4>2. CASE m \in 1 .. at - 1 BY <1>2, <1>3, <2>4, <3>2, <3>4, <4>2
      <4> QED BY <2>1, <3>4, <4>1, <4>2
    <3>7. ASSUME NEW m \in 1 .. Len(watched'), NEW n \in 1 .. Len(watched'), m < n
          PROVE  watched'[m] < watched'[n]
      <4>1. m \in 1 .. at - 1 BY <1>0, <3>4, <3>7
      <4>2. CASE n = at BY <1>2, <1>3, <2>5, <3>2, <3>4, <4>1, <4>2
      <4>3. CASE n \in 1 .. at - 1 BY <1>2, <3>2, <3>4, <3>7, <4>1, <4>3
      <4> QED BY <1>0, <3>4, <4>2, <4>3
    <3>8. ASSUME NEW c \in 1 .. Len(objs'), objs'[c].kind = "command" PROVE Covered(c)'
      <4>1. CASE c = new
        <5>1. at \in 1 .. Len(watched') /\ watched'[at] <= c BY <1>0, <1>3, <2>5, <3>4, <4>1
        <5> QED BY <3>4, <4>1, <5>1 DEF Covered
      <4>2. CASE c \in 1 .. Len(objs)
        <5>1. PICK m \in 1 .. Len(watched) :
                objs[watched[m]].line = objs[c].line /\ watched[m] <= c
          BY <1>2, <2>4, <3>8, <4>2 DEF Covered
        <5>2. m \in 1 .. Len(watched') /\ watched'[m] = watched[m] BY <1>0, <3>2, <3>4
        <5>3. objs'[watched'[m]].line = objs'[c].line BY <1>2, <2>4, <4>2, <5>1, <5>2
        <5> QED BY <5>1, <5>2, <5>3 DEF Covered
      <4> QED BY <2>6, <4>1, <4>2
    <3> QED BY <1>0, <2>1, <3>5, <3>6, <3>7, <3>8 DEF WatchedInv
  <2>9. CASE round # 0 /\ Quietly(child)
    <3>1. watched' = watched /\ Len(watched) = Len(job.lines) /\ count'
      BY <1>0, <1>2, <2>1, <2>9 DEF Quietly
    <3>2. ASSUME NEW m \in 1 .. Len(watched)
          PROVE  /\ watched[m] \in 1 .. Len(objs')
                 /\ objs'[watched[m]].kind = "command" /\ objs'[watched[m]].line = job.lines[m]
      <4>1. PICK w : w = watched[m] OBVIOUS
      <4>2. /\ w \in 1 .. Len(objs) /\ objs[w].kind = "command" /\ objs[w].line = job.lines[m]
        BY <1>2, <4>1
      <4>3. w \in 1 .. Len(objs') BY <1>3, <2>4, <4>2
      <4> QED BY <2>4, <4>1, <4>2, <4>3
    <3>3. ASSUME NEW c \in 1 .. Len(objs'), objs'[c].kind = "command" PROVE Covered(c)'
      <4>1. CASE c = new
        <5>1. at \in 1 .. Len(watched) BY <2>1, <3>1
        <5>2. objs'[watched[at]].line = objs'[c].line BY <2>2, <2>4, <2>5, <3>2, <4>1, <5>1 DEF Line
        <5>3. watched[at] <= c BY <1>2, <1>3, <2>5, <4>1, <5>1
        <5> QED BY <3>1, <5>1, <5>2, <5>3 DEF Covered
      <4>2. CASE c \in 1 .. Len(objs)
        <5>1. PICK m \in 1 .. Len(watched) :
                objs[watched[m]].line = objs[c].line /\ watched[m] <= c
          BY <1>2, <2>4, <3>3, <4>2 DEF Covered
        <5>2. objs'[watched[m]].line = objs'[c].line BY <1>2, <2>4, <4>2, <5>1
        <5> QED BY <3>1, <5>1, <5>2 DEF Covered
      <4> QED BY <2>6, <4>1, <4>2
    <3> QED BY <1>0, <1>2, <2>1, <3>1, <3>2, <3>3 DEF WatchedInv
  <2> QED BY <2>7, <2>8, <2>9
<1>7. CASE KeyAdded
  <2>1. /\ UNCHANGED <<round, at, objs, watched>> /\ pc = "added" /\ pc' = "answers"
    BY <1>7 DEF KeyAdded
  <2>2. Begun' = Begun BY <2>1 DEF Begun, Running
  <2> QED BY <1>0, <1>2, <1>4, <2>1, <2>2
<1>8. CASE Answer
  <2>1. PICK c \in 1 .. Len(objs) : AnswerOf(c) \in Object /\ AddChildren(AnswerOf(c))
    BY <1>8, AnswerStep
  <2>2. /\ UNCHANGED <<pc, round, at>> /\ pc = "answers" BY <1>8, AnswerStep
  <2>3. AnswerOf(c).kind # "command" BY <1>8, AnswerObject
  <2>4. watched' = watched
    BY <1>0, <1>1, <2>1, <2>3, AddCases DEF Quietly, Posting, Updating, Watches
  <2>5. /\ Len(objs') = Len(objs) + 1 /\ objs'[Len(objs) + 1] = AnswerOf(c)
        /\ \A o \in 1 .. Len(objs) : objs'[o].kind = objs[o].kind /\ objs'[o].line = objs[o].line
    BY <1>0, <2>1, AddGrows
  <2>6. Begun' = Begun BY <2>2 DEF Begun, Running
  <2>7. count' BY <1>0, <1>2, <2>2, <2>4, <2>6
  <2>8. ASSUME NEW m \in 1 .. Len(watched)
        PROVE  /\ watched[m] \in 1 .. Len(objs')
               /\ objs'[watched[m]].kind = "command" /\ objs'[watched[m]].line = job.lines[m]
    <3>1. PICK w : w = watched[m] OBVIOUS
    <3>2. /\ w \in 1 .. Len(objs) /\ objs[w].kind = "command" /\ objs[w].line = job.lines[m]
      BY <1>2, <3>1
    <3>3. w \in 1 .. Len(objs') BY <1>3, <2>5, <3>2
    <3> QED BY <2>5, <3>1, <3>2, <3>3
  <2>9. ASSUME NEW p \in 1 .. Len(objs'), objs'[p].kind = "command" PROVE Covered(p)'
    <3>1. p \in 1 .. Len(objs) BY <1>3, <2>3, <2>5, <2>9
    <3>2. PICK m \in 1 .. Len(watched) : objs[watched[m]].line = objs[p].line /\ watched[m] <= p
      BY <1>2, <2>5, <2>9, <3>1 DEF Covered
    <3>3. objs'[watched[m]].line = objs'[p].line BY <1>2, <2>5, <3>1, <3>2
    <3> QED BY <2>4, <3>2, <3>3 DEF Covered
  <2> QED BY <1>0, <1>2, <2>2, <2>4, <2>7, <2>8, <2>9 DEF WatchedInv
<1>9. CASE Returned
  <2>1. /\ UNCHANGED <<objs, watched>> /\ pc = "answers"
        /\ \/ pc' = "reply"
           \/ /\ pc' = "next"
              /\ \/ at < Len(job.lines) /\ at' = at + 1 /\ round' = round
                 \/ ~ (at < Len(job.lines)) /\ at' = 1 /\ round' = round + 1
    BY <1>9 DEF Returned
  <2>2. Begun = at /\ at \in 1 .. Len(job.lines) /\ count
    BY <1>0, <1>2, <2>1 DEF Begun, Running, ControlInv
  <2>3. CASE pc' = "reply" BY <1>4, <2>1, <2>3
  <2>4. CASE pc' = "next" /\ at < Len(job.lines) /\ at' = at + 1 /\ round' = round
    <3>1. Begun' = at BY <1>0, <2>4 DEF Begun, Running
    <3> QED BY <1>0, <1>4, <2>1, <2>2, <2>4, <3>1
  <2>5. CASE pc' = "next" /\ ~ (at < Len(job.lines)) /\ at' = 1 /\ round' = round + 1
    <3>1. at = Len(job.lines) /\ round' # 0 BY <1>0, <2>2, <2>5
    <3> QED BY <1>0, <1>4, <2>1, <2>2, <2>5, <3>1
  <2> QED BY <2>1, <2>3, <2>4, <2>5
<1>10. CASE Interrupted \/ Reply
  <2>1. UNCHANGED <<objs, watched>> /\ pc' \in {"reply", "done"} BY <1>10 DEF Interrupted, Reply
  <2> QED BY <1>4, <2>1
<1>11. CASE Deliver \/ Idle \/ UNCHANGED vars
  <2>1. UNCHANGED <<pc, round, at, objs, watched>> BY <1>11 DEF Deliver, driver, Idle, vars
  <2>2. \A c \in 1 .. Len(objs) : Covered(c)' <=> Covered(c) BY <2>1 DEF Covered
  <2>3. Begun' = Begun BY <2>1 DEF Begun, Running
  <2> QED BY <1>0, <1>2, <2>1, <2>2, <2>3 DEF WatchedInv
<1> QED BY <1>5, <1>6, <1>7, <1>8, <1>9, <1>10, <1>11 DEF Next

-----------------------------------------------------------------------------
(* Commands without an answer. *)

\* No handler answers this text.
NoAnswer(s, t) == \A out \in Outcomes(Execute(s, t), t) : out.add = <<>>

\* A text that a handler once left without an answer and without an error never has one.
LEMMA NeverAnswered ==
  ASSUME NEW s \in AllStores, NEW line \in Seq(STRING),
         NEW out \in Outcomes(Execute(s, line), line), out.add = <<>>, ~ out.err
  PROVE  NoAnswer(s, line)
<1> DEFINE e == Execute(s, line)
<1>0. e.what = "call" => e.h.out \in Outs BY ExecuteOut
<1>1. out \in Outcomes(e, line) OBVIOUS
<1> SUFFICES ASSUME NEW o \in Outcomes(e, line) PROVE o.add = <<>>
  BY Zenon DEF NoAnswer
<1> HIDE DEF e
<1>2. \A kids : Ok(kids).add = kids /\ Err(kids).add = kids /\ Err(kids).err = TRUE BY DEF Ok, Err
<1>3. <<"value">> # <<>> /\ <<"array">> # <<>> /\ <<"array", "inner">> # <<>> OBVIOUS
<1>4. \A kids : out # Err(kids) BY <1>2, Zenon
<1>5. CASE e.what # "call"
  <2>1. Outcomes(e, line) = {Err(<<>>)} BY <1>5, OutcomesAre, Zenon
  <2> QED BY <1>1, <1>4, <2>1, Zenon
<1>6. CASE e.what = "call"
  <2>1. \/ Outcomes(e, line) = {Ok(<<>>), Err(<<>>)}
        \/ Outcomes(e, line) = {Ok(<<"value">>), Err(<<>>)}
        \/ Outcomes(e, line) = {Ok(<<"array">>), Err(<<>>)}
        \/ Outcomes(e, line) = {Ok(<<"value">>), Err(<<"value">>)}
        \/ Outcomes(e, line) = {Ok(HelpTexts(Tail(line)))}
        \/ Outcomes(e, line) = {Ok(<<"value">>), Ok(<<"array">>),
                                 Ok(<<"array", "inner">>), Err(<<>>)}
        \/ Outcomes(e, line) = {Err(<<>>), Err(<<"value">>), Err(<<"value", "value">>)}
        \/ Outcomes(e, line) = {Err(<<>>)}
    BY <1>0, <1>6, OutcomesAre, Zenon
  <2>2. out # Ok(<<"value">>) /\ out # Ok(<<"array">>) /\ out # Ok(<<"array", "inner">>)
    BY <1>2, <1>3, Zenon
  <2>3. \/ Outcomes(e, line) = {Ok(<<>>), Err(<<>>)}
        \/ Outcomes(e, line) = {Ok(HelpTexts(Tail(line)))}
    <3>1. out \notin {Ok(<<"value">>), Err(<<>>)} /\ out \notin {Ok(<<"array">>), Err(<<>>)}
      BY <1>4, <2>2, Zenon
    <3>2. out \notin {Ok(<<"value">>), Err(<<"value">>)} /\ out \notin {Err(<<>>)}
      BY <1>4, <2>2, Zenon
    <3>3. out \notin {Ok(<<"value">>), Ok(<<"array">>), Ok(<<"array", "inner">>), Err(<<>>)}
      BY <1>4, <2>2, Zenon
    <3>4. out \notin {Err(<<>>), Err(<<"value">>), Err(<<"value", "value">>)} BY <1>4, Zenon
    <3> QED BY <1>1, <2>1, <3>1, <3>2, <3>3, <3>4, Zenon
  <2>4. CASE Outcomes(e, line) = {Ok(<<>>), Err(<<>>)} BY <1>2, <2>4, Zenon
  <2>5. CASE Outcomes(e, line) = {Ok(HelpTexts(Tail(line)))}
    <3>1. o \in Outcomes(e, line) BY Zenon DEF e
    <3>2. o = out BY <1>1, <2>5, <3>1, Zenon
    <3> QED BY <3>2
  <2> QED BY <2>3, <2>4, <2>5
<1> QED BY <1>5, <1>6

\* The first answer to its text.
IsFirst(o) == IsAnswer(o) /\ \A p \in 1 .. o - 1 : IsAnswer(p) => objs[p].line # objs[o].line

\* The command c has an answer, never gets one, or is the last one.
Replied(c) ==
  \/ \E o \in 1 .. Len(objs) : objs[o].parent = c
  \/ NoAnswer(job.store, objs[c].line)
  \/ Running /\ Current(c) /\ (answers # <<>> \/ fails)
  \/ pc \in {"reply", "done"}

\* The first answer to a text is under the first command with this text.
RepliedInv ==
  /\ Running /\ answers # <<>> => ~ NoAnswer(job.store, Line)
  /\ answers = <<"inner">> => \E o \in 1 .. Len(objs) : Current(objs[o].parent)
  /\ \A c \in 1 .. Len(objs) : objs[c].kind = "command" => Replied(c)
  /\ \A f, c \in 1 .. Len(objs) :
       IsFirst(f) /\ objs[c].kind = "command" /\ objs[c].line = objs[f].line =>
         objs[f].parent <= c

\* An object under a command is an answer to its text.
LEMMA KidsAnswer ==
  ASSUME BaseInv, NEW c \in 1 .. Len(objs), objs[c].kind = "command",
         NEW o \in 1 .. Len(objs), objs[o].parent = c
  PROVE  IsAnswer(o) /\ objs[o].line = objs[c].line
<1>1. Hangs(o) BY DEF BaseInv, TreeInv
<1>2. objs[o] \in Object /\ Len(objs) \in Nat BY DEF BaseInv, TypeInv
<1>3. objs[o].kind \in {"command", "value", "array", "inner"} BY <1>2 DEF Object
<1>4. c # Root BY <1>2 DEF Root
<1> QED BY <1>1, <1>3, <1>4 DEF Hangs, IsAnswer

\* An answer to a text that has none yet is under the first command with this text.
LEMMA FirstIsCurrent ==
  ASSUME BaseInv, RepliedInv, pc = "answers", answers # <<>>,
         NEW c \in 1 .. Len(objs), Current(c),
         \A o \in 1 .. Len(objs) : IsAnswer(o) => objs[o].line # Line,
         NEW p \in 1 .. Len(objs), objs[p].kind = "command", objs[p].line = Line
  PROVE  c <= p
<1> SUFFICES ASSUME p < c PROVE FALSE
  BY DEF BaseInv, TypeInv
<1>1. Running BY DEF Running
<1>2. Replied(p) BY DEF RepliedInv
<1>3. ~ \E o \in 1 .. Len(objs) : objs[o].parent = p BY KidsAnswer
<1>4. ~ NoAnswer(job.store, objs[p].line) BY <1>1 DEF RepliedInv
<1>5. ~ Current(p) BY DEF Current
<1> QED BY <1>2, <1>3, <1>4, <1>5 DEF Replied

\* There are no commands at the beginning.
LEMMA InitReplied == Init => RepliedInv
<1> SUFFICES ASSUME Init PROVE RepliedInv OBVIOUS
<1>1. answers = <<>> /\ Len(objs) = 0 BY DEF Init
<1>2. answers # <<"inner">> BY <1>1
<1> QED BY <1>1, <1>2 DEF RepliedInv

\* What is kept when objects are added: kinds, texts, parents, and who was first.
Grown ==
  /\ Len(objs) \in Nat /\ Len(objs') = Len(objs) + 1
  /\ \A o \in 1 .. Len(objs) :
       /\ objs'[o].parent = objs[o].parent /\ objs'[o].kind = objs[o].kind
       /\ objs'[o].line = objs[o].line

\* Who was first stays first.
LEMMA FirstStays ==
  ASSUME Grown, NEW o \in 1 .. Len(objs)
  PROVE  (IsAnswer(o)' <=> IsAnswer(o)) /\ (IsFirst(o)' <=> IsFirst(o))
<1>1. 1 .. o - 1 \subseteq 1 .. Len(objs) BY DEF Grown
<1>2. \A p \in 1 .. Len(objs) : IsAnswer(p)' <=> IsAnswer(p) BY DEF IsAnswer, Grown
<1>3. \A p \in 1 .. Len(objs) : objs'[p].line = objs[p].line BY DEF Grown
<1> QED BY <1>1, <1>2, <1>3 DEF IsFirst

\* Every step keeps first answers under first commands.
LEMMA NextReplied == BaseInv /\ BaseInv' /\ RepliedInv /\ [Next]_vars => RepliedInv'
<1> SUFFICES ASSUME BaseInv, BaseInv', RepliedInv, [Next]_vars PROVE RepliedInv'
  OBVIOUS
<1>0. /\ TypeInv /\ ControlInv /\ TreeInv /\ job \in Jobs /\ job' = job
      /\ job.store \in AllStores /\ Len(objs) \in Nat
  BY JobStays, JobType DEF BaseInv, ControlInv, TypeInv
<1>1. ASSUME objs' = objs, at' = at, pc' \in {"reply", "done"} \/ UNCHANGED <<pc, answers, fails>>
             \/ (pc = "added" /\ pc' = "answers" /\ UNCHANGED <<answers, fails>>)
      PROVE  RepliedInv'
  <2>1. Line' = Line BY <1>0, <1>1 DEF Line
  <2>2. \A c \in 1 .. Len(objs) : Current(c)' <=> Current(c) BY <1>1, <2>1 DEF Current
  <2>3. \A o \in 1 .. Len(objs) : IsFirst(o)' <=> IsFirst(o) BY <1>1 DEF IsFirst, IsAnswer
  <2>4. CASE pc' \in {"reply", "done"}
    <3>1. ~ Running' /\ answers' = <<>> BY <2>4 DEF BaseInv, TreeInv, Running
    <3>2. answers' # <<"inner">> BY <3>1
    <3>3. \A c \in 1 .. Len(objs) : Replied(c)' BY <2>4 DEF Replied
    <3> QED BY <1>1, <2>3, <3>1, <3>2, <3>3 DEF RepliedInv
  <2>5. CASE pc' \notin {"reply", "done"}
    <3>1. (Running' <=> Running) /\ UNCHANGED <<answers, fails>> /\ pc \notin {"reply", "done"}
      BY <1>1, <2>5 DEF Running
    <3>2. \A c \in 1 .. Len(objs) : Replied(c) => Replied(c)'
      BY <1>0, <1>1, <2>2, <3>1 DEF Replied
    <3>3. (\E o \in 1 .. Len(objs) : Current(objs[o].parent))' <=>
            \E o \in 1 .. Len(objs) : Current(objs[o].parent)
      BY <1>1, <2>1 DEF Current
    <3> QED BY <1>0, <1>1, <2>1, <2>3, <3>1, <3>2, <3>3 DEF RepliedInv
  <2> QED BY <2>4, <2>5
<1>2. CASE Start
  <2>1. pc = "start" /\ UNCHANGED <<objs, at, answers, fails>> /\ pc' \in {"next", "done"}
    BY <1>2 DEF Start
  <2>2. ~ Running /\ ~ Running' /\ answers = <<>> BY <1>0, <2>1 DEF Running, TreeInv
  <2>3. answers' # <<"inner">> BY <2>1, <2>2
  <2>4. \A c \in 1 .. Len(objs) : Replied(c) => Replied(c)'
    BY <1>0, <2>1, <2>2 DEF Replied
  <2>5. \A o \in 1 .. Len(objs) : IsFirst(o)' <=> IsFirst(o) BY <2>1 DEF IsFirst, IsAnswer
  <2> QED BY <2>1, <2>2, <2>3, <2>4, <2>5 DEF RepliedInv
<1>3. CASE Command
  <2> DEFINE child == CommandOf(Line)
  <2>1. /\ pc = "next" /\ pc' \in {"added", "answers"} /\ child \in Object /\ AddChildren(child)
        /\ Line \in Seq(STRING) /\ UNCHANGED <<at, round>>
    BY <1>0, <1>3, CommandStep
  <2>2. PICK out \in Outcomes(Execute(job.store, Line), Line) :
          answers' = out.add /\ fails' = out.err /\ out.add \in Shapes
    BY <1>0, <1>3, CommandStep
  <2>3. child.kind = "command" /\ child.line = Line BY DEF CommandOf
  <2> HIDE DEF child
  <2>4. Grown /\ objs'[Len(objs) + 1] = child BY <1>0, <2>1, AddGrows DEF Grown
  <2>5. PICK new : new = Len(objs) + 1 OBVIOUS
  <2>6. /\ new \in 1 .. Len(objs') /\ objs'[new] = child
        /\ \A o \in 1 .. Len(objs') : o \in 1 .. Len(objs) \/ o = new
    BY <2>4, <2>5 DEF Grown
  <2>7. Line' = Line /\ Running' BY <1>0, <2>1 DEF Line, Running
  <2>8. answers' # <<>> => ~ NoAnswer(job.store, Line) BY <2>2 DEF NoAnswer
  <2>9. answers' # <<"inner">> BY <2>2, InnerNoShape
  <2>10. Current(new)'
    <3>1. \A p \in 1 .. Len(objs') : ~ (new < p) BY <2>4, <2>5 DEF Grown
    <3> QED BY <2>3, <2>6, <2>7, <3>1 DEF Current
  <2>11. Replied(new)'
    <3>1. CASE answers' # <<>> \/ fails' BY <2>7, <2>10, <3>1 DEF Replied
    <3>2. CASE answers' = <<>> /\ ~ fails'
      <4>1. NoAnswer(job.store, Line) BY <1>0, <2>1, <2>2, <3>2, NeverAnswered
      <4> QED BY <1>0, <2>3, <2>6, <4>1 DEF Replied
    <3> QED BY <3>1, <3>2
  <2>12. ASSUME NEW c \in 1 .. Len(objs), objs[c].kind = "command" PROVE Replied(c)'
    <3>1. \/ \E o \in 1 .. Len(objs) : objs[o].parent = c
          \/ NoAnswer(job.store, objs[c].line)
      BY <2>1, <2>12 DEF RepliedInv, Replied, Running
    <3>2. CASE \E o \in 1 .. Len(objs) : objs[o].parent = c
      BY <2>4, <3>2 DEF Grown, Replied
    <3>3. CASE NoAnswer(job.store, objs[c].line) BY <1>0, <2>4, <3>3 DEF Grown, Replied
    <3> QED BY <3>1, <3>2, <3>3
  <2>13. \A c \in 1 .. Len(objs') : objs'[c].kind = "command" => Replied(c)'
    BY <2>4, <2>6, <2>11, <2>12 DEF Grown
  <2>14. ASSUME NEW f \in 1 .. Len(objs'), NEW c \in 1 .. Len(objs'), IsFirst(f)',
                objs'[c].kind = "command", objs'[c].line = objs'[f].line
         PROVE  objs'[f].parent <= c
    <3>1. f \in 1 .. Len(objs) BY <2>3, <2>6, <2>14 DEF IsFirst, IsAnswer
    <3>2. IsFirst(f) /\ objs'[f].parent = objs[f].parent /\ objs'[f].line = objs[f].line
      BY <2>4, <2>14, <3>1, FirstStays DEF Grown
    <3>3. CASE c \in 1 .. Len(objs)
      BY <2>4, <2>14, <3>1, <3>2, <3>3 DEF RepliedInv, Grown
    <3>4. CASE c = new
      <4>1. objs[f].parent \in 1 .. f - 1
        <5>1. Hangs(f) BY <1>0, <3>1 DEF TreeInv
        <5> QED BY <3>2, <5>1 DEF Hangs, IsFirst, IsAnswer
      <4> QED BY <1>0, <2>5, <3>1, <3>2, <3>4, <4>1
    <3> QED BY <2>6, <3>3, <3>4
  <2> QED BY <1>0, <2>7, <2>8, <2>9, <2>13, <2>14 DEF RepliedInv
<1>4. CASE KeyAdded
  BY <1>1, <1>4 DEF KeyAdded
<1>5. CASE Answer
  <2>1. /\ pc = "answers" /\ pc' = pc /\ answers # <<>> /\ answers' = Tail(answers)
        /\ UNCHANGED <<at, fails>>
    BY <1>5, AnswerStep
  <2>2. PICK c \in 1 .. Len(objs) :
          Current(c) /\ AnswerOf(c) \in Object /\ AddChildren(AnswerOf(c))
    BY <1>5, AnswerStep
  <2> DEFINE child == AnswerOf(c)
  <2>3. /\ child.kind = Head(answers) /\ child.line = Line
        /\ child.kind \in {"value", "array", "inner"}
        /\ child.kind # "inner" => child.parent = c
    BY <1>5, AnswerObject
  <2>4. child \in Object /\ AddChildren(child) BY <2>2
  <2> HIDE DEF child
  <2>5. Grown /\ objs'[Len(objs) + 1] = child BY <1>0, <2>4, AddGrows DEF Grown
  <2>6. PICK new : new = Len(objs) + 1 OBVIOUS
  <2>7. /\ new \in 1 .. Len(objs') /\ objs'[new] = child
        /\ \A o \in 1 .. Len(objs') : o \in 1 .. Len(objs) \/ o = new
    BY <2>5, <2>6 DEF Grown
  <2>8. Line' = Line /\ Running' /\ Running BY <1>0, <2>1 DEF Line, Running
  <2>9. ~ NoAnswer(job.store, Line) BY <2>1, <2>8 DEF RepliedInv
  <2>10. Current(c)'
    <3>1. \A p \in 1 .. Len(objs') : c < p => objs'[p].kind # "command"
      BY <2>2, <2>3, <2>5, <2>7 DEF Current, Grown
    <3>2. c \in 1 .. Len(objs') /\ objs'[c].kind = "command" /\ objs'[c].line = Line
      BY <2>2, <2>5 DEF Current, Grown
    <3> QED BY <2>8, <3>1, <3>2 DEF Current
  <2>11. \E o \in 1 .. Len(objs') : objs'[o].parent = c
    <3>1. CASE child.kind # "inner" BY <2>3, <2>7, <3>1
    <3>2. CASE child.kind = "inner"
      <4>1. answers = <<"inner">> BY <1>0, <2>1, <2>3, <3>2, AnswersLeft DEF TypeInv
      <4>2. PICK o \in 1 .. Len(objs) : Current(objs[o].parent) BY <4>1 DEF RepliedInv
      <4>3. objs[o].parent = c BY <1>0, <2>2, <4>2 DEF Current
      <4> QED BY <2>5, <4>3 DEF Grown
    <3> QED BY <3>1, <3>2
  <2>12. ASSUME NEW p \in 1 .. Len(objs), objs[p].kind = "command" PROVE Replied(p)'
    <3>1. \/ \E o \in 1 .. Len(objs) : objs[o].parent = p
          \/ NoAnswer(job.store, objs[p].line)
          \/ Current(p)
      BY <2>1, <2>12 DEF RepliedInv, Replied
    <3>2. CASE \E o \in 1 .. Len(objs) : objs[o].parent = p
      BY <2>5, <3>2 DEF Grown, Replied
    <3>3. CASE NoAnswer(job.store, objs[p].line) BY <1>0, <2>5, <3>3 DEF Grown, Replied
    <3>4. CASE Current(p)
      <4>1. p = c BY <1>0, <2>2, <3>4 DEF Current
      <4> QED BY <2>11, <4>1 DEF Replied
    <3> QED BY <3>1, <3>2, <3>3, <3>4
  <2>13. \A p \in 1 .. Len(objs') : objs'[p].kind = "command" => Replied(p)'
    BY <2>3, <2>5, <2>7, <2>12 DEF Grown
  <2>14. ASSUME NEW f \in 1 .. Len(objs'), NEW p \in 1 .. Len(objs'), IsFirst(f)',
                objs'[p].kind = "command", objs'[p].line = objs'[f].line
         PROVE  objs'[f].parent <= p
    <3>1. p \in 1 .. Len(objs) /\ objs[p].kind = "command" /\ objs[p].line = objs'[f].line
      BY <2>3, <2>5, <2>7, <2>14 DEF Grown
    <3>2. CASE f \in 1 .. Len(objs)
      <4>1. IsFirst(f) /\ objs'[f].parent = objs[f].parent /\ objs'[f].line = objs[f].line
        BY <2>5, <2>14, <3>2, FirstStays DEF Grown
      <4> QED BY <3>1, <3>2, <4>1 DEF RepliedInv
    <3>3. CASE f = new
      <4>1. objs'[f] = child /\ child.kind # "inner" BY <2>7, <2>14, <3>3 DEF IsFirst, IsAnswer
      <4>2. \A o \in 1 .. Len(objs) : IsAnswer(o)' => objs'[o].line # Line
        BY <1>0, <2>3, <2>6, <2>14, <3>3, <4>1 DEF IsFirst
      <4>3. \A o \in 1 .. Len(objs) : IsAnswer(o) => objs[o].line # Line
        BY <2>5, <4>2, FirstStays DEF Grown
      <4>4. c <= p BY <2>1, <2>2, <2>3, <3>1, <4>1, <4>3, FirstIsCurrent
      <4> QED BY <2>3, <4>1, <4>4
    <3> QED BY <2>7, <3>2, <3>3
  <2>15. answers' = <<"inner">> => (\E o \in 1 .. Len(objs) : Current(objs[o].parent))'
    <3>1. PICK o \in 1 .. Len(objs') : objs'[o].parent = c BY <2>11
    <3>2. Current(objs[o].parent)' BY <2>10, <3>1 DEF Current
    <3> QED BY <3>1, <3>2
  <2> QED BY <1>0, <2>8, <2>9, <2>13, <2>14, <2>15 DEF RepliedInv
<1>6. CASE Returned
  <2>1. /\ UNCHANGED <<objs, answers, fails>> /\ pc = "answers" /\ answers = <<>>
        /\ \/ pc' = "reply" /\ at' = at
           \/ ~ fails /\ pc' = "next"
    BY <1>6 DEF Returned
  <2>2. CASE pc' = "reply" /\ at' = at BY <1>1, <2>1, <2>2
  <2>3. CASE ~ fails /\ pc' = "next"
    <3>1. ~ Running' /\ answers' # <<"inner">> BY <2>1, <2>3 DEF Running
    <3>2. \A c \in 1 .. Len(objs) : Replied(c) => Replied(c)' BY <1>0, <2>1, <2>3 DEF Replied
    <3>3. \A o \in 1 .. Len(objs) : IsFirst(o)' <=> IsFirst(o) BY <2>1 DEF IsFirst, IsAnswer
    <3> QED BY <2>1, <3>1, <3>2, <3>3 DEF RepliedInv
  <2> QED BY <2>1, <2>2, <2>3
<1>7. CASE Interrupted \/ Reply
  BY <1>1, <1>7 DEF Interrupted, Reply
<1>8. CASE Deliver \/ Idle \/ UNCHANGED vars
  <2>1. UNCHANGED <<pc, at, objs, answers, fails>> BY <1>8 DEF Deliver, driver, Idle, vars
  <2> QED BY <1>1, <2>1
<1> QED BY <1>2, <1>3, <1>4, <1>5, <1>6, <1>7, <1>8 DEF Next

-----------------------------------------------------------------------------
(* The first answer of a watched command, and the value it has. *)

\* What BaseInv consists of.
LEMMA BaseParts ==
  ASSUME BaseInv
  PROVE  TypeInv /\ ControlInv /\ TreeInv /\ job \in Jobs /\ Len(objs) \in Nat
<1>1. TypeInv /\ ControlInv /\ TreeInv BY DEF BaseInv
<1>2. job \in Jobs BY <1>1 DEF ControlInv
<1>3. Len(objs) \in Nat BY <1>1 DEF TypeInv
<1> QED BY <1>1, <1>2, <1>3

\* FindWatchedCmd: the first watched command with the text.
LEMMA FindsWatched ==
  ASSUME TypeInv, NEW child \in Object, NEW t,
         \A m \in 1 .. Len(watched) : watched[m] \in 1 .. Len(objs),
         \E m \in 1 .. Len(watched) : objs[watched[m]].line = t
  PROVE  \E n \in 1 .. Len(watched) :
           /\ FindWatchedCmd(Append(objs, child), watched, t) = watched[n]
           /\ objs[watched[n]].line = t
           /\ \A m \in 1 .. Len(watched) : objs[watched[m]].line = t => n <= m
<1> DEFINE os == Append(objs, child)
           same == {n \in DOMAIN watched : os[watched[n]].line = t}
           n0 == CHOOSE n \in same : \A m \in same : n <= m
<1>1. DOMAIN watched = 1 .. Len(watched) /\ Len(watched) \in Nat BY DEF TypeInv
<1>2. \A o \in 1 .. Len(objs) : os[o] = objs[o] BY AppendProperties DEF TypeInv
<1> HIDE DEF os
<1>3. ASSUME NEW m \in 1 .. Len(watched) PROVE os[watched[m]].line = objs[watched[m]].line
  BY <1>2
<1>4. \A m \in 1 .. Len(watched) : m \in same <=> objs[watched[m]].line = t BY <1>1, <1>3
<1>5. same \in SUBSET Nat /\ same # {} BY <1>1, <1>4
<1>6. \E n \in same : \A m \in same : n <= m BY <1>5, LeastOf
<1>7. n0 \in same /\ \A m \in same : n0 <= m BY <1>6
<1>8. FindWatchedCmd(os, watched, t) = watched[n0] BY DEF FindWatchedCmd
<1>9. n0 \in 1 .. Len(watched) BY <1>1, <1>7
<1> HIDE DEF n0, same
<1> QED BY <1>4, <1>7, <1>8, <1>9 DEF os

\* Only one answer is the first to a text.
LEMMA FirstUnique ==
  ASSUME TypeInv, NEW f \in 1 .. Len(objs), NEW g \in 1 .. Len(objs), IsFirst(f), IsFirst(g),
         objs[f].line = objs[g].line
  PROVE  f = g
<1>1. Len(objs) \in Nat BY DEF TypeInv
<1>2. ~ (f < g) BY <1>1 DEF IsFirst
<1>3. ~ (g < f) BY <1>1 DEF IsFirst
<1> QED BY <1>1, <1>2, <1>3

\* A text that has an answer has a first one.
LEMMA FirstExists ==
  ASSUME TypeInv, NEW o \in 1 .. Len(objs), IsAnswer(o)
  PROVE  \E f \in 1 .. Len(objs) : IsFirst(f) /\ objs[f].line = objs[o].line
<1> DEFINE S == {p \in 1 .. Len(objs) : IsAnswer(p) /\ objs[p].line = objs[o].line}
<1>1. Len(objs) \in Nat BY DEF TypeInv
<1>2. S \in SUBSET Nat /\ S # {} BY <1>1
<1>3. PICK f \in S : \A p \in S : f <= p BY <1>2, LeastOf
<1>4. ASSUME NEW p \in 1 .. f - 1, IsAnswer(p) PROVE objs[p].line # objs[f].line
  BY <1>1, <1>3, <1>4
<1> QED BY <1>3, <1>4 DEF IsFirst

\* FindCmdChildNode finds the first answer to the text of the current line, which may be
\* the new one.
LEMMA FirstOfLine ==
  ASSUME BaseInv, RepliedInv, WatchedInv, Watches, Answer, Head(answers) # "inner",
         NEW c \in 1 .. Len(objs), Current(c), AnswerOf(c) \in Object
  PROVE  LET first == FirstOf(AnswerOf(c))
         IN \/ /\ first = Len(objs) + 1
               /\ \A o \in 1 .. Len(objs) : IsAnswer(o) => objs[o].line # Line
            \/ first \in 1 .. Len(objs) /\ IsFirst(first) /\ objs[first].line = Line
<1> DEFINE child == AnswerOf(c)
           os == Append(objs, child)
           w == FindWatchedCmd(os, watched, Line)
           first == FirstAnswer(os, w)
<1>0. TypeInv /\ TreeInv /\ Len(objs) \in Nat /\ pc = "answers" /\ answers # <<>>
  BY AnswerStep, BaseParts
<1>1. child.parent = c /\ child.line = Line /\ child.kind \in {"value", "array"}
  BY AnswerObject
<1>2. /\ os \in Seq(Object) /\ Len(os) = Len(objs) + 1 /\ os[Len(objs) + 1] = child
      /\ \A o \in 1 .. Len(objs) : os[o] = objs[o]
  BY <1>0, AppendProperties DEF TypeInv
<1>3. os[child.parent].line = Line BY <1>1, <1>2 DEF Current
<1>4. FirstOf(child) = first BY <1>3 DEF FirstOf
<1>5. /\ \A m \in 1 .. Len(watched) :
           watched[m] \in 1 .. Len(objs) /\ objs[watched[m]].kind = "command"
      /\ \A m, n \in 1 .. Len(watched) : m < n => watched[m] < watched[n]
      /\ \A p \in 1 .. Len(objs) : objs[p].kind = "command" => Covered(p)
      /\ Len(watched) \in Nat
  BY <1>0 DEF WatchedInv, TypeInv
<1>6. objs[c].kind = "command" /\ objs[c].line = Line BY DEF Current
<1>7. PICK n \in 1 .. Len(watched) :
        /\ w = watched[n] /\ objs[watched[n]].line = Line
        /\ \A m \in 1 .. Len(watched) : objs[watched[m]].line = Line => n <= m
  <2>1. \E m \in 1 .. Len(watched) : objs[watched[m]].line = Line BY <1>5, <1>6 DEF Covered
  <2> QED BY <1>0, <1>5, <2>1, FindsWatched
<1>8. w \in 1 .. Len(objs) /\ objs[w].kind = "command" /\ objs[w].line = Line BY <1>5, <1>7
<1> HIDE DEF w
<1>9. ASSUME NEW q \in 1 .. Len(objs), objs[q].kind = "command", objs[q].line = Line, q <= w
      PROVE  w = q
  <2>1. PICK m \in 1 .. Len(watched) : objs[watched[m]].line = Line /\ watched[m] <= q
    BY <1>5, <1>9 DEF Covered
  <2>2. n <= m BY <1>7, <2>1
  <2>3. watched[n] <= watched[m]
    <3>1. CASE n = m BY <1>5, <1>7, <1>8, <3>1
    <3>2. CASE n < m
      <4>1. watched[n] < watched[m] BY <1>5, <3>2
      <4> QED BY <1>0, <1>5, <4>1
    <3> QED BY <1>5, <2>2, <3>1, <3>2
  <2>4. watched[m] \in 1 .. Len(objs) BY <1>5
  <2> QED BY <1>0, <1>7, <1>8, <1>9, <2>1, <2>3, <2>4
<1>10. \/ first = Root /\ \A o \in 1 .. Len(os) : os[o].parent # w
       \/ /\ first \in 1 .. Len(os) /\ os[first].parent = w
          /\ \A o \in 1 .. Len(os) : os[o].parent = w => first <= o
  BY <1>2, FirstAnswerFound
<1> HIDE DEF first, os
<1>11. CASE \A o \in 1 .. Len(objs) : IsAnswer(o) => objs[o].line # Line
  <2>1. c <= w BY <1>0, <1>8, <1>11, FirstIsCurrent
  <2>2. w = c BY <1>6, <1>9, <2>1
  <2>3. first \in 1 .. Len(os) /\ os[first].parent = c
    BY <1>0, <1>1, <1>2, <1>10, <2>2
  <2>4. first \notin 1 .. Len(objs) BY <1>2, <1>6, <1>11, <2>3, KidsAnswer
  <2>5. first = Len(objs) + 1 BY <1>0, <1>2, <2>3, <2>4
  <2> QED BY <1>4, <1>11, <2>5
<1>12. CASE \E o \in 1 .. Len(objs) : IsAnswer(o) /\ objs[o].line = Line
  <2>1. PICK f \in 1 .. Len(objs) : IsFirst(f) /\ objs[f].line = Line
    BY <1>0, <1>12, FirstExists
  <2>2. PICK q : q = objs[f].parent OBVIOUS
  <2>3. q \in 1 .. Len(objs) /\ objs[q].kind = "command" /\ objs[q].line = Line
    <3>1. Hangs(f) BY <1>0 DEF TreeInv
    <3> QED BY <1>0, <2>1, <2>2, <3>1 DEF Hangs, IsFirst, IsAnswer
  <2>4. q <= w BY <1>8, <2>1, <2>2 DEF RepliedInv
  <2>5. w = q BY <1>9, <2>3, <2>4
  <2>6. f \in 1 .. Len(os) /\ os[f].parent = w BY <1>0, <1>2, <2>2, <2>5
  <2>7. first \in 1 .. Len(os) /\ os[first].parent = w /\ first <= f BY <1>10, <2>6
  <2>8. first \in 1 .. Len(objs) /\ objs[first].parent = q BY <1>0, <1>2, <2>5, <2>7
  <2>9. IsAnswer(first) /\ objs[first].line = Line BY <2>3, <2>8, KidsAnswer
  <2>10. ~ (first < f) BY <1>0, <2>1, <2>8, <2>9 DEF IsFirst
  <2>11. first = f BY <1>0, <2>7, <2>8, <2>10
  <2> QED BY <1>4, <2>1, <2>11
<1> QED BY <1>11, <1>12

\* What the watching locker makes of an answer.
LEMMA WatchAnswers ==
  ASSUME BaseInv, RepliedInv, WatchedInv, Watches, Answer
  PROVE  \E c \in 1 .. Len(objs) :
           /\ Current(c) /\ AnswerOf(c) \in Object /\ AddChildren(AnswerOf(c))
           /\ \/ Head(answers) = "inner" /\ Quietly(AnswerOf(c))
              \/ /\ Head(answers) # "inner" /\ Posting(AnswerOf(c))
                 /\ \A o \in 1 .. Len(objs) : IsAnswer(o) => objs[o].line # Line
              \/ /\ Head(answers) # "inner"
                 /\ \E f \in 1 .. Len(objs) :
                      Updating(AnswerOf(c), f) /\ IsFirst(f) /\ objs[f].line = Line
<1>0. TypeInv /\ TreeInv /\ job \in Jobs /\ Len(objs) \in Nat BY BaseParts
<1>1. PICK c \in 1 .. Len(objs) :
        Current(c) /\ AnswerOf(c) \in Object /\ AddChildren(AnswerOf(c))
  BY AnswerStep
<1> DEFINE child == AnswerOf(c)
<1>2. /\ child.kind = Head(answers) /\ child.kind \in {"value", "array", "inner"}
      /\ child.kind # "inner" => child.parent = c
  BY AnswerObject
<1>3. \A o \in 1 .. Len(objs) : Append(objs, child)[o] = objs[o]
  BY <1>0, <1>1, AppendProperties DEF TypeInv
<1>4. CASE Head(answers) = "inner"
  <2>1. answers = <<"inner">> BY <1>0, <1>4, AnswerStep, AnswersLeft DEF TypeInv
  <2>2. Len(objs) # 0 /\ objs[Len(objs)].kind = "array" BY <1>0, <2>1 DEF TreeInv
  <2>3. child.parent = Len(objs) BY <1>4 DEF AnswerOf
  <2>4. Len(objs) \in 1 .. Len(objs) BY <1>0, <2>2
  <2>5. Append(objs, child)[child.parent].kind # "command" BY <1>3, <2>2, <2>3, <2>4
  <2>6. Quietly(child) BY <1>0, <1>1, <1>2, <1>4, <2>5, AddCases DEF Watches
  <2> QED BY <1>1, <1>4, <2>6
<1>5. CASE Head(answers) # "inner"
  <2>1. child.parent = c /\ objs[c].kind = "command" BY <1>1, <1>2, <1>5 DEF Current
  <2>2. Append(objs, child)[child.parent].kind = "command" BY <1>3, <2>1
  <2>3. PICK first : first = FirstOf(child) OBVIOUS
  <2>4. \/ first = Root /\ Quietly(child)
        \/ first = Len(objs) + 1 /\ Posting(child)
        \/ first \in 1 .. Len(objs) /\ Updating(child, first)
    BY <1>0, <1>1, <1>2, <1>5, <2>2, <2>3, AddCases DEF Watches
  <2>5. \/ /\ first = Len(objs) + 1
           /\ \A o \in 1 .. Len(objs) : IsAnswer(o) => objs[o].line # Line
        \/ first \in 1 .. Len(objs) /\ IsFirst(first) /\ objs[first].line = Line
    BY <1>1, <1>5, <2>3, FirstOfLine
  <2>6. first # Root BY <1>0, <2>5 DEF Root
  <2>7. CASE first = Len(objs) + 1
    <3>1. Posting(child) /\ \A o \in 1 .. Len(objs) : IsAnswer(o) => objs[o].line # Line
      BY <1>0, <2>4, <2>5, <2>6, <2>7
    <3> QED BY <1>1, <1>5, <3>1
  <2>8. CASE first \in 1 .. Len(objs)
    <3>1. Updating(child, first) /\ IsFirst(first) /\ objs[first].line = Line
      BY <1>0, <2>4, <2>5, <2>6, <2>8
    <3> QED BY <1>1, <1>5, <2>8, <3>1
  <2> QED BY <2>5, <2>7, <2>8
<1> QED BY <1>4, <1>5

\* An object after the others.
LEMMA ObjsGrow ==
  ASSUME TypeInv, NEW child \in Object, objs' = Append(objs, child)
  PROVE  /\ Grown /\ objs'[Len(objs) + 1] = child /\ \A o \in 1 .. Len(objs) : objs'[o] = objs[o]
<1>1. objs \in Seq(Object) BY DEF TypeInv
<1>2. /\ Len(objs) \in Nat /\ Len(objs') = Len(objs) + 1 /\ objs'[Len(objs) + 1] = child
      /\ \A o \in 1 .. Len(objs) : objs'[o] = objs[o]
  BY <1>1, AppendProperties
<1> QED BY <1>2 DEF Grown

\* An object after the others, and a new value for one of them.
LEMMA ObjsUpdated ==
  ASSUME TypeInv, job \in Jobs, NEW child \in Object, AddChildren(child),
         NEW f \in 1 .. Len(objs), Updating(child, f)
  PROVE  /\ Grown /\ objs'[Len(objs) + 1] = child /\ objs'[f].val = child.val
         /\ \A o \in 1 .. Len(objs) : o # f => objs'[o] = objs[o]
<1> DEFINE os == Append(objs, child)
<1>1. objs \in Seq(Object) /\ Len(objs) \in Nat BY DEF TypeInv
<1>2. /\ os \in Seq(Object) /\ Len(os) = Len(objs) + 1
      /\ \A o \in 1 .. Len(objs) : os[o] = objs[o]
  BY <1>1, AppendProperties
<1>3. Grown /\ objs'[Len(objs) + 1] = child BY AddGrows DEF Grown
<1>4. objs' = [os EXCEPT ![f].val = child.val] BY DEF Updating
<1> HIDE DEF os
<1>5. DOMAIN os = 1 .. Len(objs) + 1 BY <1>2
<1>6. f \in DOMAIN os BY <1>1, <1>5
<1>7. os[f] \in Object BY <1>1, <1>2
<1>8. objs'[f] = [os[f] EXCEPT !.val = child.val] BY <1>4, <1>6
<1>9. objs'[f].val = child.val BY <1>7, <1>8 DEF Object
<1>10. ASSUME NEW o \in 1 .. Len(objs), o # f PROVE objs'[o] = objs[o]
  <2>1. o \in DOMAIN os BY <1>1, <1>5
  <2>2. objs'[o] = os[o] BY <1>4, <1>10, <2>1
  <2> QED BY <1>2, <2>2
<1> QED BY <1>3, <1>9, <1>10

\* The last answer to its text.
IsLast(k) == \A m \in 1 .. Len(log) : ~ log[m].set /\ log[m].line = log[k].line => m <= k

\* The first answer to a text has the value of the last one.
LatestInv ==
  Watches =>
    /\ \A f \in 1 .. Len(objs) :
         IsFirst(f) => \E k \in 1 .. Len(log) : Holds(f, k) /\ IsLast(k)
    /\ \A k \in 1 .. Len(log) :
         ~ log[k].set => \E f \in 1 .. Len(objs) : IsFirst(f) /\ objs[f].line = log[k].line

\* There are no answers at the beginning.
LEMMA InitLatest == Init => LatestInv
BY DEF Init, LatestInv

\* Every step keeps the first answers up to date.
LEMMA NextLatest ==
  BaseInv /\ RepliedInv /\ WatchedInv /\ LatestInv /\ [Next]_vars => LatestInv'
<1> SUFFICES ASSUME BaseInv, RepliedInv, WatchedInv, LatestInv, [Next]_vars, Watches'
             PROVE  LatestInv'
  BY DEF LatestInv
<1>0. TypeInv /\ ControlInv /\ job \in Jobs /\ Len(objs) \in Nat /\ job' = job
  BY BaseParts, JobStays
<1>1. Watches BY <1>0 DEF Watches
<1>2. /\ \A f \in 1 .. Len(objs) :
           IsFirst(f) => \E k \in 1 .. Len(log) : Holds(f, k) /\ IsLast(k)
      /\ \A k \in 1 .. Len(log) :
           ~ log[k].set => \E f \in 1 .. Len(objs) : IsFirst(f) /\ objs[f].line = log[k].line
  BY <1>1 DEF LatestInv
<1>3. ASSUME Grown, log' = log, \A o \in 1 .. Len(objs) : objs'[o] = objs[o],
             objs'[Len(objs) + 1].kind \notin {"value", "array"}
      PROVE  LatestInv'
  <2>1. ASSUME NEW o \in 1 .. Len(objs'), IsFirst(o)' PROVE o \in 1 .. Len(objs)
    BY <1>3, <2>1 DEF Grown, IsFirst, IsAnswer
  <2>2. \A o \in 1 .. Len(objs) : IsFirst(o)' <=> IsFirst(o) BY <1>3, FirstStays
  <2>3. \A o \in 1 .. Len(objs), k \in 1 .. Len(log) : Holds(o, k)' <=> Holds(o, k)
    BY <1>3 DEF Holds
  <2>4. \A k \in 1 .. Len(log) : IsLast(k)' <=> IsLast(k) BY <1>3 DEF IsLast
  <2>5. \A f \in 1 .. Len(objs') :
          IsFirst(f)' => \E k \in 1 .. Len(log') : Holds(f, k)' /\ IsLast(k)'
    BY <1>2, <1>3, <2>1, <2>2, <2>3, <2>4
  <2>6. 1 .. Len(objs) \subseteq 1 .. Len(objs') BY <1>3 DEF Grown
  <2>7. \A k \in 1 .. Len(log') :
          ~ log'[k].set => \E f \in 1 .. Len(objs') : IsFirst(f)' /\ objs'[f].line = log'[k].line
    BY <1>2, <1>3, <2>2, <2>6
  <2> QED BY <2>5, <2>7 DEF LatestInv
<1>4. CASE Start \/ Returned \/ Interrupted \/ Reply \/ Deliver \/ Idle \/ UNCHANGED vars
  <2>1. objs' = objs /\ log' = log
    BY <1>4 DEF Start, Returned, Interrupted, Reply, Deliver, driver, Idle, vars
  <2> QED BY <1>2, <2>1 DEF LatestInv, IsFirst, IsAnswer, Holds, IsLast
<1>5. CASE Command
  <2> DEFINE child == CommandOf(Line)
  <2>1. child \in Object /\ AddChildren(child) /\ log' = log BY <1>0, <1>5, CommandStep
  <2>2. child.kind = "command" BY DEF CommandOf
  <2> HIDE DEF child
  <2>3. objs' = Append(objs, child)
    BY <1>0, <1>1, <2>1, <2>2, AddCases DEF Watches, Quietly, Watching
  <2>4. Grown /\ objs'[Len(objs) + 1] = child /\ \A o \in 1 .. Len(objs) : objs'[o] = objs[o]
    BY <1>0, <2>1, <2>3, ObjsGrow
  <2> QED BY <1>3, <2>1, <2>2, <2>4
<1>6. CASE KeyAdded
  <2>1. objs' = objs /\ SetOf \in Given /\ log' = Append(log, SetOf) BY <1>6, KeyAddedStep
  <2>2. /\ Len(log) \in Nat /\ Len(log') = Len(log) + 1 /\ log'[Len(log) + 1] = SetOf
        /\ \A k \in 1 .. Len(log) : log'[k] = log[k]
    BY <1>0, <2>1, LogGrows
  <2>3. SetOf.set = TRUE BY DEF SetOf
  <2>4. \A k \in 1 .. Len(log') : ~ log'[k].set => k \in 1 .. Len(log) BY <2>2, <2>3
  <2>5. \A o \in 1 .. Len(objs), k \in 1 .. Len(log) : Holds(o, k)' <=> Holds(o, k)
    BY <2>1, <2>2 DEF Holds
  <2>6. \A o \in 1 .. Len(objs) : IsFirst(o)' <=> IsFirst(o) BY <2>1 DEF IsFirst, IsAnswer
  <2>7. \A k \in 1 .. Len(log) : IsLast(k) => IsLast(k)' BY <2>2, <2>4 DEF IsLast
  <2>8. \A f \in 1 .. Len(objs) :
          IsFirst(f)' => \E k \in 1 .. Len(log') : Holds(f, k)' /\ IsLast(k)'
    BY <1>2, <2>2, <2>5, <2>6, <2>7
  <2>9. \A k \in 1 .. Len(log') :
          ~ log'[k].set => \E f \in 1 .. Len(objs) : IsFirst(f)' /\ objs[f].line = log'[k].line
    BY <1>2, <2>2, <2>4, <2>6
  <2> QED BY <2>1, <2>8, <2>9 DEF LatestInv
<1>7. CASE Answer
  <2>1. PICK c \in 1 .. Len(objs) :
          /\ Current(c) /\ AnswerOf(c) \in Object /\ AddChildren(AnswerOf(c))
          /\ \/ Head(answers) = "inner" /\ Quietly(AnswerOf(c))
             \/ /\ Head(answers) # "inner" /\ Posting(AnswerOf(c))
                /\ \A o \in 1 .. Len(objs) : IsAnswer(o) => objs[o].line # Line
             \/ /\ Head(answers) # "inner"
                /\ \E f \in 1 .. Len(objs) :
                     Updating(AnswerOf(c), f) /\ IsFirst(f) /\ objs[f].line = Line
    BY <1>1, <1>7, WatchAnswers
  <2> DEFINE child == AnswerOf(c)
  <2>2. /\ child.kind = Head(answers) /\ child.line = Line /\ child.val = <<Len(log) + 1>>
        /\ child.kind \in {"value", "array", "inner"}
    BY <1>7, AnswerObject
  <2> HIDE DEF child
  <2>3. CASE Head(answers) = "inner"
    <3>1. Quietly(child) /\ child \in Object BY <2>1, <2>3 DEF child
    <3>2. objs' = Append(objs, child) BY <3>1 DEF Quietly
    <3>3. log' = log BY <1>7, <2>3, AnswerStep
    <3>4. Grown /\ objs'[Len(objs) + 1] = child /\ \A o \in 1 .. Len(objs) : objs'[o] = objs[o]
      BY <1>0, <3>1, <3>2, ObjsGrow
    <3> QED BY <1>3, <2>2, <2>3, <3>3, <3>4
  <2>4. CASE Head(answers) # "inner"
    <3>1. /\ Len(log) \in Nat /\ Len(log') = Len(log) + 1 /\ log'[Len(log) + 1] = AnswerGiven
          /\ \A k \in 1 .. Len(log) : log'[k] = log[k]
          /\ AnswerGiven.line = Line /\ AnswerGiven.set = FALSE
      BY <1>7, <2>4, AnswerLogged
    <3>2. PICK new, num : new = Len(objs) + 1 /\ num = Len(log) + 1 OBVIOUS
    <3>3. /\ num \in 1 .. Len(log') /\ log'[num].line = Line /\ ~ log'[num].set
          /\ \A k \in 1 .. Len(log') : k \in 1 .. Len(log) \/ k = num
      BY <3>1, <3>2
    <3>4. IsLast(num)' BY <3>1, <3>2 DEF IsLast
    <3>5. ASSUME NEW k \in 1 .. Len(log), IsLast(k), log[k].line # Line PROVE IsLast(k)'
      BY <3>1, <3>3, <3>5 DEF IsLast
    <3>6. CASE \E f \in 1 .. Len(objs) : Updating(child, f) /\ IsFirst(f) /\ objs[f].line = Line
      <4>1. PICK f \in 1 .. Len(objs) : Updating(child, f) /\ IsFirst(f) /\ objs[f].line = Line
        BY <3>6
      <4>2. child \in Object /\ AddChildren(child) BY <2>1 DEF child
      <4>3. /\ Grown /\ objs'[Len(objs) + 1] = child /\ objs'[f].val = child.val
            /\ \A o \in 1 .. Len(objs) : o # f => objs'[o] = objs[o]
        BY <1>0, <4>1, <4>2, ObjsUpdated
      <4>4. \A o \in 1 .. Len(objs') : o \in 1 .. Len(objs) \/ o = new BY <3>2, <4>3 DEF Grown
      <4>5. \A o \in 1 .. Len(objs) : IsFirst(o)' <=> IsFirst(o) BY <4>3, FirstStays
      <4>6. objs'[f].line = Line /\ IsFirst(f)' /\ IsAnswer(f)'
        BY <4>1, <4>3, <4>5 DEF Grown, IsFirst
      <4>7. ~ IsFirst(new)' BY <1>0, <2>2, <3>2, <4>3, <4>6 DEF IsFirst
      <4>8. Holds(f, num)' BY <2>2, <3>2, <3>3, <4>3, <4>6 DEF Holds
      <4>9. ASSUME NEW g \in 1 .. Len(objs'), IsFirst(g)'
            PROVE  \E k \in 1 .. Len(log') : Holds(g, k)' /\ IsLast(k)'
        <5>1. g \in 1 .. Len(objs) /\ IsFirst(g) BY <4>4, <4>5, <4>7, <4>9
        <5>2. CASE g = f BY <3>3, <3>4, <4>8, <5>2
        <5>3. CASE g # f
          <6>1. objs[g].line # Line BY <1>0, <4>1, <5>1, <5>3, FirstUnique
          <6>2. PICK k \in 1 .. Len(log) : Holds(g, k) /\ IsLast(k) BY <1>2, <5>1
          <6>3. Holds(g, k)' BY <3>1, <4>3, <5>1, <5>3, <6>2 DEF Holds
          <6>4. IsLast(k)' BY <3>5, <6>1, <6>2 DEF Holds
          <6>5. k \in 1 .. Len(log') BY <3>1
          <6> QED BY <6>3, <6>4, <6>5
        <5> QED BY <5>2, <5>3
      <4>10. ASSUME NEW k \in 1 .. Len(log'), ~ log'[k].set
             PROVE  \E g \in 1 .. Len(objs') : IsFirst(g)' /\ objs'[g].line = log'[k].line
        <5>1. f \in 1 .. Len(objs') BY <4>3 DEF Grown
        <5>2. CASE k = num BY <3>3, <4>6, <5>1, <5>2
        <5>3. CASE k \in 1 .. Len(log)
          <6>1. PICK g \in 1 .. Len(objs) : IsFirst(g) /\ objs[g].line = log[k].line
            BY <1>2, <3>1, <4>10, <5>3
          <6>2. objs'[g].line = log'[k].line /\ g \in 1 .. Len(objs')
            BY <3>1, <4>3, <5>3, <6>1 DEF Grown
          <6> QED BY <4>5, <6>1, <6>2
        <5> QED BY <3>3, <5>2, <5>3
      <4> QED BY <4>9, <4>10 DEF LatestInv
    <3>7. CASE Posting(child) /\ \A o \in 1 .. Len(objs) : IsAnswer(o) => objs[o].line # Line
      <4>1. child \in Object /\ objs' = Append(objs, child) BY <2>1, <3>7 DEF child, Posting
      <4>2. Grown /\ objs'[Len(objs) + 1] = child /\ \A o \in 1 .. Len(objs) : objs'[o] = objs[o]
        BY <1>0, <4>1, ObjsGrow
      <4>3. /\ \A o \in 1 .. Len(objs') : o \in 1 .. Len(objs) \/ o = new
            /\ new \in 1 .. Len(objs')
        BY <3>2, <4>2 DEF Grown
      <4>4. \A o \in 1 .. Len(objs) : (IsFirst(o)' <=> IsFirst(o)) /\ (IsAnswer(o)' <=> IsAnswer(o))
        BY <4>2, FirstStays
      <4>5. objs'[new].line = Line /\ IsAnswer(new)' BY <2>2, <2>4, <3>2, <4>2 DEF IsAnswer
      <4>6. IsFirst(new)'
        <5>1. 1 .. new - 1 = 1 .. Len(objs) BY <1>0, <3>2
        <5>2. \A p \in 1 .. Len(objs) : IsAnswer(p)' => objs'[p].line # Line
          BY <3>7, <4>2, <4>4
        <5> QED BY <4>5, <5>1, <5>2 DEF IsFirst
      <4>7. Holds(new, num)' BY <2>2, <3>2, <3>3, <4>2, <4>5 DEF Holds
      <4>8. ASSUME NEW g \in 1 .. Len(objs'), IsFirst(g)'
            PROVE  \E k \in 1 .. Len(log') : Holds(g, k)' /\ IsLast(k)'
        <5>1. CASE g = new BY <3>3, <3>4, <4>7, <5>1
        <5>2. CASE g \in 1 .. Len(objs)
          <6>1. IsFirst(g) BY <4>4, <4>8, <5>2
          <6>2. objs[g].line # Line BY <3>7, <5>2, <6>1 DEF IsFirst
          <6>3. PICK k \in 1 .. Len(log) : Holds(g, k) /\ IsLast(k) BY <1>2, <5>2, <6>1
          <6>4. Holds(g, k)' BY <3>1, <4>2, <5>2, <6>3 DEF Holds
          <6>5. IsLast(k)' BY <3>5, <6>2, <6>3 DEF Holds
          <6>6. k \in 1 .. Len(log') BY <3>1
          <6> QED BY <6>4, <6>5, <6>6
        <5> QED BY <4>3, <5>1, <5>2
      <4>9. ASSUME NEW k \in 1 .. Len(log'), ~ log'[k].set
            PROVE  \E g \in 1 .. Len(objs') : IsFirst(g)' /\ objs'[g].line = log'[k].line
        <5>1. CASE k = num BY <3>3, <4>3, <4>5, <4>6, <5>1
        <5>2. CASE k \in 1 .. Len(log)
          <6>1. PICK g \in 1 .. Len(objs) : IsFirst(g) /\ objs[g].line = log[k].line
            BY <1>2, <3>1, <4>9, <5>2
          <6>2. objs'[g].line = log'[k].line /\ g \in 1 .. Len(objs')
            BY <3>1, <4>2, <5>2, <6>1 DEF Grown
          <6> QED BY <4>4, <6>1, <6>2
        <5> QED BY <3>3, <5>1, <5>2
      <4> QED BY <4>8, <4>9 DEF LatestInv
    <3> QED BY <2>1, <2>4, <3>6, <3>7 DEF child
  <2> QED BY <2>3, <2>4
<1> QED BY <1>4, <1>5, <1>6, <1>7 DEF Next

-----------------------------------------------------------------------------
(* What is shown, and what is on its way. *)

\* The objects that get an item: with history all answers, otherwise the first ones.
Wanted(o) == IF job.history THEN objs[o].kind # "command" ELSE IsFirst(o)

AddedAt(n, o) == queue[n].ev = "ChildAdded" /\ queue[n].obj = o
UpdatedAt(n, o) == queue[n].ev = "ItemUpdated" /\ queue[n].obj = o

\* The item n of o shows the value of o, or that of a key set; or an update is coming.
Fresh(n, o) ==
  \/ \E m \in 1 .. Len(queue) : UpdatedAt(m, o)
  \/ view[n].val = objs[o].val
  \/ Stored(log, view[n].key, view[n].val)

\* The events about objects: new ones in their order; the last update has the value.
QueueInv ==
  /\ \A n, m \in 1 .. Len(queue), o, p \in 1 .. Len(objs) :
       n < m /\ AddedAt(n, o) /\ AddedAt(m, p) => o < p
  /\ \A n \in 1 .. Len(queue), o \in 1 .. Len(objs) :
       AddedAt(n, o) => Wanted(o) \/ objs[o].kind = "command"
  /\ \A n \in 1 .. Len(queue), o \in 1 .. Len(objs) :
       UpdatedAt(n, o) =>
         /\ Wanted(o)
         /\ queue[n].val = objs[o].val \/ \E m \in n + 1 .. Len(queue) : UpdatedAt(m, o)

\* The item n is what it should be.
Good(n, o) ==
  /\ Wanted(o) /\ view[n].under = Under(o)
  /\ view[n].under = Root => view[n].key = ItemKey(objs[o].line) /\ Fresh(n, o)

\* The items: in the order of their objects, before those on their way, and complete.
ViewInv ==
  /\ \A n, m \in 1 .. Len(view) : n < m => view[n].obj < view[m].obj
  /\ \A n \in 1 .. Len(view), m \in 1 .. Len(queue), o \in 1 .. Len(objs) :
       AddedAt(m, o) => view[n].obj < o
  /\ \A n \in 1 .. Len(view), o \in 1 .. Len(objs) : view[n].obj = o => Good(n, o)
  /\ \A o \in 1 .. Len(objs) :
       Wanted(o) => \/ \E n \in 1 .. Len(queue) : AddedAt(n, o)
                    \/ \E n \in 1 .. Len(view) : view[n].obj = o

ShownInv == ~ job.silence => QueueInv /\ ViewInv

\* A step of the driver: the view stays, objects and entries are only added.
Driven ==
  /\ job' = job /\ view' = view
  /\ objs' = objs \/ Grown
  /\ log' = log \/ \E g \in Given : log' = Append(log, g)

\* A wanted object is no command.
LEMMA WantedNoCommand ==
  ASSUME NEW o, Wanted(o)
  PROVE  objs[o].kind # "command"
BY DEF Wanted, IsFirst, IsAnswer

\* What a step of the driver leaves alone.
LEMMA DrivenKeeps ==
  ASSUME BaseInv, Driven, NEW o \in 1 .. Len(objs)
  PROVE  /\ Len(objs) \in Nat /\ Len(objs') \in Nat /\ o \in 1 .. Len(objs')
         /\ objs'[o].line = objs[o].line /\ objs'[o].kind = objs[o].kind
         /\ Wanted(o)' <=> Wanted(o)
         /\ Wanted(o) => Under(o)' = Under(o)
         /\ \A key, v : Stored(log, key, v) => Stored(log', key, v)
<1>0. TypeInv /\ TreeInv /\ Len(objs) \in Nat BY BaseParts
<1>1. \A key, v : Stored(log, key, v) => Stored(log', key, v) BY <1>0, StoredStays DEF Driven
<1>2. CASE objs' = objs
  <2>1. job' = job BY DEF Driven
  <2>2. Wanted(o)' <=> Wanted(o) BY <1>2, <2>1 DEF Wanted, IsFirst, IsAnswer
  <2>3. Under(o)' = Under(o) BY <1>2 DEF Under
  <2> QED BY <1>0, <1>1, <1>2, <2>2, <2>3
<1>3. CASE Grown
  <2>1. job' = job BY DEF Driven
  <2>2. /\ Len(objs') \in Nat /\ o \in 1 .. Len(objs')
        /\ objs'[o].line = objs[o].line /\ objs'[o].kind = objs[o].kind
        /\ objs'[o].parent = objs[o].parent
    BY <1>3 DEF Grown
  <2>3. Wanted(o)' <=> Wanted(o) BY <1>3, <2>1, <2>2, FirstStays DEF Wanted
  <2>4. ASSUME Wanted(o) PROVE Under(o)' = Under(o)
    <3>1. Hangs(o) /\ objs[o].kind # "command" BY <1>0, <2>4, WantedNoCommand DEF TreeInv
    <3>2. objs[o] \in Object BY <1>0 DEF TypeInv
    <3>3. objs[o].kind \in {"value", "array", "inner"} BY <3>1, <3>2 DEF Object
    <3>4. PICK p : p = objs[o].parent OBVIOUS
    <3>5. p \in 1 .. Len(objs) BY <1>0, <3>1, <3>3, <3>4 DEF Hangs
    <3>6. objs'[p].kind = objs[p].kind BY <1>3, <3>5 DEF Grown
    <3> QED BY <2>2, <3>4, <3>6 DEF Under
  <2> QED BY <1>0, <1>1, <2>2, <2>3, <2>4
<1> QED BY <1>2, <1>3 DEF Driven

\* The driver posts nothing about objects, and makes none that is wanted.
LEMMA ShownQuiet ==
  ASSUME BaseInv, QueueInv, ViewInv, Driven,
         \/ queue' = queue
         \/ \E e \in Event : /\ e.ev \notin {"ChildAdded", "ItemUpdated"}
                             /\ queue' = Append(queue, e),
         \A o \in 1 .. Len(objs) : objs'[o].val = objs[o].val,
         \A o \in 1 .. Len(objs') : o \in 1 .. Len(objs) \/ ~ Wanted(o)'
  PROVE  QueueInv' /\ ViewInv'
<1>0. TypeInv /\ Len(objs) \in Nat /\ Len(queue) \in Nat /\ view' = view /\ Len(view) \in Nat
  BY BaseParts DEF Driven, TypeInv
<1>1. \A o \in 1 .. Len(objs) :
        /\ o \in 1 .. Len(objs') /\ objs'[o].line = objs[o].line /\ objs'[o].kind = objs[o].kind
        /\ Wanted(o)' <=> Wanted(o)
        /\ Wanted(o) => Under(o)' = Under(o)
        /\ \A key, v : Stored(log, key, v) => Stored(log', key, v)
  BY DrivenKeeps
<1>2. /\ Len(queue') \in Nat
      /\ \A n \in 1 .. Len(queue) : n \in 1 .. Len(queue') /\ queue'[n] = queue[n]
      /\ \A n \in 1 .. Len(queue') :
           queue'[n].ev \in {"ChildAdded", "ItemUpdated"} => n \in 1 .. Len(queue)
  <2>1. CASE queue' = queue BY <1>0, <2>1
  <2>2. ASSUME NEW e \in Event, e.ev \notin {"ChildAdded", "ItemUpdated"},
               queue' = Append(queue, e)
        PROVE  /\ Len(queue') \in Nat
               /\ \A n \in 1 .. Len(queue) : n \in 1 .. Len(queue') /\ queue'[n] = queue[n]
               /\ \A n \in 1 .. Len(queue') :
                    queue'[n].ev \in {"ChildAdded", "ItemUpdated"} => n \in 1 .. Len(queue)
    <3>1. /\ Len(queue') = Len(queue) + 1 /\ queue'[Len(queue) + 1] = e
          /\ \A n \in 1 .. Len(queue) : queue'[n] = queue[n]
      BY <1>0, <2>2, QueueGrows
    <3> QED BY <1>0, <2>2, <3>1
  <2> QED BY <2>1, <2>2
<1>3. \A n \in 1 .. Len(queue') : \A o :
        AddedAt(n, o)' => n \in 1 .. Len(queue) /\ o \in 1 .. Len(objs) /\ AddedAt(n, o)
  BY <1>0, <1>2 DEF AddedAt, TypeInv
<1>4. \A n \in 1 .. Len(queue') : \A o :
        UpdatedAt(n, o)' => n \in 1 .. Len(queue) /\ o \in 1 .. Len(objs) /\ UpdatedAt(n, o)
  BY <1>0, <1>2 DEF UpdatedAt, TypeInv
<1>5. \A n \in 1 .. Len(queue) : \A o :
        /\ AddedAt(n, o) => AddedAt(n, o)'
        /\ UpdatedAt(n, o) => UpdatedAt(n, o)'
  BY <1>2 DEF AddedAt, UpdatedAt
<1>6. QueueInv'
  <2>1. \A n, m \in 1 .. Len(queue'), o, p \in 1 .. Len(objs') :
          n < m /\ AddedAt(n, o)' /\ AddedAt(m, p)' => o < p
    BY <1>3 DEF QueueInv
  <2>2. \A n \in 1 .. Len(queue'), o \in 1 .. Len(objs') :
          AddedAt(n, o)' => Wanted(o)' \/ objs'[o].kind = "command"
    BY <1>1, <1>3 DEF QueueInv
  <2>3. ASSUME NEW n \in 1 .. Len(queue'), NEW o \in 1 .. Len(objs'), UpdatedAt(n, o)'
        PROVE  /\ Wanted(o)'
               /\ \/ queue'[n].val = objs'[o].val
                  \/ \E m \in n + 1 .. Len(queue') : UpdatedAt(m, o)'
    <3>1. n \in 1 .. Len(queue) /\ o \in 1 .. Len(objs) /\ UpdatedAt(n, o) BY <1>4, <2>3
    <3>2. /\ Wanted(o)
          /\ queue[n].val = objs[o].val \/ \E m \in n + 1 .. Len(queue) : UpdatedAt(m, o)
      BY <3>1 DEF QueueInv
    <3>3. \A m \in n + 1 .. Len(queue) : m \in 1 .. Len(queue) /\ m \in n + 1 .. Len(queue')
      BY <1>0, <1>2, <3>1
    <3> QED BY <1>1, <1>2, <1>5, <3>1, <3>2, <3>3
  <2> QED BY <2>1, <2>2, <2>3 DEF QueueInv
<1>7. ViewInv'
  <2>1. \A n \in 1 .. Len(view), m \in 1 .. Len(queue'), o \in 1 .. Len(objs') :
          AddedAt(m, o)' => view[n].obj < o
    BY <1>3 DEF ViewInv
  <2>2. ASSUME NEW n \in 1 .. Len(view), NEW o \in 1 .. Len(objs'), view[n].obj = o
        PROVE  Good(n, o)'
    <3>1. o \in 1 .. Len(objs) BY <1>0, <2>2 DEF TypeInv
    <3>2. Good(n, o) BY <2>2, <3>1 DEF ViewInv
    <3>3. Fresh(n, o) => Fresh(n, o)' BY <1>0, <1>1, <1>2, <1>5, <3>1 DEF Fresh
    <3> QED BY <1>0, <1>1, <3>1, <3>2, <3>3 DEF Good
  <2>3. ASSUME NEW o \in 1 .. Len(objs'), Wanted(o)'
        PROVE  \/ \E n \in 1 .. Len(queue') : AddedAt(n, o)'
               \/ \E n \in 1 .. Len(view) : view[n].obj = o
    <3>1. o \in 1 .. Len(objs) /\ Wanted(o) BY <1>1, <2>3
    <3> QED BY <1>2, <1>5, <3>1 DEF ViewInv
  <2>4. \A n, m \in 1 .. Len(view) : n < m => view[n].obj < view[m].obj BY DEF ViewInv
  <2> QED BY <1>0, <2>1, <2>2, <2>3, <2>4 DEF ViewInv
<1> QED BY <1>6, <1>7

\* The driver makes an object and posts it.
LEMMA ShownAdded ==
  ASSUME BaseInv, QueueInv, ViewInv, Driven, Grown,
         NEW new, new = Len(objs) + 1, queue' = Append(queue, Added(new)),
         \A o \in 1 .. Len(objs) : objs'[o].val = objs[o].val,
         Wanted(new)' \/ objs'[new].kind = "command"
  PROVE  QueueInv' /\ ViewInv'
<1>0. /\ TypeInv /\ Len(objs) \in Nat /\ Len(queue) \in Nat /\ view' = view /\ Len(view) \in Nat
      /\ new \in Nat
  BY BaseParts DEF Driven, TypeInv
<1>1. \A o \in 1 .. Len(objs) :
        /\ o \in 1 .. Len(objs') /\ objs'[o].line = objs[o].line /\ objs'[o].kind = objs[o].kind
        /\ Wanted(o)' <=> Wanted(o)
        /\ Wanted(o) => Under(o)' = Under(o)
        /\ \A key, v : Stored(log, key, v) => Stored(log', key, v)
  BY DrivenKeeps
<1>2. new \in 1 .. Len(objs') /\ \A o \in 1 .. Len(objs') : o \in 1 .. Len(objs) \/ o = new
  BY <1>0 DEF Grown
<1>3. Added(new) \in Event /\ Added(new).ev = "ChildAdded" /\ Added(new).obj = new
  BY <1>0 DEF Added, Event
<1>4. PICK last : last = Len(queue) + 1 OBVIOUS
<1>5. /\ Len(queue') \in Nat /\ last \in 1 .. Len(queue')
      /\ queue'[last].ev = "ChildAdded" /\ queue'[last].obj = new
      /\ \A n \in 1 .. Len(queue) : n \in 1 .. Len(queue') /\ queue'[n] = queue[n] /\ n < last
      /\ \A n \in 1 .. Len(queue') : n \in 1 .. Len(queue) \/ n = last
      /\ Len(queue') = last
  <2>1. /\ Len(queue') = Len(queue) + 1 /\ queue'[Len(queue) + 1] = Added(new)
        /\ \A n \in 1 .. Len(queue) : queue'[n] = queue[n]
    BY <1>0, <1>3, QueueGrows
  <2> QED BY <1>0, <1>3, <1>4, <2>1
<1>6. \A n \in 1 .. Len(queue') : \A o :
        AddedAt(n, o)' => \/ n \in 1 .. Len(queue) /\ o \in 1 .. Len(objs) /\ AddedAt(n, o)
                          \/ n = last /\ o = new
  BY <1>0, <1>5 DEF AddedAt, TypeInv
<1>7. \A n \in 1 .. Len(queue') : \A o :
        UpdatedAt(n, o)' => n \in 1 .. Len(queue) /\ o \in 1 .. Len(objs) /\ UpdatedAt(n, o)
  BY <1>0, <1>5 DEF UpdatedAt, TypeInv
<1>8. /\ AddedAt(last, new)'
      /\ \A n \in 1 .. Len(queue) : \A o :
           /\ AddedAt(n, o) => AddedAt(n, o)'
           /\ UpdatedAt(n, o) => UpdatedAt(n, o)'
  BY <1>5 DEF AddedAt, UpdatedAt
<1>9. QueueInv'
  <2>1. ASSUME NEW n \in 1 .. Len(queue'), NEW m \in 1 .. Len(queue'),
               NEW o \in 1 .. Len(objs'), NEW p \in 1 .. Len(objs'),
               n < m, AddedAt(n, o)', AddedAt(m, p)'
        PROVE  o < p
    <3>1. n # last BY <1>5, <2>1
    <3>2. n \in 1 .. Len(queue) /\ o \in 1 .. Len(objs) /\ AddedAt(n, o) BY <1>6, <2>1, <3>1
    <3>3. CASE m = last /\ p = new BY <1>0, <3>2, <3>3
    <3>4. CASE m \in 1 .. Len(queue) /\ p \in 1 .. Len(objs) /\ AddedAt(m, p)
      BY <2>1, <3>2, <3>4 DEF QueueInv
    <3> QED BY <1>6, <2>1, <3>3, <3>4
  <2>2. \A n \in 1 .. Len(queue'), o \in 1 .. Len(objs') :
          AddedAt(n, o)' => Wanted(o)' \/ objs'[o].kind = "command"
    BY <1>1, <1>6 DEF QueueInv
  <2>3. ASSUME NEW n \in 1 .. Len(queue'), NEW o \in 1 .. Len(objs'), UpdatedAt(n, o)'
        PROVE  /\ Wanted(o)'
               /\ \/ queue'[n].val = objs'[o].val
                  \/ \E m \in n + 1 .. Len(queue') : UpdatedAt(m, o)'
    <3>1. n \in 1 .. Len(queue) /\ o \in 1 .. Len(objs) /\ UpdatedAt(n, o) BY <1>7, <2>3
    <3>2. /\ Wanted(o)
          /\ queue[n].val = objs[o].val \/ \E m \in n + 1 .. Len(queue) : UpdatedAt(m, o)
      BY <3>1 DEF QueueInv
    <3>3. \A m \in n + 1 .. Len(queue) : m \in 1 .. Len(queue) /\ m \in n + 1 .. Len(queue')
      BY <1>0, <1>4, <1>5, <3>1
    <3> QED BY <1>1, <1>5, <1>8, <3>1, <3>2, <3>3
  <2> QED BY <2>1, <2>2, <2>3 DEF QueueInv
<1>10. ViewInv'
  <2>1. ASSUME NEW n \in 1 .. Len(view), NEW m \in 1 .. Len(queue'), NEW o \in 1 .. Len(objs'),
               AddedAt(m, o)'
        PROVE  view[n].obj < o
    <3>1. view[n].obj \in 1 .. Len(objs) BY <1>0 DEF TypeInv
    <3>2. CASE o = new BY <1>0, <3>1, <3>2
    <3>3. CASE m \in 1 .. Len(queue) /\ o \in 1 .. Len(objs) /\ AddedAt(m, o)
      BY <3>3 DEF ViewInv
    <3> QED BY <1>6, <2>1, <3>2, <3>3
  <2>2. ASSUME NEW n \in 1 .. Len(view), NEW o \in 1 .. Len(objs'), view[n].obj = o
        PROVE  Good(n, o)'
    <3>1. o \in 1 .. Len(objs) BY <1>0, <2>2 DEF TypeInv
    <3>2. Good(n, o) BY <2>2, <3>1 DEF ViewInv
    <3>3. Fresh(n, o) => Fresh(n, o)' BY <1>0, <1>1, <1>5, <1>8, <3>1 DEF Fresh
    <3> QED BY <1>0, <1>1, <3>1, <3>2, <3>3 DEF Good
  <2>3. ASSUME NEW o \in 1 .. Len(objs'), Wanted(o)'
        PROVE  \/ \E n \in 1 .. Len(queue') : AddedAt(n, o)'
               \/ \E n \in 1 .. Len(view) : view[n].obj = o
    <3>1. CASE o = new BY <1>5, <1>8, <3>1
    <3>2. CASE o \in 1 .. Len(objs)
      <4>1. Wanted(o) BY <1>1, <2>3, <3>2
      <4> QED BY <1>5, <1>8, <3>2, <4>1 DEF ViewInv
    <3> QED BY <1>2, <3>1, <3>2
  <2>4. \A n, m \in 1 .. Len(view) : n < m => view[n].obj < view[m].obj BY DEF ViewInv
  <2> QED BY <1>0, <2>1, <2>2, <2>3, <2>4 DEF ViewInv
<1> QED BY <1>9, <1>10

\* The driver makes an object that is not wanted, and posts a new value of another.
LEMMA ShownUpdated ==
  ASSUME BaseInv, QueueInv, ViewInv, Driven, Grown,
         NEW f \in 1 .. Len(objs), Wanted(f), queue' = Append(queue, Updated(f, objs'[f].val)),
         objs'[f].val \in Seq(Nat),
         \A o \in 1 .. Len(objs) : o # f => objs'[o].val = objs[o].val,
         \A o \in 1 .. Len(objs') : o \in 1 .. Len(objs) \/ ~ Wanted(o)'
  PROVE  QueueInv' /\ ViewInv'
<1>0. TypeInv /\ Len(objs) \in Nat /\ Len(queue) \in Nat /\ view' = view /\ Len(view) \in Nat
  BY BaseParts DEF Driven, TypeInv
<1>1. \A o \in 1 .. Len(objs) :
        /\ o \in 1 .. Len(objs') /\ objs'[o].line = objs[o].line /\ objs'[o].kind = objs[o].kind
        /\ Wanted(o)' <=> Wanted(o)
        /\ Wanted(o) => Under(o)' = Under(o)
        /\ \A key, v : Stored(log, key, v) => Stored(log', key, v)
  BY DrivenKeeps
<1>2. PICK v \in Seq(Nat) : v = objs'[f].val OBVIOUS
<1>3. /\ Updated(f, v) \in Event /\ Updated(f, v).ev = "ItemUpdated" /\ Updated(f, v).obj = f
      /\ Updated(f, v).val = v
  BY <1>0 DEF Updated, Event
<1>4. PICK last : last = Len(queue) + 1 OBVIOUS
<1>5. /\ Len(queue') \in Nat /\ last \in 1 .. Len(queue') /\ Len(queue') = last
      /\ queue'[last].ev = "ItemUpdated" /\ queue'[last].obj = f /\ queue'[last].val = v
      /\ \A n \in 1 .. Len(queue) : n \in 1 .. Len(queue') /\ queue'[n] = queue[n] /\ n < last
      /\ \A n \in 1 .. Len(queue') : n \in 1 .. Len(queue) \/ n = last
  <2>1. /\ Len(queue') = Len(queue) + 1 /\ queue'[Len(queue) + 1] = Updated(f, v)
        /\ \A n \in 1 .. Len(queue) : queue'[n] = queue[n]
    BY <1>0, <1>2, <1>3, QueueGrows
  <2> QED BY <1>0, <1>3, <1>4, <2>1
<1>6. \A n \in 1 .. Len(queue') : \A o :
        AddedAt(n, o)' => n \in 1 .. Len(queue) /\ o \in 1 .. Len(objs) /\ AddedAt(n, o)
  BY <1>0, <1>5 DEF AddedAt, TypeInv
<1>7. \A n \in 1 .. Len(queue') : \A o :
        UpdatedAt(n, o)' => \/ n \in 1 .. Len(queue) /\ o \in 1 .. Len(objs) /\ UpdatedAt(n, o)
                            \/ n = last /\ o = f
  BY <1>0, <1>5 DEF UpdatedAt, TypeInv
<1>8. /\ UpdatedAt(last, f)'
      /\ \A n \in 1 .. Len(queue) : \A o :
           /\ AddedAt(n, o) => AddedAt(n, o)'
           /\ UpdatedAt(n, o) => UpdatedAt(n, o)'
  BY <1>5 DEF AddedAt, UpdatedAt
<1>9. QueueInv'
  <2>1. \A n, m \in 1 .. Len(queue'), o, p \in 1 .. Len(objs') :
          n < m /\ AddedAt(n, o)' /\ AddedAt(m, p)' => o < p
    BY <1>6 DEF QueueInv
  <2>2. \A n \in 1 .. Len(queue'), o \in 1 .. Len(objs') :
          AddedAt(n, o)' => Wanted(o)' \/ objs'[o].kind = "command"
    BY <1>1, <1>6 DEF QueueInv
  <2>3. ASSUME NEW n \in 1 .. Len(queue'), NEW o \in 1 .. Len(objs'), UpdatedAt(n, o)'
        PROVE  /\ Wanted(o)'
               /\ \/ queue'[n].val = objs'[o].val
                  \/ \E m \in n + 1 .. Len(queue') : UpdatedAt(m, o)'
    <3>1. CASE n = last /\ o = f BY <1>1, <1>2, <1>5, <3>1
    <3>2. CASE n \in 1 .. Len(queue) /\ o \in 1 .. Len(objs) /\ UpdatedAt(n, o)
      <4>1. /\ Wanted(o)
            /\ queue[n].val = objs[o].val \/ \E m \in n + 1 .. Len(queue) : UpdatedAt(m, o)
        BY <3>2 DEF QueueInv
      <4>2. \A m \in n + 1 .. Len(queue) : m \in 1 .. Len(queue) /\ m \in n + 1 .. Len(queue')
        BY <1>0, <1>4, <1>5, <3>2
      <4>3. last \in n + 1 .. Len(queue') BY <1>0, <1>4, <1>5, <3>2
      <4>4. CASE o = f BY <1>1, <1>8, <4>3, <4>4
      <4>5. CASE o # f BY <1>1, <1>5, <1>8, <3>2, <4>1, <4>2, <4>5
      <4> QED BY <4>4, <4>5
    <3> QED BY <1>7, <2>3, <3>1, <3>2
  <2> QED BY <2>1, <2>2, <2>3 DEF QueueInv
<1>10. ViewInv'
  <2>1. \A n \in 1 .. Len(view), m \in 1 .. Len(queue'), o \in 1 .. Len(objs') :
          AddedAt(m, o)' => view[n].obj < o
    BY <1>6 DEF ViewInv
  <2>2. ASSUME NEW n \in 1 .. Len(view), NEW o \in 1 .. Len(objs'), view[n].obj = o
        PROVE  Good(n, o)'
    <3>1. o \in 1 .. Len(objs) BY <1>0, <2>2 DEF TypeInv
    <3>2. Good(n, o) BY <2>2, <3>1 DEF ViewInv
    <3>3. Fresh(n, o) => Fresh(n, o)'
      <4>1. CASE o = f BY <1>5, <1>8, <4>1 DEF Fresh
      <4>2. CASE o # f BY <1>0, <1>1, <1>5, <1>8, <3>1, <4>2 DEF Fresh
      <4> QED BY <4>1, <4>2
    <3> QED BY <1>0, <1>1, <3>1, <3>2, <3>3 DEF Good
  <2>3. ASSUME NEW o \in 1 .. Len(objs'), Wanted(o)'
        PROVE  \/ \E n \in 1 .. Len(queue') : AddedAt(n, o)'
               \/ \E n \in 1 .. Len(view) : view[n].obj = o
    <3>1. o \in 1 .. Len(objs) /\ Wanted(o) BY <1>1, <2>3
    <3> QED BY <1>5, <1>8, <3>1 DEF ViewInv
  <2>4. \A n, m \in 1 .. Len(view) : n < m => view[n].obj < view[m].obj BY DEF ViewInv
  <2> QED BY <1>0, <2>1, <2>2, <2>3, <2>4 DEF ViewInv
<1> QED BY <1>9, <1>10

\* Delivering an event keeps what is shown and what is on its way.
LEMMA ShownDelivered ==
  ASSUME BaseInv, LogInv, RootInv, QueueInv, ViewInv, ~ job.silence, Deliver
  PROVE  QueueInv' /\ ViewInv'
<1>0. TypeInv /\ TreeInv /\ Len(objs) \in Nat /\ Len(view) \in Nat BY BaseParts DEF TypeInv
<1>1. /\ Len(queue) \in Nat \ {0} /\ Len(queue') = Len(queue) - 1
      /\ \A n \in 1 .. Len(queue') : queue'[n] = queue[n + 1]
      /\ UNCHANGED <<job, pc, objs, log>>
  BY <1>0, DeliverStep DEF driver
<1>2. \A o : (Wanted(o)' <=> Wanted(o)) /\ Under(o)' = Under(o)
  BY <1>1 DEF Wanted, Under, IsFirst, IsAnswer
<1>3. \A n \in 1 .. Len(queue') :
        /\ n + 1 \in 1 .. Len(queue)
        /\ \A o : (AddedAt(n, o)' <=> AddedAt(n + 1, o)) /\ (UpdatedAt(n, o)' <=> UpdatedAt(n + 1, o))
  BY <1>1 DEF AddedAt, UpdatedAt
<1>4. \A n \in 1 .. Len(queue) : n # 1 => n - 1 \in 1 .. Len(queue') /\ n = (n - 1) + 1
  BY <1>1
<1>5. \A n \in 1 .. Len(queue) : n # 1 =>
        \A o : /\ AddedAt(n, o) => \E m \in 1 .. Len(queue') : AddedAt(m, o)'
               /\ UpdatedAt(n, o) => \E m \in 1 .. Len(queue') : UpdatedAt(m, o)'
  BY <1>3, <1>4
<1>6. QueueInv'
  <2>1. \A n, m \in 1 .. Len(queue'), o, p \in 1 .. Len(objs) :
          n < m /\ AddedAt(n, o)' /\ AddedAt(m, p)' => o < p
    BY <1>3 DEF QueueInv
  <2>2. \A n \in 1 .. Len(queue'), o \in 1 .. Len(objs) :
          AddedAt(n, o)' => Wanted(o)' \/ objs[o].kind = "command"
    BY <1>2, <1>3 DEF QueueInv
  <2>3. ASSUME NEW n \in 1 .. Len(queue'), NEW o \in 1 .. Len(objs), UpdatedAt(n, o)'
        PROVE  /\ Wanted(o)'
               /\ \/ queue'[n].val = objs[o].val
                  \/ \E m \in n + 1 .. Len(queue') : UpdatedAt(m, o)'
    <3>1. n + 1 \in 1 .. Len(queue) /\ UpdatedAt(n + 1, o) BY <1>3, <2>3
    <3>2. /\ Wanted(o)
          /\ \/ queue[n + 1].val = objs[o].val
             \/ \E m \in (n + 1) + 1 .. Len(queue) : UpdatedAt(m, o)
      BY <3>1 DEF QueueInv
    <3>3. CASE queue[n + 1].val = objs[o].val BY <1>1, <1>2, <3>2, <3>3
    <3>4. ASSUME NEW m \in (n + 1) + 1 .. Len(queue), UpdatedAt(m, o)
          PROVE  \E k \in n + 1 .. Len(queue') : UpdatedAt(k, o)'
      <4>1. PICK k : k = m - 1 OBVIOUS
      <4>2. k \in 1 .. Len(queue') /\ k \in n + 1 .. Len(queue') /\ k + 1 = m
        BY <1>1, <3>4, <4>1
      <4>3. UpdatedAt(k, o)' BY <1>3, <3>4, <4>2
      <4> QED BY <4>2, <4>3
    <3> QED BY <1>2, <3>2, <3>3, <3>4
  <2> QED BY <1>1, <2>1, <2>2, <2>3 DEF QueueInv
<1>7. /\ \A n, m \in 1 .. Len(view) : n < m => view[n].obj < view[m].obj
      /\ \A n \in 1 .. Len(view), m \in 1 .. Len(queue), o \in 1 .. Len(objs) :
           AddedAt(m, o) => view[n].obj < o
      /\ \A n \in 1 .. Len(view), o \in 1 .. Len(objs) : view[n].obj = o => Good(n, o)
      /\ \A o \in 1 .. Len(objs) :
           Wanted(o) => \/ \E n \in 1 .. Len(queue) : AddedAt(n, o)
                        \/ \E n \in 1 .. Len(view) : view[n].obj = o
  BY DEF ViewInv
<1>8. ASSUME NEW n \in 1 .. Len(view), n \in 1 .. Len(view'), view'[n] = view[n],
             NEW o \in 1 .. Len(objs), view[n].obj = o, ~ UpdatedAt(1, o)
      PROVE  Good(n, o)'
  <2>1. Good(n, o) BY <1>7, <1>8
  <2>2. Fresh(n, o) => Fresh(n, o)' BY <1>1, <1>5, <1>8 DEF Fresh
  <2> QED BY <1>1, <1>2, <1>8, <2>1, <2>2 DEF Good
<1>9. \A o \in 1 .. Len(objs), m \in 1 .. Len(queue'), n \in 1 .. Len(view) :
        AddedAt(m, o)' => view[n].obj < o
  BY <1>3, <1>7
<1>10. ASSUME view' = view, queue[1].ev \notin {"ChildAdded", "ItemUpdated"} PROVE ViewInv'
  <2>1. \A o : ~ AddedAt(1, o) /\ ~ UpdatedAt(1, o) BY <1>10 DEF AddedAt, UpdatedAt
  <2>2. \A n \in 1 .. Len(view), o \in 1 .. Len(objs) : view[n].obj = o => Good(n, o)'
    BY <1>8, <1>10, <2>1
  <2>3. \A o \in 1 .. Len(objs) :
          Wanted(o)' => \/ \E n \in 1 .. Len(queue') : AddedAt(n, o)'
                        \/ \E n \in 1 .. Len(view) : view[n].obj = o
    BY <1>2, <1>5, <1>7, <2>1
  <2> QED BY <1>1, <1>7, <1>9, <1>10, <2>2, <2>3 DEF ViewInv
<1>11. CASE queue[1].ev = "RootCreated" /\ view' = <<>>
  <2>1. ~ rooted BY <1>1, <1>11 DEF RootInv
  <2>2. Len(view) = 0 /\ view \in Seq(Shown) BY <1>0, <2>1 DEF RootInv, TypeInv
  <2>3. view' = view BY <1>11, <2>2, EmptySeq
  <2> QED BY <1>6, <1>10, <1>11, <2>3
<1>12. CASE queue[1].ev = "RootCompleated" /\ view' = view BY <1>6, <1>10, <1>12
<1>13. CASE queue[1].ev = "ChildAdded" /\ queue[1].obj \in 1 .. Len(objs) /\ AddChild(queue[1].obj)
  <2>1. PICK a \in 1 .. Len(objs) : a = queue[1].obj BY <1>13
  <2>2. /\ AddedAt(1, a) /\ AddChild(a) /\ Hangs(a) /\ 1 \in 1 .. Len(queue)
        /\ \A o : (AddedAt(1, o) => o = a) /\ ~ UpdatedAt(1, o)
    BY <1>0, <1>1, <1>13, <2>1 DEF AddedAt, UpdatedAt, TreeInv
  <2>3. Wanted(a) \/ objs[a].kind = "command" BY <2>2 DEF QueueInv
  <2>4. CASE objs[a].kind = "command"
    <3>1. view' = view BY <1>0, <2>2, <2>4, AddChildCases
    <3>2. ~ Wanted(a) BY <2>4, WantedNoCommand
    <3>3. \A n \in 1 .. Len(view), o \in 1 .. Len(objs) : view[n].obj = o => Good(n, o)'
      BY <1>8, <2>2, <3>1
    <3>4. \A o \in 1 .. Len(objs) :
            Wanted(o)' => \/ \E n \in 1 .. Len(queue') : AddedAt(n, o)'
                          \/ \E n \in 1 .. Len(view) : view[n].obj = o
      BY <1>2, <1>5, <1>7, <2>2, <3>2
    <3>5. ViewInv' BY <1>1, <1>7, <1>9, <3>1, <3>3, <3>4 DEF ViewInv
    <3> QED BY <1>6, <3>5
  <2>5. CASE Wanted(a)
    <3>1. objs[a].kind # "command" BY <2>5, WantedNoCommand
    <3>2. rooted BY <1>1, <1>13 DEF RootInv
    <3>3. Under(a) \in Nat BY <1>0, <2>2, <3>1, AddChildCases
    <3>4. Under(a) = Root \/ \E n \in 1 .. Len(view) : view[n].obj = Under(a)
      <4> SUFFICES ASSUME Under(a) # Root PROVE \E n \in 1 .. Len(view) : view[n].obj = Under(a)
        OBVIOUS
      <4>1. PICK p : p = objs[a].parent OBVIOUS
      <4>2. Under(a) = p /\ objs[p].kind # "command" BY <4>1 DEF Under
      <4>3. objs[a] \in Object BY <1>0 DEF TypeInv
      <4>4. objs[a].kind \in {"value", "array", "inner"} BY <3>1, <4>3 DEF Object
      <4>5. objs[a].kind = "inner" /\ p \in 1 .. a - 1 BY <2>2, <4>1, <4>2, <4>4 DEF Hangs
      <4>6. job.history BY <2>5, <4>5 DEF Wanted, IsFirst, IsAnswer
      <4>7. p \in 1 .. Len(objs) /\ p < a BY <1>0, <4>5
      <4>8. Wanted(p) BY <4>2, <4>6 DEF Wanted
      <4>9. ASSUME NEW n \in 1 .. Len(queue), AddedAt(n, p) PROVE FALSE
        <5>1. CASE n = 1 BY <2>2, <4>7, <4>9, <5>1
        <5>2. CASE n # 1
          <6>1. 1 < n BY <1>1, <5>2
          <6>2. a < p BY <2>2, <4>7, <4>9, <6>1 DEF QueueInv
          <6> QED BY <1>0, <4>7, <6>2
        <5> QED BY <5>1, <5>2
      <4> QED BY <1>7, <4>2, <4>7, <4>8, <4>9
    <3>5. PICK it : it = Item(a, Under(a)) OBVIOUS
    <3>6. PICK last : last = Len(view) + 1 OBVIOUS
    <3>7. /\ Len(view') = last /\ view'[last] = it
          /\ \A n \in 1 .. Len(view) : view'[n] = view[n]
      BY <1>0, <2>2, <3>1, <3>2, <3>4, <3>5, <3>6, AddChildCases
    <3>8. /\ it.obj = a /\ it.under = Under(a) /\ it.val = objs[a].val
          /\ Under(a) = Root => it.key = ItemKey(objs[a].line)
      BY <1>0, <3>3, <3>5, ItemType
    <3>9. /\ \A n \in 1 .. Len(view') : n \in 1 .. Len(view) \/ n = last
          /\ \A n \in 1 .. Len(view) : n \in 1 .. Len(view')
          /\ last \in 1 .. Len(view')
      BY <1>0, <3>6, <3>7
    <3>10. \A n \in 1 .. Len(view) : view[n].obj < a BY <1>7, <2>2
    <3>11. ASSUME NEW n \in 1 .. Len(view'), NEW m \in 1 .. Len(view'), n < m
           PROVE  view'[n].obj < view'[m].obj
      <4>1. n \in 1 .. Len(view) BY <1>0, <3>6, <3>7, <3>11
      <4>2. CASE m = last BY <3>7, <3>8, <3>10, <4>1, <4>2
      <4>3. CASE m \in 1 .. Len(view) BY <1>7, <3>7, <3>11, <4>1, <4>3
      <4> QED BY <3>9, <4>2, <4>3
    <3>12. ASSUME NEW n \in 1 .. Len(view'), NEW m \in 1 .. Len(queue'), NEW o \in 1 .. Len(objs),
                  AddedAt(m, o)'
           PROVE  view'[n].obj < o
      <4>1. CASE n \in 1 .. Len(view) BY <1>9, <3>7, <3>12, <4>1
      <4>2. CASE n = last
        <5>1. m + 1 \in 1 .. Len(queue) /\ AddedAt(m + 1, o) /\ 1 < m + 1 BY <1>1, <1>3, <3>12
        <5>2. a < o BY <2>2, <5>1 DEF QueueInv
        <5> QED BY <3>7, <3>8, <4>2, <5>2
      <4> QED BY <3>9, <4>1, <4>2
    <3>13. ASSUME NEW n \in 1 .. Len(view'), NEW o \in 1 .. Len(objs), view'[n].obj = o
           PROVE  Good(n, o)'
      <4>1. CASE n \in 1 .. Len(view) BY <1>8, <2>2, <3>7, <3>13, <4>1
      <4>2. CASE n = last
        <5>1. o = a /\ view'[n] = it BY <3>7, <3>8, <3>13, <4>2
        <5>2. view'[n].val = objs'[o].val BY <1>1, <3>8, <5>1
        <5>3. Fresh(n, o)' BY <5>2 DEF Fresh
        <5> QED BY <1>1, <1>2, <2>5, <3>8, <5>1, <5>3 DEF Good
      <4> QED BY <3>9, <4>1, <4>2
    <3>14. ASSUME NEW o \in 1 .. Len(objs), Wanted(o)'
           PROVE  \/ \E n \in 1 .. Len(queue') : AddedAt(n, o)'
                  \/ \E n \in 1 .. Len(view') : view'[n].obj = o
      <4>1. Wanted(o) BY <1>2, <3>14
      <4>2. CASE o = a BY <3>7, <3>8, <3>9, <4>2
      <4>3. CASE o # a
        <5>1. \/ \E n \in 1 .. Len(queue) : AddedAt(n, o) /\ n # 1
              \/ \E n \in 1 .. Len(view) : view[n].obj = o
          BY <1>7, <2>2, <4>1, <4>3
        <5> QED BY <1>5, <3>7, <3>9, <5>1
      <4> QED BY <4>2, <4>3
    <3>15. ViewInv' BY <1>1, <3>11, <3>12, <3>13, <3>14 DEF ViewInv
    <3> QED BY <1>6, <3>15
  <2> QED BY <2>3, <2>4, <2>5
<1>14. ASSUME NEW v, Revalued(v), \A o : ~ AddedAt(1, o),
              \A n \in 1 .. Len(view), o \in 1 .. Len(objs) :
                view[n].obj = o /\ view[n].under = Root /\ Good(n, o) => Fresh(n, o)'
       PROVE  ViewInv'
  <2>1. /\ Len(view') = Len(view)
        /\ \A n \in 1 .. Len(view) :
             /\ view'[n].obj = view[n].obj /\ view'[n].under = view[n].under
             /\ view'[n].key = view[n].key
    BY <1>14 DEF Revalued
  <2>2. ASSUME NEW n \in 1 .. Len(view), NEW o \in 1 .. Len(objs), view[n].obj = o
        PROVE  Good(n, o)'
    <3>1. Good(n, o) BY <1>7, <2>2
    <3> QED BY <1>1, <1>2, <1>14, <2>1, <2>2, <3>1 DEF Good
  <2>3. \A o \in 1 .. Len(objs) :
          Wanted(o)' => \/ \E n \in 1 .. Len(queue') : AddedAt(n, o)'
                        \/ \E n \in 1 .. Len(view) : view[n].obj = o
    BY <1>2, <1>5, <1>7, <1>14
  <2> QED BY <1>1, <1>7, <1>9, <2>1, <2>2, <2>3 DEF ViewInv
<1>15. CASE /\ queue[1].ev = "ItemUpdated" /\ queue[1].obj \in 1 .. Len(objs)
            /\ queue[1].val \in Seq(Nat) /\ UpdateItem(queue[1].obj, queue[1].val)
  <2>1. PICK a \in 1 .. Len(objs), v \in Seq(Nat) : a = queue[1].obj /\ v = queue[1].val
    BY <1>15
  <2>2. /\ UpdatedAt(1, a) /\ UpdateItem(a, v) /\ 1 \in 1 .. Len(queue)
        /\ \A o : ~ AddedAt(1, o) /\ (UpdatedAt(1, o) => o = a)
    BY <1>1, <1>15, <2>1 DEF AddedAt, UpdatedAt
  <2>3. /\ Revalued(v)
        /\ \A n \in 1 .. Len(view) : view'[n].val = IF view[n].obj = a THEN v ELSE view[n].val
    BY <1>0, <2>2, UpdateItemCases
  <2>4. v = objs[a].val \/ \E m \in 2 .. Len(queue) : UpdatedAt(m, a)
    BY <2>1, <2>2 DEF QueueInv
  <2>5. ASSUME NEW n \in 1 .. Len(view), NEW o \in 1 .. Len(objs), view[n].obj = o,
               view[n].under = Root, Good(n, o)
        PROVE  Fresh(n, o)'
    <3>1. CASE o = a
      <4>1. CASE v = objs[a].val BY <1>1, <2>3, <2>5, <3>1, <4>1 DEF Fresh
      <4>2. ASSUME NEW m \in 2 .. Len(queue), UpdatedAt(m, a) PROVE Fresh(n, o)'
        <5>1. m \in 1 .. Len(queue) /\ m # 1 BY <1>1
        <5> QED BY <1>5, <3>1, <4>2, <5>1 DEF Fresh
      <4> QED BY <2>4, <4>1, <4>2
    <3>2. CASE o # a
      <4>1. Fresh(n, o) BY <2>5 DEF Good
      <4>2. view'[n].val = view[n].val /\ view'[n].key = view[n].key
        BY <2>3, <2>5, <3>2 DEF Revalued
      <4>3. ~ UpdatedAt(1, o) BY <2>2, <3>2
      <4> QED BY <1>1, <1>5, <4>1, <4>2, <4>3 DEF Fresh
    <3> QED BY <3>1, <3>2
  <2>6. ViewInv' BY <1>14, <2>2, <2>3, <2>5
  <2> QED BY <1>6, <2>6
<1>16. CASE /\ queue[1].ev = "KeyAdded" /\ queue[1].val \in Seq(Nat)
            /\ ChangeValue(queue[1].key, queue[1].val)
  <2>0. PICK key : key = queue[1].key OBVIOUS
  <2>1. PICK v \in Seq(Nat) : v = queue[1].val BY <1>16
  <2>2. Stored(log, key, v) BY <1>1, <1>16, <2>0, <2>1 DEF LogInv
  <2>3. \A o : ~ AddedAt(1, o) /\ ~ UpdatedAt(1, o) BY <1>16 DEF AddedAt, UpdatedAt
  <2>4. /\ Revalued(v)
        /\ \A n \in 1 .. Len(view) :
             \/ view'[n].val = view[n].val
             \/ view'[n].val = v /\ view[n].under = Root /\ view[n].key = key
    BY <1>0, <1>16, <2>0, <2>1, ChangeValueCases
  <2>5. ASSUME NEW n \in 1 .. Len(view), NEW o \in 1 .. Len(objs), view[n].obj = o,
               view[n].under = Root, Good(n, o)
        PROVE  Fresh(n, o)'
    <3>1. view'[n].key = view[n].key BY <2>4 DEF Revalued
    <3>2. CASE view'[n].val = v /\ view[n].key = key BY <1>1, <2>2, <3>1, <3>2 DEF Fresh
    <3>3. CASE view'[n].val = view[n].val
      <4>1. Fresh(n, o) BY <2>5 DEF Good
      <4> QED BY <1>1, <1>5, <2>3, <3>1, <3>3, <4>1 DEF Fresh
    <3> QED BY <2>4, <3>2, <3>3
  <2>6. ViewInv' BY <1>14, <2>3, <2>4, <2>5
  <2> QED BY <1>6, <2>6
<1> QED BY <1>0, <1>11, <1>12, <1>13, <1>15, <1>16, DeliverCases

\* Nothing is shown at the beginning.
LEMMA InitShown == Init => ShownInv
<1> SUFFICES ASSUME Init PROVE QueueInv /\ ViewInv BY DEF ShownInv
<1>1. Len(objs) = 0 /\ Len(queue) = 0 /\ Len(view) = 0 BY DEF Init
<1> QED BY <1>1 DEF QueueInv, ViewInv

\* Every step keeps what is shown and what is on its way.
LEMMA NextShown ==
  BaseInv /\ LogInv /\ RootInv /\ RepliedInv /\ WatchedInv /\ ShownInv /\ [Next]_vars => ShownInv'
<1> SUFFICES ASSUME BaseInv, LogInv, RootInv, RepliedInv, WatchedInv, ShownInv, [Next]_vars,
                    ~ job'.silence
             PROVE  QueueInv' /\ ViewInv'
  BY DEF ShownInv
<1>0. /\ TypeInv /\ ControlInv /\ job \in Jobs /\ Len(objs) \in Nat /\ job' = job
  BY BaseParts, JobStays
<1>1. ~ job.silence /\ QueueInv /\ ViewInv BY <1>0 DEF ShownInv
<1>2. ASSUME objs' = objs, view' = view,
             log' = log \/ \E g \in Given : log' = Append(log, g),
             \/ queue' = queue
             \/ \E e \in Event : /\ e.ev \notin {"ChildAdded", "ItemUpdated"}
                                 /\ queue' = Append(queue, e)
      PROVE  QueueInv' /\ ViewInv'
  <2>1. Driven BY <1>0, <1>2 DEF Driven
  <2>2. /\ \A o \in 1 .. Len(objs) : objs'[o].val = objs[o].val
        /\ \A o \in 1 .. Len(objs') : o \in 1 .. Len(objs) \/ ~ Wanted(o)'
    BY <1>2
  <2> QED BY <1>1, <1>2, <2>1, <2>2, ShownQuiet
<1>3. CASE Start \/ Reply
  <2>1. /\ objs' = objs /\ view' = view /\ log' = log
        /\ \/ queue' = queue \/ queue' = Append(queue, [ev |-> "RootCreated"])
           \/ queue' = Append(queue, [ev |-> "RootCompleated"])
    BY <1>3 DEF Start, Reply
  <2>2. /\ [ev |-> "RootCreated"] \in Event /\ [ev |-> "RootCreated"].ev = "RootCreated"
        /\ [ev |-> "RootCompleated"] \in Event
        /\ [ev |-> "RootCompleated"].ev = "RootCompleated"
    BY DEF Event
  <2> QED BY <1>2, <2>1, <2>2
<1>4. CASE Returned \/ Interrupted
  BY <1>2, <1>4 DEF Returned, Interrupted
<1>5. CASE Idle \/ UNCHANGED vars
  BY <1>2, <1>5 DEF Idle, vars
<1>6. CASE KeyAdded
  <2>1. /\ objs' = objs /\ view' = view /\ SetOf \in Given /\ log' = Append(log, SetOf)
        /\ \E e \in Event : e.ev = "KeyAdded" /\ queue' = Append(queue, e)
    BY <1>6, KeyAddedStep
  <2> QED BY <1>2, <2>1
<1>7. CASE Deliver BY <1>1, <1>7, ShownDelivered
<1>8. PICK new : new = Len(objs) + 1 OBVIOUS
<1>9. ASSUME NEW child \in Object, view' = view, objs' = Append(objs, child),
             log' = log \/ \E g \in Given : log' = Append(log, g),
             \/ queue' = queue /\ ~ Wanted(new)'
             \/ queue' = Append(queue, Added(new)) /\ (Wanted(new)' \/ child.kind = "command")
      PROVE  QueueInv' /\ ViewInv'
  <2>1. /\ Grown /\ objs'[new] = child /\ \A o \in 1 .. Len(objs) : objs'[o] = objs[o]
    BY <1>0, <1>8, <1>9, ObjsGrow
  <2>2. Driven BY <1>0, <1>9, <2>1 DEF Driven
  <2>3. \A o \in 1 .. Len(objs') : o \in 1 .. Len(objs) \/ o = new BY <1>8, <2>1 DEF Grown
  <2>4. \A o \in 1 .. Len(objs) : objs'[o].val = objs[o].val BY <2>1
  <2>5. CASE queue' = queue /\ ~ Wanted(new)'
    <3>1. \A o \in 1 .. Len(objs') : o \in 1 .. Len(objs) \/ ~ Wanted(o)' BY <2>3, <2>5
    <3> QED BY <1>1, <2>2, <2>4, <2>5, <3>1, ShownQuiet
  <2>6. CASE queue' = Append(queue, Added(new)) /\ (Wanted(new)' \/ child.kind = "command")
    <3>1. Wanted(new)' \/ objs'[new].kind = "command" BY <2>1, <2>6
    <3> QED BY <1>1, <1>8, <2>1, <2>2, <2>4, <2>6, <3>1, ShownAdded
  <2> QED BY <1>9, <2>5, <2>6
<1>10. ASSUME NEW child \in Object, objs' = Append(objs, child) PROVE objs'[new] = child
  BY <1>0, <1>8, <1>10, ObjsGrow
<1>11. CASE Command
  <2> DEFINE child == CommandOf(Line)
  <2>1. child \in Object /\ AddChildren(child) /\ log' = log /\ view' = view
    BY <1>0, <1>11, CommandStep
  <2>2. child.kind = "command" BY DEF CommandOf
  <2> HIDE DEF child
  <2>3. Quietly(child) \/ Posting(child) \/ Watching(child) BY <1>0, <1>1, <2>1, <2>2, AddCases
  <2>4. /\ objs' = Append(objs, child)
        /\ queue' = queue \/ queue' = Append(queue, Added(new))
    BY <1>8, <2>3 DEF Quietly, Posting, Watching
  <2>5. ~ Wanted(new)'
    <3>1. objs'[new].kind = "command" BY <1>10, <2>1, <2>2, <2>4
    <3> QED BY <3>1 DEF Wanted, IsFirst, IsAnswer
  <2> QED BY <1>9, <2>1, <2>2, <2>4, <2>5
<1>12. CASE Answer
  <2>1. view' = view /\ Line \in Seq(STRING) BY <1>12, AnswerStep
  <2>2. log' = log \/ \E g \in Given : log' = Append(log, g)
    BY <1>12, LogSteps
  <2>3. CASE job.history
    <3>1. PICK c \in 1 .. Len(objs) : AnswerOf(c) \in Object /\ AddChildren(AnswerOf(c))
      BY <1>12, AnswerStep
    <3> DEFINE child == AnswerOf(c)
    <3>2. child.kind \in {"value", "array", "inner"} BY <1>12, AnswerObject
    <3> HIDE DEF child
    <3>3. child \in Object /\ AddChildren(child) BY <3>1 DEF child
    <3>4. objs' = Append(objs, child) /\ queue' = Append(queue, Added(new))
      BY <1>0, <1>1, <1>8, <2>3, <3>3, HistoryAdds DEF Posting
    <3>5. objs'[new].kind # "command" BY <1>10, <3>2, <3>3, <3>4
    <3>6. Wanted(new)' BY <1>0, <2>3, <3>5 DEF Wanted
    <3> QED BY <1>9, <2>1, <2>2, <3>3, <3>4, <3>6
  <2>4. CASE ~ job.history
    <3>1. Watches BY <1>1, <2>4 DEF Watches
    <3>2. PICK c \in 1 .. Len(objs) :
            /\ Current(c) /\ AnswerOf(c) \in Object /\ AddChildren(AnswerOf(c))
            /\ \/ Head(answers) = "inner" /\ Quietly(AnswerOf(c))
               \/ /\ Head(answers) # "inner" /\ Posting(AnswerOf(c))
                  /\ \A o \in 1 .. Len(objs) : IsAnswer(o) => objs[o].line # Line
               \/ /\ Head(answers) # "inner"
                  /\ \E f \in 1 .. Len(objs) :
                       Updating(AnswerOf(c), f) /\ IsFirst(f) /\ objs[f].line = Line
      BY <1>12, <3>1, WatchAnswers
    <3> DEFINE child == AnswerOf(c)
    <3>3. /\ child.kind = Head(answers) /\ child.line = Line
          /\ child.kind \in {"value", "array", "inner"}
      BY <1>12, AnswerObject
    <3> HIDE DEF child
    <3>4. child \in Object /\ AddChildren(child) BY <3>2 DEF child
    <3>5. CASE Head(answers) = "inner" /\ Quietly(child)
      <4>1. objs' = Append(objs, child) /\ queue' = queue BY <3>5 DEF Quietly
      <4>2. objs'[new].kind = "inner" BY <1>10, <3>3, <3>4, <3>5, <4>1
      <4>3. ~ Wanted(new)' BY <1>0, <2>4, <4>2 DEF Wanted, IsFirst, IsAnswer
      <4> QED BY <1>9, <2>1, <2>2, <3>4, <4>1, <4>3
    <3>6. CASE /\ Head(answers) # "inner" /\ Posting(child)
               /\ \A o \in 1 .. Len(objs) : IsAnswer(o) => objs[o].line # Line
      <4>1. objs' = Append(objs, child) /\ queue' = Append(queue, Added(new))
        BY <1>8, <3>6 DEF Posting
      <4>2. /\ Grown /\ objs'[new] = child /\ \A o \in 1 .. Len(objs) : objs'[o] = objs[o]
        BY <1>0, <1>8, <3>4, <4>1, ObjsGrow
      <4>3. \A o \in 1 .. Len(objs) : IsAnswer(o)' => objs'[o].line # Line
        BY <3>6, <4>2, FirstStays
      <4>4. 1 .. new - 1 = 1 .. Len(objs) BY <1>0, <1>8
      <4>5. IsAnswer(new)' /\ objs'[new].line = Line BY <3>3, <3>6, <4>2 DEF IsAnswer
      <4>6. IsFirst(new)' BY <4>3, <4>4, <4>5 DEF IsFirst
      <4>7. Wanted(new)' BY <1>0, <2>4, <4>6 DEF Wanted
      <4> QED BY <1>9, <2>1, <2>2, <3>4, <4>1, <4>7
    <3>7. CASE \E f \in 1 .. Len(objs) : Updating(child, f) /\ IsFirst(f) /\ objs[f].line = Line
      <4>1. PICK f \in 1 .. Len(objs) : Updating(child, f) /\ IsFirst(f) /\ objs[f].line = Line
        BY <3>7
      <4>2. /\ Grown /\ objs'[new] = child /\ objs'[f].val = child.val
            /\ \A o \in 1 .. Len(objs) : o # f => objs'[o] = objs[o]
        BY <1>0, <1>8, <3>4, <4>1, ObjsUpdated
      <4>3. Driven BY <1>0, <2>1, <2>2, <4>2 DEF Driven
      <4>4. Wanted(f) BY <2>4, <4>1 DEF Wanted
      <4>5. objs'[f].val \in Seq(Nat) /\ queue' = Append(queue, Updated(f, objs'[f].val))
        BY <3>4, <4>1, <4>2 DEF Updating, Object
      <4>6. \A o \in 1 .. Len(objs) : o # f => objs'[o].val = objs[o].val BY <4>2
      <4>7. IsAnswer(f)' /\ objs'[f].line = Line
        BY <4>1, <4>2, FirstStays DEF Grown, IsFirst
      <4>8. ~ IsFirst(new)' BY <1>0, <1>8, <3>3, <4>2, <4>7 DEF IsFirst
      <4>9. ~ Wanted(new)' BY <1>0, <2>4, <4>8 DEF Wanted
      <4>10. \A o \in 1 .. Len(objs') : o \in 1 .. Len(objs) \/ ~ Wanted(o)'
        BY <1>8, <4>2, <4>9 DEF Grown
      <4> QED BY <1>1, <4>2, <4>3, <4>4, <4>5, <4>6, <4>10, ShownUpdated
    <3> QED BY <3>2, <3>5, <3>6, <3>7 DEF child
  <2> QED BY <2>3, <2>4
<1> QED BY <1>3, <1>4, <1>5, <1>6, <1>7, <1>11, <1>12 DEF Next

-----------------------------------------------------------------------------
(* What the widget has shown in the end. *)

\* Two sets of the same size.
LEMMA SameSize ==
  ASSUME NEW S, NEW T, IsFiniteSet(S), NEW f \in [S -> T],
         \A a, b \in S : f[a] = f[b] => a = b,
         \A t \in T : \E s \in S : f[s] = t
  PROVE  IsFiniteSet(T) /\ Cardinality(S) = Cardinality(T)
<1>1. f \in Bijection(S, T) BY DEF Bijection, Injection, Surjection, IsInjective
<1>2. ExistsBijection(S, T) BY <1>1 DEF ExistsBijection
<1> QED BY <1>2, FS_Bijection

\* A number of a set has its place before those of later numbers.
LEMMA PlaceGrows ==
  ASSUME NEW T \in SUBSET Nat, IsFiniteSet(T), NEW a \in T, NEW b \in T, a < b
  PROVE  Place(a, T) # Place(b, T)
<1> DEFINE A == {k \in T : k <= a}
           B == {k \in T : k <= b}
<1>1. A \in SUBSET B /\ B \in SUBSET T /\ b \in B /\ b \notin A
  <2>1. \A k \in T : k \in Nat OBVIOUS
  <2>2. \A k \in T : k <= a => k <= b BY <2>1
  <2>3. b <= b /\ ~ (b <= a) BY <2>1
  <2> QED BY <2>2, <2>3
<1>2. IsFiniteSet(B) BY <1>1, FS_Subset
<1> HIDE DEF A, B
<1>3. Cardinality(B) # Cardinality(A) BY <1>1, <1>2, FS_Subset
<1> QED BY <1>3 DEF A, B, Place

\* Two sets of numbers, one mapped to the other in order: the places agree.
LEMMA Matched ==
  ASSUME NEW S \in SUBSET Nat, NEW T \in SUBSET Nat, IsFiniteSet(S), NEW f \in [S -> T],
         \A n, m \in S : n < m => f[n] < f[m],
         \A t \in T : \E n \in S : f[n] = t
  PROVE  /\ Cardinality(S) = Cardinality(T)
         /\ \A n \in S, m \in T : Place(n, S) = Place(m, T) => f[n] = m
<1>1. \A n, m \in S : f[n] = f[m] => n = m
  <2>1. \A n, m \in S : n < m \/ m < n \/ n = m OBVIOUS
  <2>2. \A n \in S : f[n] \in Nat OBVIOUS
  <2> QED BY <2>1, <2>2
<1>2. IsFiniteSet(T) /\ Cardinality(S) = Cardinality(T) BY <1>1, SameSize
<1>3. ASSUME NEW n \in S PROVE Place(n, S) = Place(f[n], T)
  <2> DEFINE A == {k \in S : k <= n}
             B == {k \in T : k <= f[n]}
             g == [k \in A |-> f[k]]
  <2>1. A \in SUBSET S OBVIOUS
  <2>2. IsFiniteSet(A) BY <2>1, FS_Subset
  <2>3. ASSUME NEW k \in S PROVE k <= n <=> f[k] <= f[n]
    <3>1. f[k] \in Nat /\ f[n] \in Nat /\ k \in Nat /\ n \in Nat OBVIOUS
    <3>2. CASE k < n BY <3>1, <3>2
    <3>3. CASE n < k
      <4>1. f[n] < f[k] BY <3>3
      <4> QED BY <3>1, <3>3, <4>1
    <3>4. CASE n = k BY <3>1, <3>4
    <3> QED BY <3>1, <3>2, <3>3, <3>4
  <2>4. g \in [A -> B] BY <2>3
  <2>5. \A a, b \in A : g[a] = g[b] => a = b BY <1>1
  <2>6. \A t \in B : \E s \in A : g[s] = t BY <2>3
  <2> HIDE DEF A, B, g
  <2>7. Cardinality(A) = Cardinality(B) BY <2>2, <2>4, <2>5, <2>6, SameSize
  <2> QED BY <2>7 DEF A, B, Place
<1>4. ASSUME NEW n \in S, NEW m \in T, Place(n, S) = Place(m, T) PROVE f[n] = m
  <2>1. PICK p \in T : p = f[n] OBVIOUS
  <2>2. Place(p, T) = Place(m, T) BY <1>3, <1>4, <2>1
  <2>3. ~ (p < m) BY <1>2, <2>2, PlaceGrows
  <2>4. ~ (m < p) BY <1>2, <2>2, PlaceGrows
  <2>5. p \in Nat /\ m \in Nat OBVIOUS
  <2> QED BY <2>1, <2>3, <2>4, <2>5
<1> QED BY <1>2, <1>4

\* The items of the root when nothing is on its way: each shows a wanted answer, or what
\* was stored in its key; each wanted answer has its item.
LEMMA SettledItems ==
  ASSUME BaseInv, RootInv, ShownInv, rooted, queue = <<>>
  PROVE  /\ ~ job.silence /\ TopItems \in SUBSET Nat /\ IsFiniteSet(TopItems)
         /\ TopItems \subseteq 1 .. Len(view)
         /\ \A n, m \in TopItems : n < m => view[n].obj < view[m].obj
         /\ \A n \in TopItems :
              /\ view[n].obj \in 1 .. Len(objs) /\ Wanted(view[n].obj) /\ IsAnswer(view[n].obj)
              /\ view[n].key = ItemKey(objs[view[n].obj].line)
              /\ \/ view[n].val = objs[view[n].obj].val
                 \/ Stored(log, view[n].key, view[n].val)
         /\ \A o \in 1 .. Len(objs) :
              Wanted(o) /\ IsAnswer(o) => \E n \in TopItems : view[n].obj = o
<1>0. /\ TypeInv /\ TreeInv /\ Len(objs) \in Nat /\ Len(queue) = 0
  BY BaseParts
<1>1. DOMAIN view = 1 .. Len(view) /\ Len(view) \in Nat BY <1>0 DEF TypeInv
<1>2. ~ job.silence BY DEF RootInv
<1>3. ViewInv BY <1>2 DEF ShownInv
<1>4. TopItems = {n \in 1 .. Len(view) : view[n].under = Root} BY <1>1 DEF TopItems
<1>5. TopItems \in SUBSET Nat /\ IsFiniteSet(TopItems) /\ TopItems \subseteq 1 .. Len(view)
  <2>1. IsFiniteSet(1 .. Len(view)) BY <1>1, FS_Interval
  <2> QED BY <1>1, <1>4, <2>1, FS_Subset
<1>6. \A n, m \in TopItems : n < m => view[n].obj < view[m].obj BY <1>3, <1>4 DEF ViewInv
<1>7. ASSUME NEW n \in TopItems
      PROVE  /\ view[n].obj \in 1 .. Len(objs) /\ Wanted(view[n].obj) /\ IsAnswer(view[n].obj)
             /\ view[n].key = ItemKey(objs[view[n].obj].line)
             /\ \/ view[n].val = objs[view[n].obj].val
                \/ Stored(log, view[n].key, view[n].val)
  <2>1. PICK o : o = view[n].obj OBVIOUS
  <2>2. n \in 1 .. Len(view) /\ view[n].under = Root BY <1>4
  <2>3. o \in 1 .. Len(objs) BY <1>0, <2>1, <2>2 DEF TypeInv
  <2>4. Good(n, o) BY <1>3, <2>1, <2>2, <2>3 DEF ViewInv
  <2>5. Wanted(o) /\ Under(o) = Root /\ view[n].key = ItemKey(objs[o].line) /\ Fresh(n, o)
    BY <2>2, <2>4 DEF Good
  <2>6. view[n].val = objs[o].val \/ Stored(log, view[n].key, view[n].val)
    BY <1>0, <2>5 DEF Fresh
  <2>7. IsAnswer(o)
    <3>1. Hangs(o) /\ objs[o] \in Object BY <1>0, <2>3 DEF TreeInv, TypeInv
    <3>2. objs[o].kind \in {"value", "array", "inner"}
      BY <2>5, <3>1, WantedNoCommand DEF Object
    <3>3. objs[o].kind # "inner" BY <1>0, <2>3, <2>5, <3>1 DEF Hangs, Under, Root
    <3> QED BY <3>2, <3>3 DEF IsAnswer
  <2> QED BY <2>1, <2>3, <2>5, <2>6, <2>7
<1>8. ASSUME NEW o \in 1 .. Len(objs), Wanted(o), IsAnswer(o)
      PROVE  \E n \in TopItems : view[n].obj = o
  <2>1. PICK n \in 1 .. Len(view) : view[n].obj = o BY <1>0, <1>3, <1>8 DEF ViewInv
  <2>2. view[n].under = Under(o) BY <1>3, <2>1 DEF ViewInv, Good
  <2>3. Under(o) = Root
    <3>1. Hangs(o) BY <1>0 DEF TreeInv
    <3> QED BY <1>8, <3>1 DEF Hangs, IsAnswer, Under
  <2> QED BY <1>4, <2>1, <2>2, <2>3
<1> QED BY <1>2, <1>5, <1>6, <1>7, <1>8

\* With history every answer is shown, in order.
LEMMA ShownAll == BaseInv /\ LogInv /\ RootInv /\ HistoryInv /\ ShownInv => AllShown
<1> SUFFICES ASSUME BaseInv, LogInv, RootInv, HistoryInv, ShownInv, Settled, rooted, job.history
             PROVE  /\ Cardinality(TopItems) = Cardinality(Answers)
                    /\ \A n \in TopItems, m \in Answers :
                         Place(n, TopItems) = Place(m, Answers) =>
                           view[n].key = ItemKey(log[m].line) /\ Shows(view[n], log[m])
  BY DEF AllShown
<1> DEFINE f == [n \in TopItems |-> objs[view[n].obj].val[1]]
<1>0. TypeInv /\ queue = <<>> BY BaseParts DEF Settled
<1>1. /\ ~ job.silence /\ TopItems \in SUBSET Nat /\ IsFiniteSet(TopItems)
      /\ \A n, m \in TopItems : n < m => view[n].obj < view[m].obj
      /\ \A n \in TopItems :
           /\ view[n].obj \in 1 .. Len(objs) /\ IsAnswer(view[n].obj)
           /\ view[n].key = ItemKey(objs[view[n].obj].line)
           /\ \/ view[n].val = objs[view[n].obj].val
              \/ Stored(log, view[n].key, view[n].val)
      /\ \A o \in 1 .. Len(objs) :
           Wanted(o) /\ IsAnswer(o) => \E n \in TopItems : view[n].obj = o
  BY <1>0, SettledItems
<1>2. /\ \A o \in 1 .. Len(objs) : IsAnswer(o) => \E k \in 1 .. Len(log) : Holds(o, k)
      /\ \A o, p \in 1 .. Len(objs) :
           IsAnswer(o) /\ IsAnswer(p) /\ o < p => objs[o].val[1] < objs[p].val[1]
      /\ \A k \in 1 .. Len(log) :
           ~ log[k].set => \E o \in 1 .. Len(objs) : IsAnswer(o) /\ Holds(o, k)
  BY <1>1 DEF HistoryInv
<1>3. DOMAIN log = 1 .. Len(log) /\ Len(log) \in Nat BY <1>0 DEF TypeInv
<1>4. Answers = {k \in 1 .. Len(log) : ~ log[k].set} /\ Answers \in SUBSET Nat
  BY <1>3 DEF Answers
<1>5. ASSUME NEW n \in TopItems
      PROVE  f[n] \in Answers /\ Holds(view[n].obj, f[n])
  <2>1. PICK k \in 1 .. Len(log) : Holds(view[n].obj, k) BY <1>1, <1>2
  <2>2. f[n] = k BY <2>1 DEF Holds
  <2> QED BY <1>4, <2>1, <2>2 DEF Holds
<1>6. f \in [TopItems -> Answers] BY <1>5
<1>7. \A n, m \in TopItems : n < m => f[n] < f[m] BY <1>1, <1>2
<1>8. ASSUME NEW k \in Answers PROVE \E n \in TopItems : f[n] = k
  <2>1. PICK o \in 1 .. Len(objs) : IsAnswer(o) /\ Holds(o, k) BY <1>2, <1>4
  <2>2. Wanted(o) BY <2>1 DEF Wanted, IsAnswer
  <2>3. PICK n \in TopItems : view[n].obj = o BY <1>1, <2>1, <2>2
  <2>4. f[n] = k BY <2>1, <2>3 DEF Holds
  <2> QED BY <2>4
<1> HIDE DEF f
<1>9. /\ Cardinality(TopItems) = Cardinality(Answers)
      /\ \A n \in TopItems, m \in Answers : Place(n, TopItems) = Place(m, Answers) => f[n] = m
  <2>1. TopItems \in SUBSET Nat /\ IsFiniteSet(TopItems) BY <1>1
  <2>2. \A k \in Answers : \E n \in TopItems : f[n] = k BY <1>8
  <2>3. PICK S, T, h : S = TopItems /\ T = Answers /\ h = f OBVIOUS
  <2>4. S \in SUBSET Nat /\ T \in SUBSET Nat /\ IsFiniteSet(S) BY <1>4, <2>1, <2>3
  <2>5. h \in [S -> T] BY <1>6, <2>3
  <2>6. \A n, m \in S : n < m => h[n] < h[m] BY <1>7, <2>3
  <2>7. \A k \in T : \E n \in S : h[n] = k BY <2>2, <2>3
  <2>8. Cardinality(S) = Cardinality(T) BY <2>4, <2>5, <2>6, <2>7, Matched
  <2>9. \A n \in S, m \in T : Place(n, S) = Place(m, T) => h[n] = m
    BY <2>4, <2>5, <2>6, <2>7, Matched
  <2> QED BY <2>3, <2>8, <2>9
<1>10. ASSUME NEW n \in TopItems, NEW m \in Answers, Place(n, TopItems) = Place(m, Answers)
       PROVE  view[n].key = ItemKey(log[m].line) /\ Shows(view[n], log[m])
  <2>1. Holds(view[n].obj, m) BY <1>5, <1>9, <1>10
  <2>2. view[n].key = ItemKey(log[m].line) BY <1>1, <2>1 DEF Holds
  <2>3. CASE view[n].val = objs[view[n].obj].val
    <3>1. log[m].val = <<m>> BY <1>4 DEF LogInv
    <3>2. view[n].val = log[m].val BY <2>1, <2>3, <3>1 DEF Holds
    <3> QED BY <2>2, <3>2 DEF Shows
  <2>4. CASE Stored(log, view[n].key, view[n].val) BY <1>3, <2>2, <2>4 DEF Stored, Shows
  <2> QED BY <1>1, <2>3, <2>4
<1> QED BY <1>9, <1>10

\* Without history every text that was answered is shown with its last answer.
LEMMA ShownLatest == BaseInv /\ LogInv /\ RootInv /\ LatestInv /\ ShownInv => LatestShown
<1> DEFINE texts == {log[n].line : n \in Answers}
           Last(t) == CHOOSE n \in Answers :
                        log[n].line = t /\ \A m \in Answers : log[m].line = t => m <= n
<1> SUFFICES ASSUME BaseInv, LogInv, RootInv, LatestInv, ShownInv, Settled, rooted, ~ job.history
             PROVE  /\ Cardinality(TopItems) = Cardinality(texts)
                    /\ \A t \in texts : \E n \in TopItems :
                         objs[view[n].obj].line = t /\ Shows(view[n], log[Last(t)])
  BY DEF LatestShown
<1> DEFINE g == [n \in TopItems |-> objs[view[n].obj].line]
<1>0. TypeInv /\ queue = <<>> /\ Len(objs) \in Nat BY BaseParts DEF Settled
<1>1. /\ ~ job.silence /\ TopItems \in SUBSET Nat /\ IsFiniteSet(TopItems)
      /\ \A n, m \in TopItems : n < m => view[n].obj < view[m].obj
      /\ \A n \in TopItems :
           /\ view[n].obj \in 1 .. Len(objs) /\ Wanted(view[n].obj)
           /\ \/ view[n].val = objs[view[n].obj].val
              \/ Stored(log, view[n].key, view[n].val)
      /\ \A o \in 1 .. Len(objs) :
           Wanted(o) /\ IsAnswer(o) => \E n \in TopItems : view[n].obj = o
  BY <1>0, SettledItems
<1>2. /\ \A f \in 1 .. Len(objs) :
           IsFirst(f) => \E k \in 1 .. Len(log) : Holds(f, k) /\ IsLast(k)
      /\ \A k \in 1 .. Len(log) :
           ~ log[k].set => \E f \in 1 .. Len(objs) : IsFirst(f) /\ objs[f].line = log[k].line
  BY <1>1 DEF LatestInv, Watches
<1>3. DOMAIN log = 1 .. Len(log) /\ Len(log) \in Nat BY <1>0 DEF TypeInv
<1>4. Answers = {k \in 1 .. Len(log) : ~ log[k].set} BY <1>3 DEF Answers
<1>5. \A n \in TopItems : IsFirst(view[n].obj) BY <1>1 DEF Wanted
<1>6. ASSUME NEW n \in TopItems PROVE g[n] \in texts
  <2>1. PICK k \in 1 .. Len(log) : Holds(view[n].obj, k) BY <1>1, <1>2, <1>5
  <2> QED BY <1>4, <2>1 DEF Holds
<1>7. g \in [TopItems -> texts] BY <1>6
<1>8. ASSUME NEW n \in TopItems, NEW m \in TopItems, g[n] = g[m] PROVE n = m
  <2>1. view[n].obj = view[m].obj BY <1>0, <1>1, <1>5, <1>8, FirstUnique
  <2>2. n \in Nat /\ m \in Nat /\ view[n].obj \in Nat BY <1>0, <1>1
  <2>3. ~ (n < m) /\ ~ (m < n) BY <1>1, <2>1, <2>2
  <2> QED BY <2>2, <2>3
<1>9. ASSUME NEW t \in texts
      PROVE  \E f \in 1 .. Len(objs) : \E n \in TopItems :
               IsFirst(f) /\ objs[f].line = t /\ view[n].obj = f
  <2>1. PICK k \in Answers : log[k].line = t OBVIOUS
  <2>2. PICK f \in 1 .. Len(objs) : IsFirst(f) /\ objs[f].line = t BY <1>2, <1>4, <2>1
  <2>3. Wanted(f) /\ IsAnswer(f) BY <2>2 DEF Wanted, IsFirst
  <2> QED BY <1>1, <2>2, <2>3
<1>10. \A t \in texts : \E n \in TopItems : g[n] = t BY <1>9
<1>11. ASSUME NEW t \in texts
       PROVE  \E n \in TopItems : objs[view[n].obj].line = t /\ Shows(view[n], log[Last(t)])
  <2>1. PICK f \in 1 .. Len(objs) : \E n \in TopItems :
          IsFirst(f) /\ objs[f].line = t /\ view[n].obj = f
    BY <1>9
  <2>2. PICK n \in TopItems : IsFirst(f) /\ objs[f].line = t /\ view[n].obj = f BY <2>1
  <2>3. PICK k \in 1 .. Len(log) : Holds(f, k) /\ IsLast(k) BY <1>2, <2>2
  <2>4. k \in Answers /\ log[k].line = t /\ \A m \in Answers : log[m].line = t => m <= k
    BY <1>4, <2>2, <2>3 DEF Holds, IsLast
  <2>5. Last(t) = k
    <3>1. /\ Last(t) \in Answers /\ log[Last(t)].line = t
          /\ \A m \in Answers : log[m].line = t => m <= Last(t)
      BY <2>4
    <3> HIDE DEF Last
    <3>2. Last(t) <= k /\ k <= Last(t) BY <2>4, <3>1
    <3>3. Last(t) \in Nat /\ k \in Nat BY <1>3, <1>4, <3>1
    <3> QED BY <3>2, <3>3
  <2> HIDE DEF Last
  <2>6. CASE view[n].val = objs[f].val
    <3>1. log[k].val = <<k>> BY DEF LogInv
    <3>2. view[n].val = log[k].val BY <2>3, <2>6, <3>1 DEF Holds
    <3> QED BY <2>2, <2>5, <3>2 DEF Shows
  <2>7. CASE Stored(log, view[n].key, view[n].val)
    <3>1. Shows(view[n], log[k]) BY <1>3, <2>7 DEF Stored, Shows
    <3> QED BY <2>2, <2>5, <3>1
  <2> QED BY <1>1, <2>2, <2>6, <2>7
<1> HIDE DEF g, texts, Last
<1>12. Cardinality(TopItems) = Cardinality(texts)
  <2>1. IsFiniteSet(TopItems) BY <1>1
  <2>2. \A n, m \in TopItems : g[n] = g[m] => n = m BY <1>8
  <2> QED BY <1>7, <1>10, <2>1, <2>2, SameSize, Zenon
<1> QED BY <1>11, <1>12

\* The invariants of the log, the tree and the widget hold always.
LEMMA ShownAlways ==
  Spec => [](LogInv /\ RootInv /\ HistoryInv /\ LatestInv /\ ShownInv)
<1>1. Init => LogInv /\ RootInv BY InitLog
<1>2. Init => HistoryInv BY InitHistory
<1>3. Init => WatchedInv BY InitWatched
<1>4. Init => RepliedInv BY InitReplied
<1>5. Init => LatestInv BY InitLatest
<1>6. Init => ShownInv BY InitShown
<1>7. BaseInv /\ LogInv /\ [Next]_vars => LogInv' BY NextLog
<1>8. BaseInv /\ RootInv /\ [Next]_vars => RootInv' BY NextRoot
<1>9. BaseInv /\ HistoryInv /\ [Next]_vars => HistoryInv' BY NextHistory
<1>10. BaseInv /\ WatchedInv /\ [Next]_vars => WatchedInv' BY NextWatched
<1>11. BaseInv /\ BaseInv' /\ RepliedInv /\ [Next]_vars => RepliedInv' BY NextReplied
<1>12. BaseInv /\ RepliedInv /\ WatchedInv /\ LatestInv /\ [Next]_vars => LatestInv'
  BY NextLatest
<1>13. BaseInv /\ LogInv /\ RootInv /\ RepliedInv /\ WatchedInv /\ ShownInv /\ [Next]_vars
         => ShownInv'
  BY NextShown
<1>14. QED
  BY <1>1, <1>2, <1>3, <1>4, <1>5, <1>6, <1>7, <1>8, <1>9, <1>10, <1>11, <1>12, <1>13,
     BaseAlways, PTL DEF Spec

-----------------------------------------------------------------------------
(* The theorems. *)

\* CommandHandler::Execute never takes a subcommand for the command it begins with nor
\* for a sibling, whatever the line: the first entry the search meets is the longest.
THEOREM DispatchNotShadowed == Spec => []NotShadowed
<1>1. QED BY ControlAlways, ControlNotShadowed, PTL

\* Every argv[i] a handler reads without looking at argc is a word of the line, for
\* lines of any length (but for the ssdb handlers of Misread).
THEOREM HandlersReadLine == Spec => []ReadsPassed
<1>1. ControlInv => ReadsPassed BY ControlReadsPassed
<1>2. QED BY <1>1, ControlAlways, PTL

\* A line that common_exec forwards reaches the server with its words of the name.
THEOREM ForwardsWholeLine == Spec => []WholeLineSent
<1>1. ControlInv => WholeLineSent BY ControlReadsPassed
<1>2. QED BY <1>1, ControlAlways, PTL

\* Execute refuses no line with a number of arguments that the table documents (but for
\* the commands of Narrower).
THEOREM DocumentedAccepted == Spec => []UsageAccepted
<1>1. QED BY ControlAlways, ControlUsageAccepted, PTL

\* The two loops of HandleExecuteEvent run each line repeat + 1 times when no error ends
\* the batch, for every width of size_t and every repeat up to the explorer's watch.
THEOREM LinesRunInEachRound == Spec => []EachRuns
<1>1. BaseInv /\ RunsInv => EachRuns BY RunsEach
<1>2. Spec => []RunsInv
  <2>1. Init => RunsInv BY InitRuns
  <2>2. BaseInv /\ BaseInv' /\ RunsInv /\ [Next]_vars => RunsInv' BY NextRuns
  <2>3. QED BY <2>1, <2>2, BaseAlways, PTL DEF Spec
<1>3. QED BY <1>1, <1>2, BaseAlways, PTL

\* With history the output widget ends up with one item per answer, in the order of the
\* answers, however its thread and the driver's interleave; an item shows its answer or
\* what a SET of the batch stored in its key.
THEOREM AllAnswersShown == Spec => []AllShown
<1>1. BaseInv /\ LogInv /\ RootInv /\ HistoryInv /\ ShownInv => AllShown BY ShownAll
<1>2. Spec => [](HistoryInv /\ ShownInv /\ LogInv /\ RootInv) BY ShownAlways, PTL
<1>3. QED BY <1>1, <1>2, BaseAlways, PTL

\* Without history (a repeated batch, the explorer's watch) the output widget ends up with
\* one item per distinct text, updated in place to the last answer to that text.
THEOREM LatestAnswerShown == Spec => []LatestShown
<1>1. BaseInv /\ LogInv /\ RootInv /\ LatestInv /\ ShownInv => LatestShown BY ShownLatest
<1>2. Spec => [](LatestInv /\ ShownInv /\ LogInv /\ RootInv) BY ShownAlways, PTL
<1>3. QED BY <1>1, <1>2, BaseAlways, PTL
=============================================================================
