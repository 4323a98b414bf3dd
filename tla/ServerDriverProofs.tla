------------------------- MODULE ServerDriverProofs -------------------------
(***************************************************************************)
(* Proofs about ServerDriver, for every value of its constants: the types, *)
(* and the order in which answers are delivered.                           *)
(***************************************************************************)
EXTENDS ServerDriver, SequenceTheorems, TLAPS

\* The type invariant is inductive together with the reason why the count of
\* commands left never goes below zero: a command is only run when one is left.
TypeInv == TypeOK /\ (pc = "run" => left > 0)

\* The kinds of requests that the server and its callers issue are kinds.
LEMMA KindFacts ==
  /\ UserKinds \subseteq Kinds
  /\ "discovery" \in Kinds /\ "configArgs" \in Kinds /\ "connect" \in Kinds
  BY ConstantsAssumption
  DEF Kinds, BaseKinds, OptionalKinds, ContentKinds, InternalKinds

\* Every event the driver posts about its current request is an event.
LEMMA PostTyped ==
  ASSUME TypeOK, NEW type \in EventTypes
  PROVE  Post(type) \in Event
  BY DEF TypeOK, Post, Event

\* Appending events and requests keeps the queues well typed.
LEMMA AppendTyped ==
  ASSUME NEW S, NEW s \in Seq(S), NEW e \in S
  PROVE  Append(s, e) \in Seq(S)
  OBVIOUS

\* A handler's last events are well typed.
LEMMA RepliesTyped ==
  ASSUME TypeOK
  PROVE  Replies(current.kind) \in Seq(Event)
<1>1. /\ Post("response") \in Event /\ Post("done") \in Event
      /\ Post("enterMode") \in Event /\ Post("leaveMode") \in Event
  BY PostTyped DEF EventTypes
<1> QED
  BY <1>1 DEF Replies

\* The initial state is well typed.
LEMMA InitTyped == Init => TypeInv
<1> SUFFICES ASSUME Init PROVE TypeInv
  OBVIOUS
<1>1. current \in [id : Nat, kind : Kinds]
  BY KindFacts DEF Init
<1>2. requests \in Seq(Request) /\ events \in Seq(Event) /\ delivered \in Seq(Nat)
  BY EmptySeq DEF Init
<1> QED
  BY <1>1, <1>2, KindFacts DEF Init, TypeInv, TypeOK, Locations

\* Every step of the GUI thread keeps the types.
LEMMA ServerTyped ==
  ASSUME TypeInv,
         \/ \E kind \in UserKinds : Call(kind)
         \/ StopCurrentEvent \/ Close \/ ServerStep \/ Ended
  PROVE  TypeInv'
<1> USE DEF TypeInv
<1>1. ASSUME NEW kind \in UserKinds, Call(kind) PROVE TypeInv'
  <2>1. [id |-> issued + 1, kind |-> kind] \in Request
    BY KindFacts DEF TypeOK, Request
  <2>2. requests' \in Seq(Request)
    BY <1>1, <2>1, AppendTyped DEF Call, Posted, TypeOK
  <2> QED
    BY <1>1, <2>2, KindFacts DEF Call, TypeOK, linkVars
<1>2. CASE StopCurrentEvent
  BY <1>2 DEF StopCurrentEvent, TypeOK, linkVars, clientVars
<1>3. CASE Close
  BY <1>3 DEF Close, TypeOK, linkVars, clientVars
<1>4. CASE ServerForward
  <2>1. events' \in Seq(Event)
    BY <1>4, HeadTailProperties DEF ServerForward, TypeOK
  <2> QED
    BY <1>4, <2>1 DEF ServerForward, TypeOK, driverVars, linkVars
<1>5. CASE ServerDeliver
  <2> DEFINE e == Head(events)
  <2>1. e \in Event /\ events' \in Seq(Event)
    BY <1>5, HeadTailProperties DEF ServerDeliver, TypeOK
  <2>2. delivered' \in Seq(Nat)
    BY <1>5, <2>1, AppendTyped DEF ServerDeliver, TypeOK, Event
  <2>3. /\ [id |-> issued + 1, kind |-> "discovery"] \in Request
        /\ [id |-> issued + 2, kind |-> "configArgs"] \in Request
    BY KindFacts DEF TypeOK, Request
  <2>4. requests' \in Seq(Request)
    BY <1>5, <2>3, AppendTyped DEF ServerDeliver, Posted, TypeOK
  <2> QED
    BY <1>5, <2>1, <2>2, <2>4 DEF ServerDeliver, TypeOK, driverVars, linkVars
<1>6. CASE Ended
  BY <1>6 DEF Ended, TypeOK, vars, driverVars, linkVars, clientVars
<1> QED
  BY <1>1, <1>2, <1>3, <1>4, <1>5, <1>6 DEF ServerStep

\* Every step of the driver thread keeps the types.
LEMMA DriverTyped ==
  ASSUME TypeInv, DriverStep
  PROVE  TypeInv'
<1> USE DEF TypeInv
<1>1. CASE DriverTake
  <2> DEFINE r == Head(requests)
  <2>1. r \in Request /\ requests' \in Seq(Request)
    BY <1>1, HeadTailProperties DEF DriverTake, TypeOK
  <2>2. [type |-> "busy", id |-> r.id, kind |-> r.kind, error |-> FALSE] \in Event
    BY <2>1 DEF Request, Event, EventTypes
  <2>3. events' \in Seq(Event)
    BY <1>1, <2>2, AppendTyped DEF DriverTake, TypeOK
  <2>4. left' \in Nat
    BY <1>1, ConstantsAssumption DEF DriverTake
  <2>5. pc' \in {"idle", "work"}
    BY <1>1 DEF DriverTake
  <2> QED
    BY <1>1, <2>1, <2>3, <2>4, <2>5
    DEF DriverTake, TypeOK, Request, Locations, linkVars, clientVars
<1>2. CASE DriverWork
  <2>1. /\ failed' \in BOOLEAN /\ connected' \in BOOLEAN /\ auth' \in BOOLEAN
        /\ serverInfo' \in BOOLEAN /\ database' \in BOOLEAN /\ tried' \in BOOLEAN
        /\ life' \in {"running", "closing", "stopped", "aborted"}
    <3>1. CASE Connecting
      BY <3>1 DEF Connecting, TypeOK
    <3>2. CASE Disconnecting
      BY <3>2 DEF Disconnecting, TypeOK
    <3>3. CASE LoadingDatabases
      BY <3>3 DEF LoadingDatabases, CommandOutcome, TypeOK
    <3>4. CASE Discovering
      BY <3>4 DEF Discovering, CommandOutcome, TypeOK
    <3>5. CASE Commanding
      BY <3>5 DEF Commanding, CommandOutcome, TypeOK
    <3>6. CASE Refusing \/ FileWork \/ Configuring
      BY <3>6 DEF Refusing, FileWork, Configuring, TypeOK, linkVars
    <3> QED
      BY <1>2, <3>1, <3>2, <3>3, <3>4, <3>5, <3>6 DEF DriverWork
  <2> QED
    BY <1>2, <2>1 DEF DriverWork, TypeOK, Locations, clientVars
<1>3. CASE DriverReply
  <2>1. events' \in Seq(Event)
    BY <1>3, RepliesTyped, ConcatProperties DEF DriverReply, TypeOK
  <2> QED
    BY <1>3, <2>1 DEF DriverReply, TypeOK, Locations, linkVars, clientVars
<1>4. CASE ExecuteEmpty
  <2>1. [Post("response") EXCEPT !.error = TRUE] \in Event /\ Post("done") \in Event
    BY PostTyped DEF EventTypes, Event
  <2>2. events' \in Seq(Event)
    BY <1>4, <2>1, ConcatProperties DEF ExecuteEmpty, TypeOK
  <2> QED
    BY <1>4, <2>2 DEF ExecuteEmpty, TypeOK, Locations, linkVars, clientVars
<1>5. CASE ExecuteBegin
  <2>1. Post("rootCreated") \in Event
    BY PostTyped DEF EventTypes
  <2>2. events' \in Seq(Event)
    BY <1>5, <2>1, AppendTyped DEF ExecuteBegin, TypeOK
  <2> QED
    BY <1>5, <2>2 DEF ExecuteBegin, TypeOK, Locations, linkVars, clientVars
<1>6. CASE ExecuteCheck
  <2>1. failed' \in BOOLEAN
    BY <1>6 DEF ExecuteCheck
  <2>2. pc' \in Locations /\ (pc' = "run" => left > 0) /\ left' = left
    BY <1>6 DEF ExecuteCheck, BatchOver, TypeOK, Locations
  <2> QED
    BY <1>6, <2>1, <2>2 DEF ExecuteCheck, TypeOK, linkVars, clientVars
<1>7. CASE ExecuteCommand
  <2>1. Post("disconnected") \in Event
    BY PostTyped DEF EventTypes
  <2>2. events' \in Seq(Event)
    BY <1>7, <2>1, AppendTyped DEF ExecuteCommand, TypeOK, linkVars
  <2>3. left' \in Nat /\ late' \in Nat
    BY <1>7 DEF ExecuteCommand, TypeOK
  <2>4. /\ failed' \in BOOLEAN /\ connected' \in BOOLEAN /\ auth' \in BOOLEAN
        /\ serverInfo' \in BOOLEAN /\ database' \in BOOLEAN /\ tried' \in BOOLEAN
        /\ pc' \in {"check", "reply"}
    BY <1>7 DEF ExecuteCommand, TypeOK, linkVars
  <2> QED
    BY <1>7, <2>2, <2>3, <2>4 DEF ExecuteCommand, TypeOK, Locations, clientVars
<1>8. CASE ExecuteReply
  <2>1. Post("response") \in Event /\ Post("done") \in Event /\ Post("rootCompleated") \in Event
    BY PostTyped DEF EventTypes
  <2>2. events' \in Seq(Event)
    BY <1>8, <2>1, ConcatProperties DEF ExecuteReply, TypeOK
  <2> QED
    BY <1>8, <2>2 DEF ExecuteReply, TypeOK, Locations, linkVars, clientVars
<1>9. CASE DriverExit
  <2>1. requests' \in Seq(Request) /\ events' \in Seq(Event)
    BY <1>9, EmptySeq DEF DriverExit
  <2> QED
    BY <1>9, <2>1 DEF DriverExit, TypeOK, driverVars, clientVars
<1> QED
  BY <1>1, <1>2, <1>3, <1>4, <1>5, <1>6, <1>7, <1>8, <1>9 DEF DriverStep

\* Every step of either thread keeps the types.
LEMMA TypeStep == TypeInv /\ [Next]_vars => TypeInv'
<1> SUFFICES ASSUME TypeInv, [Next]_vars PROVE TypeInv'
  OBVIOUS
<1>1. CASE UNCHANGED vars
  BY <1>1 DEF TypeInv, TypeOK, vars, driverVars, linkVars, clientVars
<1>2. CASE Next
  BY <1>2, ServerTyped, DriverTyped DEF Next
<1> QED
  BY <1>1, <1>2

\* Every variable keeps its type in every behaviour of the server and its driver;
\* in particular the loop of HandleExecuteEvent never runs a command past its last.
THEOREM TypeCorrect == Spec => []TypeOK
<1>1. Init => TypeInv
  BY InitTyped
<1>2. TypeInv /\ [Next]_vars => TypeInv'
  BY TypeStep
<1>3. TypeInv => TypeOK
  BY DEF TypeInv
<1> QED
  BY <1>1, <1>2, <1>3, PTL DEF Spec

-----------------------------------------------------------------------------
(* The order of delivery.  InOrder is not inductive: that the next Finished *)
(* signal has a number above all earlier ones follows from where requests   *)
(* come from, so the invariant follows a number from the request queue      *)
(* through the handler and the event queue to the signal.                   *)

\* ds, the numbers delivered, followed by the responses in es, ascend up to n.
AnswersAscend(es, ds, n) ==
  /\ \A i \in 1 .. Len(ds) : ds[i] <= n
  /\ \A i, j \in 1 .. Len(ds) : i < j => ds[i] < ds[j]
  /\ \A i \in 1 .. Len(es) : es[i].type = "response" => 0 < es[i].id /\ es[i].id <= n
  /\ \A i, j \in 1 .. Len(es) :
       i < j /\ es[i].type = "response" /\ es[j].type = "response" => es[i].id < es[j].id
  /\ \A i \in 1 .. Len(ds), j \in 1 .. Len(es) : es[j].type = "response" => ds[i] < es[j].id

\* The last request that may already have been answered.
Answered == IF pc = "idle" THEN current.id ELSE current.id - 1

\* Requests not yet taken ascend, above the current one, cur, up to the last, n.
RequestsAscend(rs, cur, n) ==
  /\ cur <= n
  /\ \A i \in 1 .. Len(rs) : cur < rs[i].id /\ rs[i].id <= n
  /\ \A i, j \in 1 .. Len(rs) : i < j => rs[i].id < rs[j].id

\* The inductive invariant.
OrderInv ==
  /\ RequestsAscend(requests, current.id, issued)
  /\ pc # "idle" => current.id > 0
  /\ AnswersAscend(events, delivered, Answered)

\* The numbers in the two sequences are numbers.
LEMMA Numbers ==
  ASSUME NEW es \in Seq(Event), NEW ds \in Seq(Nat)
  PROVE  /\ Len(es) \in Nat /\ Len(ds) \in Nat
         /\ \A i \in 1 .. Len(es) : es[i] \in Event /\ es[i].id \in Nat
         /\ \A i \in 1 .. Len(ds) : ds[i] \in Nat
<1>1. \A i \in 1 .. Len(es) : es[i] \in Event
  BY ElementOfSeq
<1>2. \A e \in Event : e.id \in Nat
  BY DEF Event
<1> QED
  BY <1>1, <1>2, ElementOfSeq, LenProperties

\* What Append does.
LEMMA Appended ==
  ASSUME NEW S, NEW s \in Seq(S), NEW e \in S
  PROVE  /\ Append(s, e) \in Seq(S)
         /\ Len(Append(s, e)) = Len(s) + 1
         /\ \A i \in 1 .. Len(s) : Append(s, e)[i] = s[i]
         /\ Append(s, e)[Len(s) + 1] = e
  OBVIOUS

\* Raising the bound.
LEMMA AscendRaise ==
  ASSUME NEW es \in Seq(Event), NEW ds \in Seq(Nat), NEW n \in Int, NEW m \in Int,
         n <= m, AnswersAscend(es, ds, n)
  PROVE  AnswersAscend(es, ds, m)
<1>1. ASSUME NEW i \in 1 .. Len(ds) PROVE ds[i] <= m
  <2>1. ds[i] <= n /\ ds[i] \in Nat
    BY Numbers DEF AnswersAscend
  <2> QED
    BY <2>1
<1>2. ASSUME NEW i \in 1 .. Len(es), es[i].type = "response"
      PROVE  0 < es[i].id /\ es[i].id <= m
  <2>1. 0 < es[i].id /\ es[i].id <= n /\ es[i].id \in Nat
    BY <1>2, Numbers DEF AnswersAscend
  <2> QED
    BY <2>1
<1> QED
  BY <1>1, <1>2 DEF AnswersAscend

\* Appending an event that is not a response.
LEMMA AscendNoise ==
  ASSUME NEW es \in Seq(Event), NEW ds \in Seq(Nat), NEW n \in Int,
         NEW e \in Event, e.type # "response", AnswersAscend(es, ds, n)
  PROVE  AnswersAscend(Append(es, e), ds, n)
<1>1. /\ Len(es) \in Nat /\ Len(Append(es, e)) = Len(es) + 1
      /\ \A i \in 1 .. Len(es) : Append(es, e)[i] = es[i]
      /\ Append(es, e)[Len(es) + 1] = e
  BY Appended, Numbers
<1> QED
  BY <1>1 DEF AnswersAscend

\* Appending the response to a request above all those answered before.
LEMMA AscendAnswer ==
  ASSUME NEW es \in Seq(Event), NEW ds \in Seq(Nat), NEW n \in Int,
         NEW e \in Event, n < e.id, 0 < e.id, AnswersAscend(es, ds, n)
  PROVE  AnswersAscend(Append(es, e), ds, e.id)
<1> DEFINE a == Append(es, e)
<1> SUFFICES AnswersAscend(a, ds, e.id)
  OBVIOUS
<1>1. /\ Len(es) \in Nat /\ Len(a) = Len(es) + 1
      /\ \A i \in 1 .. Len(es) : a[i] = es[i]
      /\ a[Len(es) + 1] = e
  BY Appended, Numbers
<1>2. e.id \in Nat
  BY DEF Event
<1>3. /\ \A i \in 1 .. Len(ds) : ds[i] < e.id
      /\ \A i \in 1 .. Len(es) : es[i].type = "response" => es[i].id < e.id
  BY <1>2, Numbers DEF AnswersAscend
<1>4. \A i \in 1 .. Len(ds) : ds[i] <= e.id
  BY <1>2, <1>3, Numbers
<1>5. \A i \in 1 .. Len(es) : es[i].type = "response" => 0 < es[i].id /\ es[i].id <= e.id
  <2>1. \A i \in 1 .. Len(es) : es[i].type = "response" => 0 < es[i].id
    BY DEF AnswersAscend
  <2> QED
    BY <1>2, <1>3, <2>1, Numbers
<1>6. \A i \in 1 .. Len(a) : i \in 1 .. Len(es) \/ i = Len(es) + 1
  BY <1>1
<1> HIDE DEF a
<1>7. \A i \in 1 .. Len(a) : a[i].type = "response" => 0 < a[i].id /\ a[i].id <= e.id
  BY <1>1, <1>2, <1>5, <1>6
<1>8. ASSUME NEW i \in 1 .. Len(a), NEW j \in 1 .. Len(a), i < j,
             a[i].type = "response", a[j].type = "response"
      PROVE  a[i].id < a[j].id
  <2>1. i \in 1 .. Len(es)
    BY <1>1, <1>8
  <2>2. CASE j \in 1 .. Len(es)
    BY <1>1, <1>8, <2>1, <2>2 DEF AnswersAscend
  <2>3. CASE j = Len(es) + 1
    BY <1>1, <1>3, <1>8, <2>1, <2>3
  <2> QED
    BY <1>6, <2>2, <2>3
<1>9. ASSUME NEW i \in 1 .. Len(ds), NEW j \in 1 .. Len(a), a[j].type = "response"
      PROVE  ds[i] < a[j].id
  <2>1. CASE j \in 1 .. Len(es)
    BY <1>1, <1>9, <2>1 DEF AnswersAscend
  <2>2. CASE j = Len(es) + 1
    BY <1>1, <1>3, <2>2
  <2> QED
    BY <1>6, <2>1, <2>2
<1> QED
  BY <1>4, <1>7, <1>8, <1>9 DEF AnswersAscend

\* Removing the first event.
LEMMA AscendTail ==
  ASSUME NEW es \in Seq(Event), NEW ds \in Seq(Nat), NEW n \in Int,
         es # <<>>, AnswersAscend(es, ds, n)
  PROVE  AnswersAscend(Tail(es), ds, n)
<1>1. /\ Len(es) \in Nat /\ Len(Tail(es)) = Len(es) - 1
      /\ \A i \in 1 .. Len(Tail(es)) : Tail(es)[i] = es[i + 1]
  BY HeadTailProperties, Numbers
<1> QED
  BY <1>1 DEF AnswersAscend

\* Delivering the first event, a response.
LEMMA AscendDeliver ==
  ASSUME NEW es \in Seq(Event), NEW ds \in Seq(Nat), NEW n \in Int,
         es # <<>>, Head(es).type = "response", AnswersAscend(es, ds, n)
  PROVE  AnswersAscend(Tail(es), Append(ds, Head(es).id), n)
<1> DEFINE t == Tail(es)
           d == Append(ds, Head(es).id)
<1> SUFFICES AnswersAscend(t, d, n)
  OBVIOUS
<1>1. Len(es) \in Nat \ {0} /\ Head(es) = es[1] /\ es[1].id \in Nat
  BY EmptySeq, Numbers
<1>2. /\ Len(t) = Len(es) - 1
      /\ \A i \in 1 .. Len(t) : t[i] = es[i + 1]
  BY HeadTailProperties
<1>3. /\ Len(ds) \in Nat /\ Len(d) = Len(ds) + 1
      /\ \A i \in 1 .. Len(ds) : d[i] = ds[i]
      /\ d[Len(ds) + 1] = es[1].id
  BY <1>1, Appended, Numbers
<1>4. AnswersAscend(t, ds, n)
  BY AscendTail
<1>5. \A i \in 1 .. Len(d) : i \in 1 .. Len(ds) \/ i = Len(ds) + 1
  BY <1>3
<1> HIDE DEF t, d
<1>6. \A i \in 1 .. Len(d) : d[i] <= n
  BY <1>1, <1>3, <1>5 DEF AnswersAscend
<1>7. ASSUME NEW i \in 1 .. Len(d), NEW j \in 1 .. Len(d), i < j
      PROVE  d[i] < d[j]
  <2>1. i \in 1 .. Len(ds)
    BY <1>3, <1>7
  <2>2. CASE j \in 1 .. Len(ds)
    BY <1>3, <1>7, <2>1, <2>2 DEF AnswersAscend
  <2>3. CASE j = Len(ds) + 1
    BY <1>1, <1>3, <2>1, <2>3 DEF AnswersAscend
  <2> QED
    BY <1>5, <2>2, <2>3
<1>8. ASSUME NEW i \in 1 .. Len(d), NEW j \in 1 .. Len(t), t[j].type = "response"
      PROVE  d[i] < t[j].id
  <2>1. CASE i \in 1 .. Len(ds)
    BY <1>3, <1>4, <1>8, <2>1 DEF AnswersAscend
  <2>2. CASE i = Len(ds) + 1
    <3>1. es[1].type = "response" /\ t[j] = es[j + 1] /\ d[i] = es[1].id
      BY <1>1, <1>2, <1>3, <1>8, <2>2
    <3>2. 1 \in 1 .. Len(es) /\ j + 1 \in 1 .. Len(es) /\ 1 < j + 1
      BY <1>1, <1>2, <1>8
    <3> QED
      BY <1>8, <3>1, <3>2 DEF AnswersAscend
  <2> QED
    BY <1>5, <2>1, <2>2
<1> QED
  BY <1>4, <1>6, <1>7, <1>8 DEF AnswersAscend

\* Appending one, two or four events one after the other.
LEMMA ConcatOne ==
  ASSUME NEW S, NEW s \in Seq(S), NEW a \in S
  PROVE  s \o <<a>> = Append(s, a)
  OBVIOUS

\* Two events queued at once are two events queued.
LEMMA ConcatTwo ==
  ASSUME NEW S, NEW s \in Seq(S), NEW a \in S, NEW b \in S
  PROVE  s \o <<a, b>> = Append(Append(s, a), b)
  OBVIOUS

\* And so for four.
LEMMA ConcatFour ==
  ASSUME NEW S, NEW s \in Seq(S), NEW a \in S, NEW b \in S, NEW c \in S, NEW d \in S
  PROVE  s \o <<a, b, c, d>> = Append(Append(Append(Append(s, a), b), c), d)
  OBVIOUS

\* Posting the response to the current request, which is above all those answered.
LEMMA PostResponse ==
  ASSUME TypeOK, OrderInv, pc # "idle",
         NEW es \in Seq(Event), AnswersAscend(es, delivered, Answered),
         NEW e \in Event, e.id = current.id
  PROVE  AnswersAscend(Append(es, e), delivered, current.id)
<1>1. Answered \in Int /\ Answered < e.id /\ 0 < e.id
  BY DEF TypeOK, Answered, OrderInv
<1> QED
  BY <1>1, AscendAnswer DEF TypeOK

\* Posting a request with the next number.
LEMMA PostedAscend ==
  ASSUME NEW rs \in Seq(Request), NEW cur \in Nat, NEW n \in Nat,
         NEW r \in Request, r.id = n + 1, RequestsAscend(rs, cur, n)
  PROVE  RequestsAscend(Append(rs, r), cur, n + 1)
<1> DEFINE a == Append(rs, r)
<1> SUFFICES RequestsAscend(a, cur, n + 1)
  OBVIOUS
<1>1. /\ Len(rs) \in Nat /\ Len(a) = Len(rs) + 1
      /\ \A i \in 1 .. Len(rs) : a[i] = rs[i]
      /\ a[Len(rs) + 1] = r
  BY Appended, LenProperties
<1>2. \A i \in 1 .. Len(rs) : rs[i].id \in Nat
  <2>1. \A i \in 1 .. Len(rs) : rs[i] \in Request
    BY ElementOfSeq
  <2> QED
    BY <2>1 DEF Request
<1>3. \A i \in 1 .. Len(a) : i \in 1 .. Len(rs) \/ i = Len(rs) + 1
  BY <1>1
<1>4. \A i \in 1 .. Len(rs) : rs[i].id < n + 1
  BY <1>2 DEF RequestsAscend
<1> HIDE DEF a
<1>5. \A i \in 1 .. Len(a) : cur < a[i].id /\ a[i].id <= n + 1
  BY <1>1, <1>2, <1>3, <1>4 DEF RequestsAscend
<1>6. ASSUME NEW i \in 1 .. Len(a), NEW j \in 1 .. Len(a), i < j
      PROVE  a[i].id < a[j].id
  <2>1. i \in 1 .. Len(rs)
    BY <1>1, <1>6
  <2>2. CASE j \in 1 .. Len(rs)
    BY <1>1, <1>6, <2>1, <2>2 DEF RequestsAscend
  <2>3. CASE j = Len(rs) + 1
    BY <1>1, <1>4, <2>1, <2>3
  <2> QED
    BY <1>3, <2>2, <2>3
<1> QED
  BY <1>5, <1>6 DEF RequestsAscend

\* The steps of the GUI thread keep the order.
LEMMA ServerOrder ==
  ASSUME TypeOK, OrderInv,
         \/ \E kind \in UserKinds : Call(kind)
         \/ StopCurrentEvent \/ Close \/ ServerStep \/ Ended
  PROVE  OrderInv'
<1>0. current.id \in Nat /\ issued \in Nat /\ Answered \in Int
  BY DEF TypeOK, Answered
<1>1. ASSUME NEW kind \in UserKinds, Call(kind) PROVE OrderInv'
  <2>1. [id |-> issued + 1, kind |-> kind] \in Request
    BY KindFacts DEF TypeOK, Request
  <2>2. RequestsAscend(requests', current.id, issued')
    BY <1>0, <1>1, <2>1, PostedAscend DEF Call, TypeOK, OrderInv, Posted
  <2> QED
    BY <1>1, <2>2 DEF Call, OrderInv, Answered
<1>2. CASE StopCurrentEvent \/ Close
  BY <1>2 DEF StopCurrentEvent, Close, OrderInv, Answered, clientVars
<1>3. CASE ServerForward
  BY <1>0, <1>3, AscendTail
  DEF ServerForward, TypeOK, OrderInv, Answered, driverVars
<1>4. CASE ServerDeliver
  <2>1. AnswersAscend(events', delivered', Answered)
    BY <1>0, <1>4, AscendTail, AscendDeliver DEF ServerDeliver, TypeOK, OrderInv
  <2>2. RequestsAscend(requests', current.id, issued')
    <3>1. CASE ~FollowUp(Head(events))
      BY <1>4, <3>1 DEF ServerDeliver, OrderInv
    <3>2. CASE FollowUp(Head(events))
      <4> DEFINE r1 == [id |-> issued + 1, kind |-> "discovery"]
                 r2 == [id |-> issued + 2, kind |-> "configArgs"]
      <4>1. r1 \in Request /\ r2 \in Request /\ r1.id = issued + 1 /\ r2.id = issued + 1 + 1
        BY <1>0, KindFacts DEF Request
      <4>2. requests' = Append(Append(requests, r1), r2) /\ issued' = issued + 1 + 1
        <5>1. issued' = issued + 2
          BY <1>4, <3>2 DEF ServerDeliver
        <5>2. requests' = Append(Append(requests, r1), r2)
          BY <1>4, <3>2 DEF ServerDeliver, Posted
        <5> QED
          BY <1>0, <5>1, <5>2
      <4> HIDE DEF r1, r2
      <4>3. RequestsAscend(Append(requests, r1), current.id, issued + 1)
        BY <1>0, <4>1, PostedAscend DEF TypeOK, OrderInv
      <4>4. Append(requests, r1) \in Seq(Request)
        BY <4>1, AppendTyped DEF TypeOK
      <4>5. RequestsAscend(Append(Append(requests, r1), r2), current.id, issued + 1 + 1)
        <5>1. PICK n \in Nat : n = issued + 1
          BY <1>0
        <5>2. RequestsAscend(Append(Append(requests, r1), r2), current.id, n + 1)
          BY <1>0, <4>1, <4>3, <4>4, <5>1, PostedAscend
        <5> QED
          BY <5>1, <5>2
      <4> QED
        BY <4>2, <4>5
    <3> QED
      BY <3>1, <3>2
  <2> QED
    BY <1>4, <2>1, <2>2 DEF ServerDeliver, OrderInv, Answered, driverVars
<1>5. CASE Ended
  BY <1>5 DEF Ended, OrderInv, Answered, vars, driverVars, clientVars
<1> QED
  BY <1>1, <1>2, <1>3, <1>4, <1>5 DEF ServerStep

\* A step of the driver that only changes events, and adds no response to them.
LEMMA NoiseOrder ==
  ASSUME TypeOK, OrderInv, pc # "idle", pc' # "idle",
         UNCHANGED <<requests, current, issued, delivered>>,
         NEW e \in Event, e.type # "response",
         events' = events \/ events' = Append(events, e)
  PROVE  OrderInv'
<1>1. Answered' = Answered /\ Answered \in Int
  BY DEF Answered, TypeOK
<1>2. AnswersAscend(events', delivered, Answered)
  BY <1>1, AscendNoise DEF OrderInv, TypeOK
<1> QED
  BY <1>1, <1>2 DEF OrderInv

\* A step of the driver that posts the response to the current request, with no
\* other response before or after it, and becomes idle.
LEMMA AnswerOrder ==
  ASSUME TypeOK, OrderInv, pc # "idle", pc' = "idle",
         UNCHANGED <<requests, current, issued, delivered>>,
         AnswersAscend(events', delivered, current.id)
  PROVE  OrderInv'
  BY DEF OrderInv, Answered

\* The usual end of a handler: the response, then an event that is none.
LEMMA ResponseThenNoise ==
  ASSUME TypeOK, OrderInv, pc # "idle",
         NEW e \in Event, e.id = current.id, NEW f \in Event, f.type # "response"
  PROVE  /\ Append(Append(events, e), f) \in Seq(Event)
         /\ AnswersAscend(Append(Append(events, e), f), delivered, current.id)
<1>1. events \in Seq(Event) /\ delivered \in Seq(Nat) /\ current.id \in Int
  BY DEF TypeOK
<1>2. Append(events, e) \in Seq(Event)
  BY <1>1, AppendTyped
<1>3. AnswersAscend(Append(events, e), delivered, current.id)
  BY <1>1, PostResponse DEF OrderInv
<1> QED
  BY <1>1, <1>2, <1>3, AppendTyped, AscendNoise

\* The events of the modes and of progress come before the response to configArgs.
LEMMA ModesThenResponse ==
  ASSUME TypeOK, OrderInv, pc # "idle",
         NEW a \in Event, NEW b \in Event, NEW c \in Event,
         a.type # "response", b.type # "response", c.type # "response",
         NEW e \in Event, e.id = current.id
  PROVE  AnswersAscend(Append(Append(Append(Append(events, a), b), c), e), delivered,
                       current.id)
<1>0. delivered \in Seq(Nat) /\ Answered \in Int
  BY DEF TypeOK, Answered
<1>1. events \in Seq(Event) /\ AnswersAscend(events, delivered, Answered)
  BY DEF TypeOK, OrderInv
<1>2. PICK s1 \in Seq(Event) : s1 = Append(events, a) /\ AnswersAscend(s1, delivered, Answered)
  BY <1>0, <1>1, AppendTyped, AscendNoise
<1>3. PICK s2 \in Seq(Event) : s2 = Append(s1, b) /\ AnswersAscend(s2, delivered, Answered)
  BY <1>0, <1>2, AppendTyped, AscendNoise
<1>4. PICK s3 \in Seq(Event) : s3 = Append(s2, c) /\ AnswersAscend(s3, delivered, Answered)
  BY <1>0, <1>3, AppendTyped, AscendNoise
<1>5. AnswersAscend(Append(s3, e), delivered, current.id)
  BY <1>4, PostResponse
<1> QED
  BY <1>2, <1>3, <1>4, <1>5

\* The steps of the driver thread keep the order.
LEMMA DriverOrder ==
  ASSUME TypeOK, OrderInv, DriverStep
  PROVE  OrderInv'
<1>0. /\ current.id \in Nat /\ issued \in Nat /\ Answered \in Int
      /\ events \in Seq(Event) /\ delivered \in Seq(Nat)
  BY DEF TypeOK, Answered
<1>1. CASE DriverTake
  <2> DEFINE r == Head(requests)
             busy == [type |-> "busy", id |-> r.id, kind |-> r.kind, error |-> FALSE]
  <2>1. requests # <<>> /\ requests \in Seq(Request)
    BY <1>1 DEF DriverTake, TypeOK
  <2>2. /\ r \in Request /\ r = requests[1] /\ Len(requests) \in Nat \ {0}
        /\ Len(Tail(requests)) = Len(requests) - 1
        /\ \A i \in 1 .. Len(Tail(requests)) : Tail(requests)[i] = requests[i + 1]
    BY <2>1, HeadTailProperties, EmptySeq
  <2>3. r.id \in Nat /\ current.id < r.id /\ busy \in Event /\ busy.type # "response"
    BY <2>2 DEF Request, Event, EventTypes, OrderInv, RequestsAscend
  <2>4. RequestsAscend(Tail(requests), r.id, issued)
    BY <2>2 DEF OrderInv, RequestsAscend
  <2>5. current' = r /\ requests' = Tail(requests) /\ issued' = issued /\ delivered' = delivered
        /\ pc = "idle"
    BY <1>1 DEF DriverTake, clientVars
  <2>6. events' = events \/ events' = Append(events, busy)
    BY <1>1 DEF DriverTake
  <2> HIDE DEF r, busy
  <2>7. Answered = current.id /\ Answered' \in Int /\ Answered <= Answered'
    BY <1>0, <2>3, <2>5 DEF Answered
  <2>8. AnswersAscend(events, delivered, Answered')
    BY <1>0, <2>7, AscendRaise DEF OrderInv
  <2>9. AnswersAscend(events', delivered, Answered')
    BY <1>0, <2>3, <2>6, <2>7, <2>8, AscendNoise
  <2> QED
    BY <1>0, <2>3, <2>4, <2>5, <2>9 DEF OrderInv
<1>2. CASE DriverWork
  BY <1>2 DEF DriverWork, OrderInv, Answered, clientVars
<1>3. CASE DriverReply
  <2>0. UNCHANGED <<requests, current, issued, delivered>> /\ pc # "idle" /\ pc' = "idle"
    BY <1>3 DEF DriverReply, clientVars
  <2>1. /\ Post("response") \in Event /\ Post("done") \in Event
        /\ Post("enterMode") \in Event /\ Post("leaveMode") \in Event
    BY PostTyped DEF EventTypes
  <2>2. /\ Post("response").id = current.id /\ Post("done").type # "response"
        /\ Post("enterMode").type # "response" /\ Post("leaveMode").type # "response"
    BY DEF Post
  <2>3. events' = events \o Replies(current.kind)
    BY <1>3 DEF DriverReply
  <2>4. AnswersAscend(events', delivered, current.id)
    <3>1. CASE Replies(current.kind) = <<Post("response")>>
      <4>1. events' = Append(events, Post("response"))
        BY <1>0, <2>1, <2>3, <3>1, ConcatOne
      <4> QED
        BY <1>0, <2>0, <2>1, <2>2, <4>1, PostResponse DEF OrderInv
    <3>2. CASE Replies(current.kind) = <<Post("response"), Post("done")>>
      <4>1. events' = Append(Append(events, Post("response")), Post("done"))
        BY <1>0, <2>1, <2>3, <3>2, ConcatTwo
      <4> QED
        BY <2>0, <2>1, <2>2, <4>1, ResponseThenNoise
    <3>3. CASE Replies(current.kind) =
                 <<Post("enterMode"), Post("leaveMode"), Post("done"), Post("response")>>
      <4>1. events' = Append(Append(Append(Append(events, Post("enterMode")),
                             Post("leaveMode")), Post("done")), Post("response"))
        BY <1>0, <2>1, <2>3, <3>3, ConcatFour
      <4> QED
        BY <2>0, <2>1, <2>2, <4>1, ModesThenResponse
    <3> QED
      BY <3>1, <3>2, <3>3 DEF Replies
  <2> QED
    BY <2>0, <2>4, AnswerOrder
<1>4. CASE ExecuteEmpty
  <2> DEFINE e == [Post("response") EXCEPT !.error = TRUE]
  <2>0. UNCHANGED <<requests, current, issued, delivered>> /\ pc # "idle" /\ pc' = "idle"
    BY <1>4 DEF ExecuteEmpty, clientVars
  <2>1. /\ e \in Event /\ Post("done") \in Event
        /\ e.id = current.id /\ Post("done").type # "response"
    BY PostTyped DEF EventTypes, Event, Post
  <2>2. events' = events \o <<e, Post("done")>>
    BY <1>4 DEF ExecuteEmpty
  <2> HIDE DEF e
  <2>3. AnswersAscend(events', delivered, current.id)
    <3>1. events' = Append(Append(events, e), Post("done"))
      BY <1>0, <2>1, <2>2, ConcatTwo
    <3> QED
      BY <2>0, <2>1, <3>1, ResponseThenNoise
  <2> QED
    BY <2>0, <2>3, AnswerOrder
<1>5. CASE ExecuteBegin
  <2>1. Post("rootCreated") \in Event /\ Post("rootCreated").type # "response"
    BY PostTyped DEF EventTypes, Post
  <2> QED
    BY <1>5, <2>1, NoiseOrder DEF ExecuteBegin, clientVars
<1>6. CASE ExecuteCheck
  BY <1>6 DEF ExecuteCheck, OrderInv, Answered, clientVars
<1>7. CASE ExecuteCommand
  <2>1. Post("disconnected") \in Event /\ Post("disconnected").type # "response"
    BY PostTyped DEF EventTypes, Post
  <2> QED
    BY <1>7, <2>1, NoiseOrder DEF ExecuteCommand, clientVars
<1>8. CASE ExecuteReply
  <2> DEFINE both == Append(Append(events, Post("response")), Post("done"))
  <2>0. UNCHANGED <<requests, current, issued, delivered>> /\ pc # "idle" /\ pc' = "idle"
    BY <1>8 DEF ExecuteReply, clientVars
  <2>1. Post("response") \in Event /\ Post("done") \in Event /\ Post("rootCompleated") \in Event
    BY PostTyped DEF EventTypes
  <2>2. /\ Post("response").id = current.id /\ Post("done").type # "response"
        /\ Post("rootCompleated").type # "response"
    BY DEF Post
  <2>3. both \in Seq(Event) /\ AnswersAscend(both, delivered, current.id)
    BY <2>0, <2>1, <2>2, ResponseThenNoise
  <2>4. events \o <<Post("response"), Post("done")>> = both
    BY <1>0, <2>1, ConcatTwo
  <2>5. events' = both \/ events' = Append(both, Post("rootCompleated"))
    <3>1. events' = both \o (IF rooted THEN <<Post("rootCompleated")>> ELSE <<>>)
      BY <1>8, <2>4 DEF ExecuteReply
    <3> HIDE DEF both
    <3> QED
      BY <2>1, <2>3, <3>1, ConcatOne, ConcatEmptySeq
  <2> HIDE DEF both
  <2>6. AnswersAscend(events', delivered, current.id)
    <3>1. current.id \in Int
      BY <1>0
    <3>2. AnswersAscend(Append(both, Post("rootCompleated")), delivered, current.id)
      BY <1>0, <2>1, <2>2, <2>3, <3>1, AscendNoise
    <3> QED
      BY <2>3, <2>5, <3>2
  <2> QED
    BY <2>0, <2>6, AnswerOrder
<1>9. CASE DriverExit
  <2>1. /\ requests' = <<>> /\ events' = <<>>
        /\ UNCHANGED <<pc, current, issued, delivered>>
    BY <1>9 DEF DriverExit, driverVars, clientVars
  <2>2. RequestsAscend(<<>>, current.id, issued)
    BY DEF OrderInv, RequestsAscend
  <2>3. AnswersAscend(<<>>, delivered, Answered)
    BY DEF OrderInv, AnswersAscend
  <2> QED
    BY <2>1, <2>2, <2>3 DEF OrderInv, Answered
<1> QED
  BY <1>1, <1>2, <1>3, <1>4, <1>5, <1>6, <1>7, <1>8, <1>9 DEF DriverStep

\* The order holds initially, and every step of either thread keeps it.
LEMMA InitOrder == Init => OrderInv
  BY DEF Init, OrderInv, RequestsAscend, AnswersAscend, Answered

\* Every step keeps the order of what is in flight.
LEMMA OrderStep == TypeOK /\ OrderInv /\ [Next]_vars => OrderInv'
<1> SUFFICES ASSUME TypeOK, OrderInv, [Next]_vars PROVE OrderInv'
  OBVIOUS
<1>1. CASE UNCHANGED vars
  BY <1>1 DEF OrderInv, Answered, vars, driverVars, clientVars
<1>2. CASE Next
  BY <1>2, ServerOrder, DriverOrder DEF Next
<1> QED
  BY <1>1, <1>2

\* The order is an invariant.
LEMMA OrderKept == Spec => []OrderInv
  BY InitOrder, OrderStep, TypeCorrect, PTL DEF Spec

\* Finished signals are emitted at most once per request and in the order in which
\* the requests were issued, for any number and mixture of requests, whatever the
\* driver implements, however the two threads interleave.
THEOREM DeliveryInOrder == Spec => []InOrder
<1>1. OrderInv => InOrder
  BY DEF OrderInv, AnswersAscend, InOrder
<1> QED
  BY <1>1, OrderKept, PTL

-----------------------------------------------------------------------------
\* Why an interrupt stops a batch: the flag stays up until the next request is
\* taken, so after the command it found running the loop head ends the batch.
InterruptInv ==
  /\ late \in {0, 1}
  /\ late = 1 => interrupted /\ pc # "run"

\* After a stop, a disconnect or a close, the batch finishes the command it is in
\* and starts no other, whenever the interrupt arrives.
THEOREM InterruptStops == Spec => []InterruptBound
<1>1. Init => InterruptInv
  BY DEF Init, InterruptInv
<1>2. TypeOK /\ InterruptInv /\ [Next]_vars => InterruptInv'
  <2> SUFFICES ASSUME TypeOK, InterruptInv, [Next]_vars PROVE InterruptInv'
    OBVIOUS
  <2> USE DEF InterruptInv
  <2>1. CASE UNCHANGED vars
    BY <2>1 DEF vars, driverVars
  <2>2. ASSUME NEW kind \in UserKinds, Call(kind) PROVE InterruptInv'
    BY <2>2 DEF Call, TypeOK
  <2>3. CASE StopCurrentEvent \/ Close
    BY <2>3 DEF StopCurrentEvent, Close, TypeOK
  <2>4. CASE ServerStep \/ Ended
    BY <2>4 DEF ServerStep, ServerForward, ServerDeliver, Ended, vars, driverVars
  <2>5. CASE DriverTake
    BY <2>5 DEF DriverTake
  <2>6. CASE DriverWork \/ DriverReply \/ ExecuteEmpty \/ ExecuteBegin \/ ExecuteReply
    <3>1. pc' # "run" /\ UNCHANGED <<late, interrupted>>
      BY <2>6 DEF DriverWork, DriverReply, ExecuteEmpty, ExecuteBegin, ExecuteReply
    <3> QED
      BY <3>1
  <2>7. CASE ExecuteCheck
    <3>1. UNCHANGED <<late, interrupted>> /\ (interrupted => pc' # "run")
      BY <2>7 DEF ExecuteCheck, BatchOver
    <3> QED
      BY <3>1
  <2>8. CASE ExecuteCommand
    <3>1. late = 0 /\ UNCHANGED interrupted /\ pc' # "run"
      BY <2>8 DEF ExecuteCommand
    <3>2. late' = IF interrupted THEN 1 ELSE 0
      BY <2>8, <3>1 DEF ExecuteCommand, LateCap
    <3> QED
      BY <3>1, <3>2
  <2>9. CASE DriverExit
    BY <2>9 DEF DriverExit, driverVars
  <2> QED
    BY <2>1, <2>2, <2>3, <2>4, <2>5, <2>6, <2>7, <2>8, <2>9 DEF Next, DriverStep
<1>3. InterruptInv => InterruptBound
  BY DEF InterruptInv, InterruptBound
<1> QED
  BY <1>1, <1>2, <1>3, TypeCorrect, PTL DEF Spec

-----------------------------------------------------------------------------
\* The first response in the event queue is above all delivered, and was issued.
LEMMA NextAnswer ==
  ASSUME TypeOK, OrderInv, events # <<>>, Head(events).type = "response"
  PROVE  /\ Head(events).id \in 1 .. issued
         /\ \A i \in 1 .. Len(delivered) : delivered[i] < Head(events).id
<1>1. events \in Seq(Event) /\ delivered \in Seq(Nat) /\ current.id \in Nat /\ issued \in Nat
  BY DEF TypeOK
<1>2. 1 \in 1 .. Len(events) /\ Head(events) = events[1] /\ events[1].id \in Nat
  BY <1>1, EmptySeq, Numbers
<1>3. 0 < events[1].id /\ events[1].id <= Answered /\ \A i \in 1 .. Len(delivered) : delivered[i] < events[1].id
  BY <1>2 DEF OrderInv, AnswersAscend
<1>4. Answered <= current.id /\ Answered \in Int /\ current.id <= issued
  BY <1>1 DEF Answered, OrderInv, RequestsAscend
<1> QED
  BY <1>1, <1>2, <1>3, <1>4

\* A step that issues and delivers nothing, and does not reopen the server, is a
\* step of the promise: a close or a stutter.
LEMMA SilentStep ==
  ASSUME TypeOK, UNCHANGED <<issued, delivered>>,
         life' = life \/ (life' # "running")
  PROVE  [Delivery!Next]_(Delivery!vars)
  BY DEF TypeOK, Delivery!Next, Delivery!Close, Delivery!vars

\* Every step of either thread is a step of the promise, or changes nothing in it.
LEMMA RefinementStep == TypeOK /\ OrderInv /\ [Next]_vars => [Delivery!Next]_(Delivery!vars)
<1> SUFFICES ASSUME TypeOK, OrderInv, [Next]_vars PROVE [Delivery!Next]_(Delivery!vars)
  OBVIOUS
<1>1. CASE UNCHANGED vars
  BY <1>1, SilentStep DEF vars, clientVars
<1>2. ASSUME NEW kind \in UserKinds, Call(kind) PROVE Delivery!Issue
  BY <1>2 DEF Call, TypeOK, Delivery!Issue
<1>3. CASE StopCurrentEvent \/ Close \/ ServerForward \/ Ended
  BY <1>3, SilentStep
  DEF StopCurrentEvent, Close, ServerForward, Ended, vars, clientVars
<1>4. CASE ServerDeliver
  <2> DEFINE e == Head(events)
  <2>1. /\ life = "running" /\ life' = life
        /\ delivered' = IF e.kind \in Dispatched THEN Append(delivered, e.id) ELSE delivered
        /\ issued' = IF FollowUp(e) THEN issued + 2 ELSE issued
    BY <1>4 DEF ServerDeliver
  <2>2. issued' \in Nat /\ issued' >= issued
    BY <2>1 DEF TypeOK
  <2>3. e.id \in 1 .. issued /\ \A i \in 1 .. Len(delivered) : delivered[i] < e.id
    BY <1>4, NextAnswer DEF ServerDeliver
  <2> HIDE DEF e
  <2>4. CASE e.kind \in Dispatched
    BY <2>1, <2>2, <2>3, <2>4 DEF Delivery!Next, Delivery!Answer
  <2>5. CASE e.kind \notin Dispatched
    BY <2>1, <2>2, <2>5 DEF Delivery!Next, Delivery!Issue
  <2> QED
    BY <2>4, <2>5
<1>5. CASE DriverWork
  <2>1. life' = life \/ life' = "aborted"
    BY <1>5 DEF DriverWork, Connecting, Disconnecting, LoadingDatabases, Discovering,
                Commanding, Refusing, FileWork, Configuring
  <2> QED
    BY <1>5, <2>1, SilentStep DEF DriverWork, clientVars
<1>6. CASE \/ DriverTake \/ DriverReply \/ ExecuteEmpty \/ ExecuteBegin \/ ExecuteCheck
           \/ ExecuteCommand \/ ExecuteReply \/ DriverExit
  <2>1. UNCHANGED clientVars /\ (life' = life \/ life' = "stopped")
    BY <1>6 DEF DriverTake, DriverReply, ExecuteEmpty, ExecuteBegin, ExecuteCheck,
                ExecuteCommand, ExecuteReply, DriverExit
  <2> QED
    BY <2>1, SilentStep DEF clientVars
<1> QED
  BY <1>1, <1>2, <1>3, <1>4, <1>5, <1>6 DEF Next, ServerStep, DriverStep, Delivery!Next

\* The server and its driver implement OrderedDelivery: requests are answered in
\* order, at most once, only after they were issued and never after a close.
THEOREM DeliveryRefinement == Spec => DeliverySpec
<1>1. Init => Delivery!Init
  BY DEF Init, Delivery!Init
<1>2. TypeOK /\ OrderInv /\ [Next]_vars => [Delivery!Next]_(Delivery!vars)
  BY RefinementStep
<1>3. Spec => []OrderInv
  BY OrderKept
<1> QED
  BY <1>1, <1>2, <1>3, TypeCorrect, PTL DEF Spec, DeliverySpec, Delivery!Spec

-----------------------------------------------------------------------------
(* What is still to come.  That buttons, labels and the progress bar settle *)
(* when the queues have drained is not inductive: while something is queued  *)
(* the invariants name the request, handler or event that will set it right. *)

\* The elements of a queue, when one joins and when the first leaves.
LEMMA RangeAppend ==
  ASSUME NEW S, NEW s \in Seq(S), NEW e \in S
  PROVE  Range(Append(s, e)) = Range(s) \cup {e}
<1>1. /\ DOMAIN Append(s, e) = 1 .. Len(s) + 1 /\ DOMAIN s = 1 .. Len(s) /\ Len(s) \in Nat
      /\ \A i \in 1 .. Len(s) : Append(s, e)[i] = s[i]
      /\ Append(s, e)[Len(s) + 1] = e
  BY AppendProperties, LenProperties
<1> QED
  BY <1>1 DEF Range

\* What two appended events add.
LEMMA RangeAppendTwo ==
  ASSUME NEW S, NEW s \in Seq(S), NEW a \in S, NEW b \in S
  PROVE  Range(Append(Append(s, a), b)) = Range(s) \cup {a, b}
<1> DEFINE u == Append(s, a)
<1>1. u \in Seq(S) /\ Range(u) = Range(s) \cup {a}
  BY AppendTyped, RangeAppend
<1> HIDE DEF u
<1>2. Range(Append(u, b)) = Range(u) \cup {b}
  BY <1>1, RangeAppend
<1> QED
  BY <1>1, <1>2 DEF u

\* What a handled event takes away.
LEMMA RangeTail ==
  ASSUME NEW S, NEW s \in Seq(S), s # <<>>
  PROVE  Range(s) = {Head(s)} \cup Range(Tail(s))
<1>1. /\ Len(s) \in Nat /\ Len(s) > 0 /\ DOMAIN s = 1 .. Len(s) /\ Head(s) = s[1]
      /\ DOMAIN Tail(s) = 1 .. Len(s) - 1
      /\ \A i \in 1 .. Len(s) - 1 : Tail(s)[i] = s[i + 1]
  OBVIOUS
<1>2. \A j \in 1 .. Len(s) : j = 1 \/ (j - 1 \in 1 .. Len(s) - 1 /\ Tail(s)[j - 1] = s[j])
  BY <1>1
<1>3. ASSUME NEW x \in Range(s) PROVE x \in {Head(s)} \cup Range(Tail(s))
  <2>1. PICK j \in 1 .. Len(s) : x = s[j]
    BY <1>1 DEF Range
  <2>2. CASE j = 1
    BY <1>1, <2>1, <2>2
  <2>3. CASE j # 1
    <3>1. j - 1 \in DOMAIN Tail(s) /\ Tail(s)[j - 1] = x
      BY <1>1, <1>2, <2>1, <2>3
    <3> QED
      BY <3>1 DEF Range
  <2> QED
    BY <2>2, <2>3
<1>4. ASSUME NEW x \in Range(Tail(s)) PROVE x \in Range(s)
  <2>1. PICK i \in 1 .. Len(s) - 1 : x = s[i + 1]
    BY <1>1 DEF Range
  <2>2. i + 1 \in DOMAIN s
    BY <1>1
  <2> QED
    BY <2>1, <2>2 DEF Range
<1>5. Head(s) \in Range(s)
  BY <1>1 DEF Range
<1> QED
  BY <1>3, <1>4, <1>5

\* The queue s has an element of A with no element of B behind it.
LastIn(s, A, B) ==
  \E i \in 1 .. Len(s) : s[i] \in A /\ \A j \in 1 .. Len(s) : i < j => s[j] \notin B

\* A new event that is not in B, or is in A, keeps the last one of B in A.
LEMMA LastAppend ==
  ASSUME NEW S, NEW s \in Seq(S), NEW e \in S, NEW A, NEW B,
         (LastIn(s, A, B) /\ e \notin B) \/ e \in A
  PROVE  LastIn(Append(s, e), A, B)
<1>1. /\ Len(Append(s, e)) = Len(s) + 1 /\ Len(s) \in Nat
      /\ \A i \in 1 .. Len(s) : Append(s, e)[i] = s[i]
      /\ Append(s, e)[Len(s) + 1] = e
  BY Appended, LenProperties
<1>2. CASE e \in A
  <2>1. Len(s) + 1 \in 1 .. Len(Append(s, e))
    BY <1>1
  <2> QED
    BY <1>1, <1>2, <2>1 DEF LastIn
<1>3. CASE LastIn(s, A, B) /\ e \notin B
  <2>1. PICK i \in 1 .. Len(s) : s[i] \in A /\ \A j \in 1 .. Len(s) : i < j => s[j] \notin B
    BY <1>3 DEF LastIn
  <2>2. \A j \in 1 .. Len(s) + 1 : j \in 1 .. Len(s) \/ j = Len(s) + 1
    BY <1>1
  <2> QED
    BY <1>1, <1>3, <2>1, <2>2 DEF LastIn
<1> QED
  BY <1>2, <1>3

\* Handling an event keeps it too, unless it was that last one.
LEMMA LastTail ==
  ASSUME NEW S, NEW s \in Seq(S), s # <<>>, NEW A, NEW B, LastIn(s, A, B)
  PROVE  LastIn(Tail(s), A, B) \/ (Head(s) \in A /\ Range(Tail(s)) \cap B = {})
<1>1. /\ Len(s) \in Nat /\ Len(s) > 0 /\ Head(s) = s[1]
      /\ DOMAIN Tail(s) = 1 .. Len(s) - 1 /\ Len(Tail(s)) = Len(s) - 1
      /\ \A i \in 1 .. Len(s) - 1 : Tail(s)[i] = s[i + 1]
  OBVIOUS
<1>2. PICK i \in 1 .. Len(s) : s[i] \in A /\ \A j \in 1 .. Len(s) : i < j => s[j] \notin B
  BY DEF LastIn
<1>3. CASE i = 1
  BY <1>1, <1>2, <1>3 DEF Range
<1>4. CASE i > 1
  <2>1. i - 1 \in 1 .. Len(Tail(s)) /\ Tail(s)[i - 1] \in A
    BY <1>1, <1>2, <1>4
  <2>2. \A j \in 1 .. Len(Tail(s)) : i - 1 < j => Tail(s)[j] \notin B
    BY <1>1, <1>2
  <2> QED
    BY <2>1, <2>2 DEF LastIn
<1> QED
  BY <1>2, <1>3, <1>4

\* What a handler posts at its end, one event after the other.
LEMMA RepliesAppended ==
  ASSUME TypeOK
  PROVE  /\ current.kind \in FileKinds =>
              events \o Replies(current.kind) = Append(events, Post("response"))
         /\ current.kind = "configArgs" =>
              events \o Replies(current.kind) =
                Append(Append(Append(Append(events, Post("enterMode")), Post("leaveMode")),
                              Post("done")), Post("response"))
         /\ current.kind \notin FileKinds \cup {"configArgs"} =>
              events \o Replies(current.kind) =
                Append(Append(events, Post("response")), Post("done"))
<1>1. /\ Post("response") \in Event /\ Post("done") \in Event
      /\ Post("enterMode") \in Event /\ Post("leaveMode") \in Event
      /\ events \in Seq(Event)
  BY PostTyped DEF EventTypes, TypeOK
<1> QED
  BY <1>1, ConcatOne, ConcatTwo, ConcatFour DEF Replies, FileKinds

\* What an Execute posts at its end: its root is completed, if it was announced.
LEMMA BatchAppended ==
  ASSUME TypeOK, ExecuteReply
  PROVE  LET both == Append(Append(events, Post("response")), Post("done"))
         IN  events' = both \/ events' = Append(both, Post("rootCompleated"))
<1> DEFINE both == Append(Append(events, Post("response")), Post("done"))
<1>1. /\ Post("response") \in Event /\ Post("done") \in Event
      /\ Post("rootCompleated") \in Event /\ events \in Seq(Event)
  BY PostTyped DEF EventTypes, TypeOK
<1>2. events \o <<Post("response"), Post("done")>> = both /\ both \in Seq(Event)
  BY <1>1, ConcatTwo, AppendTyped
<1>3. events' = both \o (IF rooted THEN <<Post("rootCompleated")>> ELSE <<>>)
  BY <1>2 DEF ExecuteReply
<1> HIDE DEF both
<1>4. events' = both \/ events' = Append(both, Post("rootCompleated"))
  BY <1>1, <1>2, <1>3, ConcatOne, ConcatEmptySeq
<1> QED
  BY <1>4 DEF both

\* The driver only adds events, except when it exits.
LEMMA DriverPosts ==
  ASSUME TypeOK, DriverStep, ~DriverExit
  PROVE  Range(events) \subseteq Range(events')
<1>1. ASSUME NEW es \in Seq(Event), events' = events \o es PROVE Range(events) \subseteq Range(events')
  BY <1>1, RangeConcatenation DEF TypeOK
<1>2. ASSUME NEW e \in Event, events' = Append(events, e) PROVE Range(events) \subseteq Range(events')
  BY <1>2, RangeAppend DEF TypeOK
<1>3. \A type \in EventTypes : Post(type) \in Event
  BY PostTyped
<1>4. CASE DriverTake
  <2> DEFINE r == Head(requests)
  <2>1. r \in Request
    BY <1>4, HeadTailProperties DEF DriverTake, TypeOK
  <2>2. [type |-> "busy", id |-> r.id, kind |-> r.kind, error |-> FALSE] \in Event
    BY <2>1 DEF Request, Event, EventTypes
  <2> QED
    BY <1>4, <2>2, <1>2 DEF DriverTake
<1>5. CASE DriverReply
  BY <1>5, <1>1, RepliesTyped DEF DriverReply
<1>6. CASE ExecuteEmpty
  <2> DEFINE a == [Post("response") EXCEPT !.error = TRUE]
  <2>1. a \in Event /\ Post("done") \in Event
    BY <1>3 DEF EventTypes, Event
  <2>2. events' = events \o <<a, Post("done")>>
    BY <1>6 DEF ExecuteEmpty
  <2> HIDE DEF a
  <2>3. <<a, Post("done")>> \in Seq(Event)
    BY <2>1
  <2> QED
    BY <2>2, <2>3, <1>1
<1>7. CASE ExecuteBegin
  BY <1>7, <1>2, <1>3 DEF ExecuteBegin, EventTypes
<1>8. CASE ExecuteCommand
  <2>1. events' = events \/ events' = Append(events, Post("disconnected"))
    BY <1>8 DEF ExecuteCommand
  <2> QED
    BY <2>1, <1>2, <1>3 DEF EventTypes
<1>9. CASE ExecuteReply
  <2>1. /\ <<Post("response"), Post("done")>> \in Seq(Event)
        /\ <<Post("rootCompleated")>> \in Seq(Event) /\ <<>> \in Seq(Event)
    BY <1>3, EmptySeq DEF EventTypes
  <2>2. PICK es \in Seq(Event) : events' = (events \o <<Post("response"), Post("done")>>) \o es
    BY <1>9, <2>1 DEF ExecuteReply
  <2> DEFINE b == <<Post("response"), Post("done")>>
  <2>3. b \o es \in Seq(Event) /\ events \in Seq(Event) /\ b \in Seq(Event)
    BY <2>1, ConcatProperties DEF TypeOK
  <2>4. events' = (events \o b) \o es
    BY <2>2
  <2> HIDE DEF b
  <2>5. events' = events \o (b \o es)
    BY <2>3, <2>4, ConcatAssociative
  <2> QED
    BY <2>3, <2>5, <1>1
<1>10. CASE DriverWork \/ ExecuteCheck
  BY <1>10 DEF DriverWork, ExecuteCheck
<1> QED
  BY <1>4, <1>5, <1>6, <1>7, <1>8, <1>9, <1>10 DEF DriverStep

\* Discovery after a connect: while an open connection has not been through it, the
\* request is queued or being handled, or the answer that makes the server issue it
\* is about to be posted or is on its way.
DiscoverInv ==
  connected /\ ~tried =>
    \/ \E r \in Range(requests) : r.kind = "discovery"
    \/ pc = "work" /\ current.kind = "discovery"
    \/ pc = "reply" /\ current.kind = "connect" /\ ~failed
    \/ \E e \in Range(events) : e.type = "response" /\ FollowUp(e)

\* Callers and the server keep a discovery under way for an open connection.
LEMMA ServerDiscovers ==
  ASSUME TypeOK, DiscoverInv,
         \/ \E kind \in UserKinds : Call(kind)
         \/ StopCurrentEvent \/ Close \/ ServerStep \/ Ended
  PROVE  DiscoverInv'
<1> SUFFICES ASSUME connected', ~tried' PROVE DiscoverInv'
  BY DEF DiscoverInv
<1>a. UNCHANGED <<connected, tried, pc, current, failed>>
  BY DEF Call, StopCurrentEvent, Close, ServerStep, ServerForward, ServerDeliver, Ended, vars,
         driverVars, linkVars
<1>b. requests \in Seq(Request) /\ events \in Seq(Event) /\ issued \in Nat
  BY DEF TypeOK
<1>1. ASSUME NEW kind \in UserKinds, Call(kind) PROVE DiscoverInv'
  <2>1. [id |-> issued + 1, kind |-> kind] \in Request
    BY KindFacts DEF TypeOK, Request
  <2>2. Range(requests) \subseteq Range(requests') /\ events' = events
    BY <1>1, <1>b, <2>1, RangeAppend DEF Call, Posted
  <2> QED
    BY <1>a, <2>2 DEF DiscoverInv
<1>2. CASE StopCurrentEvent \/ Close \/ Ended
  BY <1>2, <1>a DEF StopCurrentEvent, Close, Ended, vars, DiscoverInv
<1>3. CASE ServerForward
  <2>1. requests' = requests /\ events' = Tail(events) /\ Head(events).type # "response"
        /\ Range(events) = {Head(events)} \cup Range(Tail(events))
    BY <1>3, <1>b, RangeTail DEF ServerForward
  <2> QED
    BY <1>a, <2>1 DEF DiscoverInv
<1>4. CASE ServerDeliver
  <2> DEFINE d == [id |-> issued + 1, kind |-> "discovery"]
             c == [id |-> issued + 2, kind |-> "configArgs"]
  <2>0. d \in Request /\ c \in Request /\ d.kind = "discovery"
    BY <1>b, KindFacts DEF Request
  <2>1. events' = Tail(events) /\ Range(events) = {Head(events)} \cup Range(Tail(events))
    BY <1>4, <1>b, RangeTail DEF ServerDeliver
  <2>2. CASE FollowUp(Head(events))
    <3>1. requests' = Append(Append(requests, d), c)
      BY <1>4, <2>2 DEF ServerDeliver, Posted
    <3> HIDE DEF d, c
    <3>2. d \in Range(Append(Append(requests, d), c))
      BY <2>0, <1>b, RangeAppendTwo
    <3>4. d \in Range(requests')
      BY <3>1, <3>2, Zenon
    <3> QED
      BY <2>0, <3>4 DEF DiscoverInv
  <2>3. CASE ~FollowUp(Head(events))
    <3>1. requests' = requests
      BY <1>4, <2>3 DEF ServerDeliver
    <3> QED
      BY <1>a, <2>1, <2>3, <3>1 DEF DiscoverInv, FollowUp
  <2> QED
    BY <2>2, <2>3
<1> QED
  BY <1>1, <1>2, <1>3, <1>4 DEF ServerStep

\* So does the driver of a local store.
LEMMA DriverDiscovers ==
  ASSUME ~Redis, TypeOK, DiscoverInv, DriverStep
  PROVE  DiscoverInv'
<1> SUFFICES ASSUME connected', ~tried' PROVE DiscoverInv'
  BY DEF DiscoverInv
<1>a. ~DriverExit
  BY DEF DriverExit
<1>b. Range(events) \subseteq Range(events')
  BY <1>a, DriverPosts
<1>c. requests \in Seq(Request) /\ events \in Seq(Event)
      /\ connected \in BOOLEAN /\ tried \in BOOLEAN /\ failed \in BOOLEAN
  BY DEF TypeOK
<1>1. CASE DriverTake
  <2>1. /\ UNCHANGED <<connected, tried>> /\ pc = "idle" /\ current' = Head(requests)
        /\ Range(requests) = {Head(requests)} \cup Range(requests')
        /\ Head(requests).kind # "configArgs" => pc' = "work"
    BY <1>1, <1>c, RangeTail DEF DriverTake, linkVars
  <2>2. \/ \E r \in Range(requests) : r.kind = "discovery"
        \/ \E e \in Range(events) : e.type = "response" /\ FollowUp(e)
    BY <2>1 DEF DiscoverInv
  <2> QED
    BY <1>b, <2>1, <2>2 DEF DiscoverInv, FollowUp
<1>2. CASE DriverWork
  <2>1. requests' = requests /\ current' = current /\ events' = events /\ pc = "work" /\ pc' = "reply"
    BY <1>2 DEF DriverWork
  <2>2. CASE Connecting
    <3>1. current.kind = "connect" /\ ~failed'
      BY <2>2 DEF Connecting
    <3> QED
      BY <2>1, <3>1 DEF DiscoverInv
  <2>3. CASE Discovering
    BY <2>3 DEF Discovering
  <2>4. CASE /\ UNCHANGED <<connected, tried>> /\ current.kind # "discovery"
    BY <1>b, <2>1, <2>4 DEF DiscoverInv, FollowUp
  <2>5. Disconnecting => ~connected'
    BY DEF Disconnecting
  <2> QED
    BY <1>2, <2>2, <2>3, <2>4, <2>5, ConstantsAssumption
    DEF DriverWork, LoadingDatabases, Commanding, Refusing, FileWork, Configuring, linkVars,
        ContentKinds, FileKinds, OptionalKinds
<1>3. CASE DriverReply
  <2>1. UNCHANGED <<connected, tried, requests>> /\ pc = "reply"
    BY <1>3 DEF DriverReply, linkVars
  <2>2. CASE current.kind = "connect" /\ ~failed
    <3>1. Post("response") \in Event /\ Post("done") \in Event
      BY PostTyped DEF EventTypes
    <3>2. events' = Append(Append(events, Post("response")), Post("done"))
      BY <1>3, <2>2, RepliesAppended DEF DriverReply, FileKinds
    <3>3. Post("response") \in Range(Append(Append(events, Post("response")), Post("done")))
      BY <3>1, <1>c, RangeAppendTwo
    <3>4. Post("response") \in Range(events')
      BY <3>2, <3>3, Zenon
    <3>5. Post("response").type = "response" /\ FollowUp(Post("response"))
      BY <2>2 DEF Post, FollowUp
    <3> QED
      BY <3>4, <3>5 DEF DiscoverInv
  <2>3. CASE ~(current.kind = "connect" /\ ~failed)
    BY <1>b, <2>1, <2>3 DEF DiscoverInv, FollowUp
  <2> QED
    BY <2>2, <2>3
<1>4. CASE ExecuteEmpty \/ ExecuteBegin \/ ExecuteCheck \/ ExecuteReply
  <2>1. UNCHANGED <<connected, tried, requests, current>>
        /\ (pc = "work" \/ pc = "reply" => current.kind \in BatchKinds)
    BY <1>4 DEF ExecuteEmpty, ExecuteBegin, ExecuteCheck, ExecuteReply, linkVars, BatchKinds
  <2> QED
    BY <1>b, <2>1 DEF DiscoverInv, FollowUp, BatchKinds
<1>5. CASE ExecuteCommand
  <2>1. UNCHANGED <<tried, requests, current>> /\ connected /\ pc = "run"
    BY <1>5, <1>c DEF ExecuteCommand, linkVars
  <2> QED
    BY <1>b, <2>1 DEF DiscoverInv, FollowUp
<1> QED
  BY <1>a, <1>1, <1>2, <1>3, <1>4, <1>5 DEF DriverStep

\* At the beginning nothing is connected.
LEMMA InitDiscover == Init => DiscoverInv
  BY DEF Init, DiscoverInv

\* Every step keeps a discovery under way for an open connection.
LEMMA DiscoverStep == ASSUME ~Redis PROVE TypeOK /\ DiscoverInv /\ [Next]_vars => DiscoverInv'
<1> SUFFICES ASSUME TypeOK, DiscoverInv, [Next]_vars PROVE DiscoverInv'
  OBVIOUS
<1>1. CASE UNCHANGED vars
  BY <1>1 DEF DiscoverInv, FollowUp, vars, driverVars, linkVars
<1>2. CASE Next
  BY <1>2, ServerDiscovers, DriverDiscovers DEF Next
<1> QED
  BY <1>1, <1>2

\* With nothing under way it has been tried.
LEMMA DiscoverAtRest == DiscoverInv => DiscoveryTried
  BY DEF DiscoverInv, DiscoveryTried, Quiescent, Range

\* A connection that is open when both queues have drained has been through
\* discovery since it was opened, for any overlap of connects, disconnects, batches
\* with QUIT and stops.  It is a theorem about the local stores: a redis connect that
\* opens the handle and is refused afterwards issues no discovery.
THEOREM DiscoveryFollows == ASSUME ~Redis PROVE Spec => []DiscoveryTried
<1>1. TypeOK /\ DiscoverInv /\ [Next]_vars => DiscoverInv'
  BY DiscoverStep
<1> QED
  BY <1>1, InitDiscover, DiscoverAtRest, TypeCorrect, PTL DEF Spec

-----------------------------------------------------------------------------
(* The progress bar.  Calls and handlers report out of step with each other, *)
(* so the invariant says who will report 100 last.                           *)

Busys == {e \in Event : e.type = "busy"}
Dones == {e \in Event : e.type = "done"}

\* Requests whose handlers report progress.
Reports(kind) == kind \notin FileKinds /\ (kind = "configArgs" => Redis)

\* Once the events in s are handled, a bar that shows b now shows 100.
Settled(s, b) == LastIn(s, Dones, Busys) \/ (b = "done" /\ Range(s) \cap Busys = {})

BarInv ==
  life = "running" /\ lastAsked \notin FileKinds =>
    \/ \E r \in Range(requests) : Reports(r.kind)
    \/ pc # "idle" /\ current.kind \notin FileKinds
    \/ Settled(events, bar)

\* A new event keeps the bar settling, or settles it.
LEMMA SettledAppend ==
  ASSUME NEW s \in Seq(Event), NEW e \in Event, NEW b,
         (Settled(s, b) /\ e.type # "busy") \/ e.type = "done"
  PROVE  Settled(Append(s, e), b)
<1>1. CASE e.type = "done"
  BY <1>1, LastAppend DEF Settled, Dones
<1>2. CASE LastIn(s, Dones, Busys) /\ e.type # "busy"
  <2>1. e \notin Busys
    BY <1>2 DEF Busys
  <2> QED
    BY <1>2, <2>1, LastAppend DEF Settled
<1>3. CASE b = "done" /\ Range(s) \cap Busys = {} /\ e.type # "busy"
  <2>1. Range(Append(s, e)) = Range(s) \cup {e} /\ e \notin Busys
    BY <1>3, RangeAppend DEF Busys
  <2> QED
    BY <1>3, <2>1 DEF Settled
<1> QED
  BY <1>1, <1>2, <1>3 DEF Settled

\* A handled event sets the bar to what the rest still settles.
LEMMA SettledTail ==
  ASSUME NEW s \in Seq(Event), s # <<>>, NEW b, Settled(s, b)
  PROVE  Settled(Tail(s), IF Head(s).type \in {"busy", "done"} THEN Head(s).type ELSE b)
<1>1. Head(s) \in Event /\ Range(s) = {Head(s)} \cup Range(Tail(s))
  BY HeadTailProperties, RangeTail
<1>2. CASE LastIn(s, Dones, Busys)
  <2>1. LastIn(Tail(s), Dones, Busys) \/ (Head(s) \in Dones /\ Range(Tail(s)) \cap Busys = {})
    BY <1>2, LastTail
  <2> QED
    BY <2>1 DEF Settled, Dones
<1>3. CASE b = "done" /\ Range(s) \cap Busys = {}
  BY <1>1, <1>3 DEF Settled, Busys
<1> QED
  BY <1>2, <1>3 DEF Settled

\* Callers and the server keep the bar settling.
LEMMA ServerSettles ==
  ASSUME TypeOK, BarInv,
         \/ \E kind \in UserKinds : Call(kind)
         \/ StopCurrentEvent \/ Close \/ ServerStep \/ Ended
  PROVE  BarInv'
<1> SUFFICES ASSUME life' = "running", lastAsked' \notin FileKinds PROVE BarInv'
  BY DEF BarInv
<1>a. UNCHANGED <<pc, current>>
  BY DEF Call, StopCurrentEvent, Close, ServerStep, ServerForward, ServerDeliver, Ended, vars,
         driverVars
<1>b. requests \in Seq(Request) /\ events \in Seq(Event) /\ issued \in Nat
  BY DEF TypeOK
<1>1. ASSUME NEW kind \in UserKinds, Call(kind) PROVE BarInv'
  <2> DEFINE r == [id |-> issued + 1, kind |-> kind]
  <2>1. r \in Request /\ Reports(r.kind)
    BY <1>1, <1>b, KindFacts, ConstantsAssumption DEF Request, Call, Reports, InternalKinds
  <2>2. requests' = Append(requests, r)
    BY <1>1 DEF Call, Posted
  <2> HIDE DEF r
  <2>3. r \in Range(Append(requests, r))
    BY <1>b, <2>1, RangeAppend
  <2>4. r \in Range(requests')
    BY <2>2, <2>3, Zenon
  <2> QED
    BY <2>1, <2>4 DEF BarInv
<1>2. CASE StopCurrentEvent
  BY <1>2, <1>a DEF StopCurrentEvent, clientVars, BarInv
<1>3. CASE Close \/ Ended
  BY <1>3 DEF Close, Ended, vars
<1>4. CASE ServerForward
  <2>1. /\ UNCHANGED <<requests, lastAsked, life>> /\ events # <<>> /\ events' = Tail(events)
        /\ bar' = IF Head(events).type \in {"busy", "done"} THEN Head(events).type ELSE bar
    BY <1>4 DEF ServerForward
  <2>2. Settled(events, bar) => Settled(events', bar')
    BY <1>b, <2>1, SettledTail
  <2> QED
    BY <1>a, <2>1, <2>2 DEF BarInv
<1>5. CASE ServerDeliver
  <2> DEFINE d == [id |-> issued + 1, kind |-> "discovery"]
             c == [id |-> issued + 2, kind |-> "configArgs"]
  <2>1. d \in Request /\ c \in Request /\ Reports(d.kind)
    BY <1>b, KindFacts DEF Request, Reports, FileKinds
  <2>2. CASE FollowUp(Head(events))
    <3>1. requests' = Append(Append(requests, d), c)
      BY <1>5, <2>2 DEF ServerDeliver, Posted
    <3> HIDE DEF d, c
    <3>2. d \in Range(Append(Append(requests, d), c))
      BY <2>1, <1>b, RangeAppendTwo
    <3>3. d \in Range(requests')
      BY <3>1, <3>2, Zenon
    <3> QED
      BY <2>1, <3>3 DEF BarInv
  <2>3. CASE ~FollowUp(Head(events))
    <3>1. /\ UNCHANGED <<requests, lastAsked, life, bar>> /\ events # <<>>
          /\ events' = Tail(events) /\ Head(events).type = "response"
      BY <1>5, <2>3 DEF ServerDeliver
    <3>2. Settled(events, bar) => Settled(events', bar')
      BY <1>b, <3>1, SettledTail
    <3> QED
      BY <1>a, <3>1, <3>2 DEF BarInv
  <2> QED
    BY <2>2, <2>3
<1> QED
  BY <1>1, <1>2, <1>3, <1>4, <1>5 DEF ServerStep

\* A handler that reports progress reports 100 at its end, and nothing else in the
\* event loop of the driver disturbs what the queue of events will show.
LEMMA DriverSettles ==
  ASSUME TypeOK, BarInv, DriverStep
  PROVE  BarInv'
<1> SUFFICES ASSUME life' = "running", lastAsked' \notin FileKinds PROVE BarInv'
  BY DEF BarInv
<1>a. UNCHANGED <<lastAsked, bar>> /\ life = "running"
  BY DEF DriverStep, DriverTake, DriverWork, DriverReply, ExecuteEmpty, ExecuteBegin, ExecuteCheck,
         ExecuteCommand, ExecuteReply, DriverExit, clientVars, Alive, LoadingDatabases, Connecting,
         Disconnecting, Discovering, Commanding, Refusing, FileWork, Configuring
<1>b. requests \in Seq(Request) /\ events \in Seq(Event)
  BY DEF TypeOK
<1>c. \A type \in EventTypes : Post(type) \in Event /\ Post(type).type = type
  BY PostTyped DEF Post
<1>1. CASE DriverTake
  <2> DEFINE r == Head(requests)
  <2>1. /\ Range(requests) = {r} \cup Range(requests') /\ pc = "idle" /\ current' = r
    BY <1>1, <1>b, RangeTail DEF DriverTake
  <2>2. CASE Reports(r.kind)
    BY <1>1, <2>1, <2>2 DEF BarInv, DriverTake, Reports
  <2>3. CASE ~Reports(r.kind)
    <3>1. events' = events
      BY <1>1, <2>3 DEF DriverTake, Reports
    <3> QED
      BY <1>a, <2>1, <2>3, <3>1 DEF BarInv
  <2> QED
    BY <2>2, <2>3
<1>2. CASE DriverWork \/ ExecuteCheck
  <2>1. UNCHANGED <<requests, events, current>> /\ pc' # "idle"
    BY <1>2 DEF DriverWork, ExecuteCheck
  <2> QED
    BY <1>a, <2>1 DEF BarInv
<1>3. CASE DriverReply
  <2>1. CASE current.kind \in FileKinds
    <3>1. events' = Append(events, Post("response")) /\ UNCHANGED <<requests, current>>
      BY <1>3, <2>1, RepliesAppended DEF DriverReply
    <3>2. Settled(events, bar) => Settled(Append(events, Post("response")), bar)
      BY <1>b, <1>c, SettledAppend DEF EventTypes
    <3>3. Settled(events, bar) => Settled(events', bar')
      BY <1>a, <3>1, <3>2, Zenon
    <3> QED
      BY <1>a, <2>1, <3>1, <3>3 DEF BarInv
  <2>2. CASE current.kind = "configArgs"
    <3> DEFINE u == Append(Append(events, Post("enterMode")), Post("leaveMode"))
               v == Append(u, Post("done"))
    <3>1. events' = Append(v, Post("response"))
      BY <1>3, <2>2, RepliesAppended DEF DriverReply
    <3>2. u \in Seq(Event)
      BY <1>b, <1>c, AppendTyped DEF EventTypes
    <3> HIDE DEF u
    <3>3. v \in Seq(Event) /\ Settled(v, bar)
      BY <1>c, <3>2, AppendTyped, SettledAppend DEF EventTypes
    <3> HIDE DEF v
    <3>4. Settled(Append(v, Post("response")), bar)
      BY <1>c, <3>3, SettledAppend DEF EventTypes
    <3>5. Settled(events', bar')
      BY <1>a, <3>1, <3>4, Zenon
    <3> QED
      BY <3>5 DEF BarInv
  <2>3. CASE current.kind \notin FileKinds \cup {"configArgs"}
    <3> DEFINE u == Append(events, Post("response"))
    <3>1. events' = Append(u, Post("done"))
      BY <1>3, <2>3, RepliesAppended DEF DriverReply
    <3>2. u \in Seq(Event)
      BY <1>b, <1>c, AppendTyped DEF EventTypes
    <3> HIDE DEF u
    <3>3. Settled(Append(u, Post("done")), bar)
      BY <1>c, <3>2, SettledAppend DEF EventTypes
    <3>4. Settled(events', bar')
      BY <1>a, <3>1, <3>3, Zenon
    <3> QED
      BY <3>4 DEF BarInv
  <2> QED
    BY <2>1, <2>2, <2>3
<1>4. CASE ExecuteEmpty
  <2> DEFINE a == [Post("response") EXCEPT !.error = TRUE]
             u == Append(events, a)
  <2>1. a \in Event
    BY <1>c DEF EventTypes, Event
  <2>2. events' = events \o <<a, Post("done")>>
    BY <1>4 DEF ExecuteEmpty
  <2> HIDE DEF a
  <2>3. events' = Append(u, Post("done")) /\ u \in Seq(Event)
    BY <1>b, <1>c, <2>1, <2>2, ConcatTwo, AppendTyped DEF EventTypes
  <2> HIDE DEF u
  <2>4. Settled(Append(u, Post("done")), bar)
    BY <1>c, <2>3, SettledAppend DEF EventTypes
  <2>5. Settled(events', bar')
    BY <1>a, <2>3, <2>4, Zenon
  <2> QED
    BY <2>5 DEF BarInv
<1>5. CASE ExecuteBegin
  BY <1>5 DEF ExecuteBegin, BarInv, BatchKinds, FileKinds
<1>6. CASE ExecuteCommand
  <2>1. /\ UNCHANGED <<requests, current>> /\ pc' # "idle"
        /\ events' = events \/ events' = Append(events, Post("disconnected"))
    BY <1>6 DEF ExecuteCommand
  <2>2. Settled(events, bar) => Settled(Append(events, Post("disconnected")), bar)
    BY <1>b, <1>c, SettledAppend DEF EventTypes
  <2>3. Settled(events, bar) => Settled(events', bar')
    BY <1>a, <2>1, <2>2, Zenon
  <2> QED
    BY <1>a, <2>1, <2>3 DEF BarInv
<1>7. CASE ExecuteReply
  <2> DEFINE u == Append(events, Post("response"))
             v == Append(u, Post("done"))
  <2>1. events' = v \/ events' = Append(v, Post("rootCompleated"))
    BY <1>7, BatchAppended
  <2>2. u \in Seq(Event)
    BY <1>b, <1>c, AppendTyped DEF EventTypes
  <2> HIDE DEF u
  <2>3. v \in Seq(Event) /\ Settled(v, bar)
    BY <1>c, <2>2, AppendTyped, SettledAppend DEF EventTypes
  <2> HIDE DEF v
  <2>4. Settled(Append(v, Post("rootCompleated")), bar)
    BY <1>c, <2>3, SettledAppend DEF EventTypes
  <2>5. Settled(events', bar')
    BY <1>a, <2>1, <2>3, <2>4, Zenon
  <2> QED
    BY <2>5 DEF BarInv
<1>8. CASE DriverExit
  BY <1>8 DEF DriverExit
<1> QED
  BY <1>1, <1>2, <1>3, <1>4, <1>5, <1>6, <1>7, <1>8 DEF DriverStep

\* At the beginning the bar is settled.
LEMMA InitBar == Init => BarInv
  BY DEF Init, BarInv, Settled, Range

\* Every step keeps it settling.
LEMMA BarStep == TypeOK /\ BarInv /\ [Next]_vars => BarInv'
<1> SUFFICES ASSUME TypeOK, BarInv, [Next]_vars PROVE BarInv'
  OBVIOUS
<1>1. CASE UNCHANGED vars
  BY <1>1 DEF BarInv, Settled, LastIn, vars, driverVars, clientVars
<1>2. CASE Next
  BY <1>2, ServerSettles, DriverSettles DEF Next
<1> QED
  BY <1>1, <1>2

\* With nothing under way it has settled.
LEMMA BarAtRest == BarInv => BarSettles
  BY DEF BarInv, BarSettles, Quiescent, Settled, LastIn, Range

\* Whenever both queues have drained the progress bar shows 100, whatever mixture of
\* requests and stops was issued, unless the last was about the history file.
THEOREM BarAlwaysSettles == Spec => []BarSettles
  BY InitBar, BarStep, BarAtRest, TypeCorrect, PTL DEF Spec
=============================================================================
