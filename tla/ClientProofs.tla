---------------------------- MODULE ClientProofs ----------------------------
(***************************************************************************)
(* Proofs about Client, for every value of its constants: the promises of  *)
(* the server hold under the explorer and the console as well, and the     *)
(* buttons and labels of the console settle.                               *)
(***************************************************************************)
EXTENDS Client, ServerDriverProofs

-----------------------------------------------------------------------------
(* The widgets only call the server, with one exception: the assertion that *)
(* openConsole runs into may end the process.                               *)

Aborts ==
  /\ life' = "aborted"
  /\ UNCHANGED <<requests, events, driverVars, linkVars, interrupted, clientVars>>

\* A step of the composition is one of server and driver, or a failed assertion.
LEMMA ClientSteps == [ClientNext]_clientAllVars => [Next]_vars \/ Aborts
<1> SUFFICES ASSUME [ClientNext]_clientAllVars PROVE [Next]_vars \/ Aborts
  OBVIOUS
<1>1. ASSUME NEW kind, Ask(kind) PROVE Next
  BY <1>1 DEF Ask, Next
<1>2. CASE ShowMenu \/ DismissMenu \/ CloseConsole \/ UNCHANGED clientAllVars
  BY <1>2 DEF ShowMenu, DismissMenu, CloseConsole, clientAllVars
<1>3. CASE OpenConsole
  <2>1. UNCHANGED <<requests, events, driverVars, linkVars, interrupted, clientVars>>
        /\ (life' = life \/ life' = "aborted")
    BY <1>3 DEF OpenConsole
  <2> QED
    BY <2>1 DEF Aborts, vars
<1>4. CASE ChooseEntry \/ ChooseConnect \/ PressConnection \/ PressExecute
  BY <1>1, <1>4 DEF ChooseEntry, ChooseConnect, PressConnection, PressExecute
<1>5. CASE PressStop \/ CloseServer \/ Deliver \/ Forward \/ DriverTurn \/ ClientEnded
  BY <1>5 DEF PressStop, CloseServer, Deliver, Forward, DriverTurn, ClientEnded, Next, ServerStep
<1> QED
  BY <1>2, <1>3, <1>4, <1>5 DEF ClientNext, User

\* The client keeps the types of server and driver.
LEMMA ClientTyped == TypeInv /\ [ClientNext]_clientAllVars => TypeInv'
<1>1. TypeInv /\ Aborts => TypeInv'
  BY DEF Aborts, TypeInv, TypeOK, driverVars, linkVars, clientVars
<1> QED
  BY <1>1, ClientSteps, TypeStep

\* Every variable of the server and the driver keeps its type under the client.
THEOREM ClientTypeCorrect == ClientSpec => []TypeOK
<1>1. ClientInit => TypeInv
  BY InitTyped DEF ClientInit
<1>2. TypeInv => TypeOK
  BY DEF TypeInv
<1> QED
  BY <1>1, <1>2, ClientTyped, PTL DEF ClientSpec

\* Requests issued through menus and buttons are answered in order, at most once,
\* only after they were issued and never after a close, a failed assertion included.
THEOREM ClientDelivery == ClientSpec => DeliverySpec
<1>1. ClientInit => OrderInv /\ Delivery!Init
  BY InitOrder DEF ClientInit, Init, Delivery!Init
<1>2. TypeOK /\ OrderInv /\ [ClientNext]_clientAllVars => OrderInv'
  <2>1. OrderInv /\ Aborts => OrderInv'
    BY DEF Aborts, OrderInv, RequestsAscend, AnswersAscend, Answered, driverVars, clientVars
  <2> QED
    BY <2>1, ClientSteps, OrderStep
<1>3. TypeOK /\ OrderInv /\ [ClientNext]_clientAllVars => [Delivery!Next]_(Delivery!vars)
  <2>1. TypeOK /\ Aborts => [Delivery!Next]_(Delivery!vars)
    BY SilentStep DEF Aborts, clientVars
  <2> QED
    BY <2>1, ClientSteps, RefinementStep
<1> QED
  BY <1>1, <1>2, <1>3, ClientTypeCorrect, PTL DEF ClientSpec, DeliverySpec, Delivery!Spec

\* An open connection of a local store has been through discovery whenever the
\* queues have drained, however the user mixes menus, buttons and consoles.
THEOREM ClientDiscovery == ASSUME ~Redis PROVE ClientSpec => []DiscoveryTried
<1>1. ClientInit => DiscoverInv
  BY InitDiscover DEF ClientInit
<1>2. TypeOK /\ DiscoverInv /\ [ClientNext]_clientAllVars => DiscoverInv'
  <2>1. DiscoverInv /\ Aborts => DiscoverInv'
    BY DEF Aborts, DiscoverInv, FollowUp, driverVars, linkVars
  <2> QED
    BY <2>1, ClientSteps, DiscoverStep
<1> QED
  BY <1>1, <1>2, DiscoverAtRest, ClientTypeCorrect, PTL DEF ClientSpec

\* The progress bar shows 100 whenever the queues have drained, however the user
\* mixes menus, buttons and consoles.
THEOREM ClientBar == ClientSpec => []BarSettles
<1>1. ClientInit => BarInv
  BY InitBar DEF ClientInit
<1>2. TypeOK /\ BarInv /\ [ClientNext]_clientAllVars => BarInv'
  <2>1. BarInv /\ Aborts => BarInv'
    BY DEF Aborts, BarInv
  <2> QED
    BY <2>1, ClientSteps, BarStep
<1> QED
  BY <1>1, <1>2, BarAtRest, ClientTypeCorrect, PTL DEF ClientSpec

-----------------------------------------------------------------------------
(* The label.  It is wrong for a moment whenever the connection goes while a *)
(* console is open, or a late discovery is announced after that; then the     *)
(* reset is still to come, and no announcement behind it.                     *)

\* The answers that set the label, and the events that reset it.
Relabels == {e \in Event : e.type = "response" /\ e.kind \in {"discovery", "setDefault"} /\ ~e.error}
Resets   == {e \in Event : e.type = "disconnected" \/ (e.type = "response" /\ e.kind = "disconnect")}

\* Once the events in s are handled, a console whose label is l now has no label.
Unlabelled(s, l) == LastIn(s, Resets, Relabels) \/ (~l /\ Range(s) \cap Relabels = {})

LabelInv ==
  /\ pc \in {"check", "run"} => current.kind \in BatchKinds
  /\ pc = "reply" /\ current.kind \in {"discovery", "setDefault"} /\ ~failed => connected
  /\ life = "running" /\ ~connected =>
       \/ pc = "reply" /\ current.kind = "disconnect"
       \/ Unlabelled(events, shell /\ label)

\* A new event keeps the last one about the label a reset, or is one.
LEMMA UnlabelledAppend ==
  ASSUME NEW s \in Seq(Event), NEW e \in Event, NEW l,
         (Unlabelled(s, l) /\ e \notin Relabels) \/ e \in Resets
  PROVE  Unlabelled(Append(s, e), l)
<1>1. CASE e \in Resets \/ (LastIn(s, Resets, Relabels) /\ e \notin Relabels)
  BY <1>1, LastAppend DEF Unlabelled
<1>2. CASE ~l /\ Range(s) \cap Relabels = {} /\ e \notin Relabels
  <2>1. Range(Append(s, e)) = Range(s) \cup {e}
    BY RangeAppend
  <2> QED
    BY <1>2, <2>1 DEF Unlabelled
<1> QED
  BY <1>1, <1>2 DEF Unlabelled

\* The event at the head leaves: a reset, an announcement, or one that does not matter.
LEMMA UnlabelledTail ==
  ASSUME NEW s \in Seq(Event), s # <<>>, NEW l, NEW m, Unlabelled(s, l),
         Head(s) \in Resets => ~m,
         Head(s) \notin Relabels /\ ~l => ~m
  PROVE  Unlabelled(Tail(s), m)
<1>1. Range(s) = {Head(s)} \cup Range(Tail(s))
  BY RangeTail
<1>2. CASE LastIn(s, Resets, Relabels)
  <2>1. LastIn(Tail(s), Resets, Relabels) \/ (Head(s) \in Resets /\ Range(Tail(s)) \cap Relabels = {})
    BY <1>2, LastTail
  <2> QED
    BY <2>1 DEF Unlabelled
<1>3. CASE ~l /\ Range(s) \cap Relabels = {}
  BY <1>1, <1>3 DEF Unlabelled
<1> QED
  BY <1>2, <1>3 DEF Unlabelled

\* The widgets' own steps leave the queue of events alone and show no label while
\* the connection is closed.
LEMMA UserUnlabels ==
  ASSUME TypeOK, LabelInv, User
  PROVE  LabelInv'
<1>1. ASSUME NEW kind, Ask(kind) PROVE LabelInv'
  BY <1>1 DEF Ask, Call, LabelInv, linkVars
<1>2. CASE ChooseEntry \/ ChooseConnect \/ PressConnection \/ PressExecute
  BY <1>1, <1>2 DEF ChooseEntry, ChooseConnect, PressConnection, PressExecute
<1>3. CASE ShowMenu \/ DismissMenu
  BY <1>3 DEF ShowMenu, DismissMenu, LabelInv, vars, driverVars, linkVars
<1>4. CASE PressStop
  BY <1>4 DEF PressStop, StopCurrentEvent, guiVars, LabelInv, linkVars
<1>5. CASE OpenConsole \/ CloseConsole
  <2>1. UNCHANGED <<pc, current, failed, connected, events>>
        /\ (life' = "running" => life = "running") /\ (~connected => ~(shell' /\ label'))
    BY <1>5 DEF OpenConsole, CloseConsole, InfoShown, vars, driverVars, linkVars
  <2> QED
    BY <2>1 DEF LabelInv, Unlabelled
<1>6. CASE CloseServer
  BY <1>6 DEF CloseServer, Close, LabelInv, linkVars
<1> QED
  BY <1>2, <1>3, <1>4, <1>5, <1>6 DEF User

\* Handling an event of the server.
LEMMA SignalUnlabels ==
  ASSUME TypeOK, LabelInv, Deliver \/ Forward
  PROVE  LabelInv'
<1>1. /\ UNCHANGED <<pc, current, failed, connected, shell, life>>
      /\ events # <<>> /\ events' = Tail(events)
      /\ events \in Seq(Event) /\ Head(events) \in Event
  BY HeadTailProperties
  DEF Deliver, Forward, ServerDeliver, ServerForward, driverVars, linkVars, TypeOK
<1>2. Head(events) \in Resets => ~(shell' /\ label')
  <2>1. CASE Deliver
    BY <1>1, <2>1 DEF Deliver, ServerDeliver, OnFinished, OnLost, LabelReset, Resets, BatchKinds
  <2>2. CASE Forward
    BY <1>1, <2>2 DEF Forward, ServerForward, OnLost, LabelReset, Resets
  <2> QED
    BY <2>1, <2>2
<1>3. Head(events) \notin Relabels /\ ~(shell /\ label) => ~(shell' /\ label')
  <2>1. CASE Deliver
    BY <1>1, <2>1 DEF Deliver, ServerDeliver, OnFinished, OnLost, LabelReset, Relabels
  <2>2. CASE Forward
    BY <1>1, <2>2 DEF Forward, ServerForward, OnLost, LabelReset
  <2> QED
    BY <2>1, <2>2
<1>4. Unlabelled(events, shell /\ label) => Unlabelled(events', shell' /\ label')
  BY <1>1, <1>2, <1>3, UnlabelledTail
<1> QED
  BY <1>1, <1>4 DEF LabelInv

\* Only a disconnect and a QUIT close the connection, and both announce it; discovery
\* and SELECT only succeed on an open one.
LEMMA DriverUnlabels ==
  ASSUME TypeOK, LabelInv, DriverTurn
  PROVE  LabelInv'
<1> DEFINE l == shell /\ label
<1>a. UNCHANGED <<shell, label>> /\ DriverStep
  BY DEF DriverTurn, guiVars
<1>b. /\ requests \in Seq(Request) /\ events \in Seq(Event)
      /\ failed \in BOOLEAN /\ connected \in BOOLEAN
  BY DEF TypeOK
<1>c. /\ Post("response") \in Event /\ Post("done") \in Event /\ Post("disconnected") \in Resets
      /\ \A type \in EventTypes \ {"response"} : Post(type) \in Event /\ Post(type) \notin Relabels
      /\ current.kind = "disconnect" => Post("response") \in Resets
      /\ ~(current.kind \in {"discovery", "setDefault"} /\ ~failed) => Post("response") \notin Relabels
  BY PostTyped DEF Post, Resets, Relabels, EventTypes
<1>d. life' = "running" => life = "running"
  BY <1>a DEF DriverStep, DriverTake, DriverWork, DriverReply, ExecuteEmpty, ExecuteBegin,
              ExecuteCheck, ExecuteCommand, ExecuteReply, DriverExit, LoadingDatabases, Connecting,
              Disconnecting, Discovering, Commanding, Refusing, FileWork, Configuring
<1>1. CASE DriverTake
  <2> DEFINE r == Head(requests)
             e == [type |-> "busy", id |-> r.id, kind |-> r.kind, error |-> FALSE]
  <2>1. r \in Request
    BY <1>1, <1>b, HeadTailProperties DEF DriverTake
  <2>2. e \in Event /\ e \notin Relabels
    BY <2>1 DEF Event, EventTypes, Request, Relabels
  <2>3. (events' = events \/ events' = Append(events, e))
    BY <1>1 DEF DriverTake
  <2>4. pc = "idle" /\ pc' \in {"idle", "work"} /\ connected' = connected
    BY <1>1 DEF DriverTake, linkVars
  <2> HIDE DEF e
  <2>5. Unlabelled(events, l) => Unlabelled(Append(events, e), l)
    BY <1>b, <2>2, UnlabelledAppend
  <2>6. Unlabelled(events, l) => Unlabelled(events', l)
    BY <2>3, <2>5, Zenon
  <2> QED
    BY <1>a, <1>d, <2>4, <2>6 DEF LabelInv
<1>2. CASE DriverWork
  <2>1. UNCHANGED <<events, current>> /\ pc = "work" /\ pc' = "reply"
    BY <1>2 DEF DriverWork
  <2>2. current.kind \in {"discovery", "setDefault"} /\ ~failed' => connected'
    BY <1>2, <1>b, ConstantsAssumption
    DEF DriverWork, Connecting, Disconnecting, LoadingDatabases, Discovering, Commanding, Refusing,
        FileWork, Configuring, CommandOutcome, FileKinds
  <2>3. ~connected' => ~connected \/ current.kind = "disconnect"
    <3>1. Connecting => (~connected' => ~connected)
      BY <1>b DEF Connecting
    <3>2. Disconnecting => current.kind = "disconnect"
      BY DEF Disconnecting
    <3>3. LoadingDatabases \/ Discovering \/ Commanding \/ Refusing \/ FileWork \/ Configuring
            => connected' = connected
      BY DEF LoadingDatabases, Discovering, Commanding, Refusing, FileWork, Configuring, linkVars
    <3> QED
      BY <1>2, <3>1, <3>2, <3>3 DEF DriverWork
  <2> QED
    BY <1>a, <1>d, <2>1, <2>2, <2>3 DEF LabelInv
<1>3. CASE DriverReply
  <2>0. UNCHANGED <<connected, current, failed>> /\ pc = "reply" /\ pc' = "idle"
    BY <1>3 DEF DriverReply, linkVars
  <2> SUFFICES ASSUME ~connected, life = "running" PROVE Unlabelled(events', l)
    BY <1>a, <1>d, <2>0 DEF LabelInv
  <2>1. \/ current.kind = "disconnect"
        \/ Unlabelled(events, l) /\ Post("response") \notin Relabels
    BY <1>c, <2>0 DEF LabelInv
  <2>2. CASE current.kind \in FileKinds
    <3>1. events' = Append(events, Post("response"))
      BY <1>3, <2>2, RepliesAppended DEF DriverReply
    <3>2. Unlabelled(Append(events, Post("response")), l)
      BY <1>b, <1>c, <2>1, <2>2, UnlabelledAppend DEF FileKinds
    <3> QED
      BY <3>1, <3>2, Zenon
  <2>3. CASE current.kind = "configArgs"
    <3> DEFINE u == Append(events, Post("enterMode"))
               v == Append(u, Post("leaveMode"))
               w == Append(v, Post("done"))
    <3>1. events' = Append(w, Post("response"))
      BY <1>3, <2>3, RepliesAppended DEF DriverReply
    <3>2. u \in Seq(Event) /\ Unlabelled(u, l)
      BY <1>b, <1>c, <2>1, <2>3, UnlabelledAppend, AppendTyped DEF EventTypes
    <3> HIDE DEF u
    <3>3. v \in Seq(Event) /\ Unlabelled(v, l)
      BY <1>c, <3>2, UnlabelledAppend, AppendTyped DEF EventTypes
    <3> HIDE DEF v
    <3>4. w \in Seq(Event) /\ Unlabelled(w, l)
      BY <1>c, <3>3, UnlabelledAppend, AppendTyped DEF EventTypes
    <3> HIDE DEF w
    <3>5. Unlabelled(Append(w, Post("response")), l)
      BY <1>c, <2>1, <2>3, <3>4, UnlabelledAppend
    <3> QED
      BY <3>1, <3>5, Zenon
  <2>4. CASE current.kind \notin FileKinds \cup {"configArgs"}
    <3> DEFINE u == Append(events, Post("response"))
    <3>1. events' = Append(u, Post("done"))
      BY <1>3, <2>4, RepliesAppended DEF DriverReply
    <3>2. u \in Seq(Event) /\ Unlabelled(u, l)
      BY <1>b, <1>c, <2>1, UnlabelledAppend, AppendTyped
    <3> HIDE DEF u
    <3>3. Unlabelled(Append(u, Post("done")), l)
      BY <1>c, <3>2, UnlabelledAppend DEF EventTypes
    <3> QED
      BY <3>1, <3>3, Zenon
  <2> QED
    BY <2>2, <2>3, <2>4
<1>4. CASE ExecuteEmpty
  <2> DEFINE a == [Post("response") EXCEPT !.error = TRUE]
             u == Append(events, a)
  <2>1. UNCHANGED connected /\ pc = "work" /\ pc' = "idle"
    BY <1>4 DEF ExecuteEmpty, linkVars
  <2>2. a \in Event /\ a \notin Relabels
    BY <1>c DEF Event, Relabels, Post
  <2>3. events' = events \o <<a, Post("done")>>
    BY <1>4 DEF ExecuteEmpty
  <2> HIDE DEF a
  <2>4. events' = Append(u, Post("done")) /\ u \in Seq(Event)
    BY <1>b, <1>c, <2>2, <2>3, ConcatTwo, AppendTyped
  <2>5. Unlabelled(events, l) => Unlabelled(u, l)
    BY <1>b, <2>2, UnlabelledAppend
  <2> HIDE DEF u
  <2>6. Unlabelled(u, l) => Unlabelled(Append(u, Post("done")), l)
    BY <1>c, <2>4, UnlabelledAppend DEF EventTypes
  <2>7. Unlabelled(events, l) => Unlabelled(events', l)
    BY <2>4, <2>5, <2>6, Zenon
  <2> QED
    BY <1>a, <1>d, <2>1, <2>7 DEF LabelInv
<1>5. CASE ExecuteBegin \/ ExecuteCheck
  <2>1. /\ UNCHANGED <<connected, current>> /\ pc \in {"work", "check"} /\ pc' # "idle"
        /\ current.kind \in BatchKinds
        /\ events' = events \/ events' = Append(events, Post("rootCreated"))
    BY <1>5 DEF ExecuteBegin, ExecuteCheck, linkVars, LabelInv
  <2>2. Unlabelled(events, l) => Unlabelled(Append(events, Post("rootCreated")), l)
    BY <1>b, <1>c, UnlabelledAppend DEF EventTypes
  <2>3. Unlabelled(events, l) => Unlabelled(events', l)
    BY <2>1, <2>2, Zenon
  <2> QED
    BY <1>a, <1>d, <2>1, <2>3 DEF LabelInv, BatchKinds
<1>6. CASE ExecuteCommand
  <2>1. UNCHANGED current /\ pc = "run" /\ pc' # "idle" /\ current.kind \in BatchKinds
    BY <1>6 DEF ExecuteCommand, LabelInv
  <2>2. \/ UNCHANGED <<events, connected>>
        \/ events' = Append(events, Post("disconnected"))
    BY <1>6 DEF ExecuteCommand, linkVars
  <2>3. Unlabelled(Append(events, Post("disconnected")), l)
    BY <1>b, <1>c, UnlabelledAppend DEF Resets
  <2>4. UNCHANGED <<events, connected>> \/ Unlabelled(events', l)
    BY <2>2, <2>3, Zenon
  <2> QED
    BY <1>a, <1>d, <2>1, <2>4 DEF LabelInv, BatchKinds
<1>7. CASE ExecuteReply
  <2> DEFINE u == Append(events, Post("response"))
             v == Append(u, Post("done"))
  <2>0. UNCHANGED connected /\ pc = "reply" /\ pc' = "idle" /\ current.kind \in BatchKinds
    BY <1>7 DEF ExecuteReply, linkVars
  <2>1. events' = v \/ events' = Append(v, Post("rootCompleated"))
    BY <1>7, BatchAppended
  <2>2. u \in Seq(Event) /\ (Unlabelled(events, l) => Unlabelled(u, l))
    BY <1>b, <1>c, <2>0, AppendTyped, UnlabelledAppend DEF BatchKinds
  <2> HIDE DEF u
  <2>3. v \in Seq(Event) /\ (Unlabelled(u, l) => Unlabelled(v, l))
    BY <1>c, <2>2, AppendTyped, UnlabelledAppend DEF EventTypes
  <2> HIDE DEF v
  <2>4. Unlabelled(v, l) => Unlabelled(Append(v, Post("rootCompleated")), l)
    BY <1>c, <2>3, UnlabelledAppend DEF EventTypes
  <2>5. Unlabelled(events, l) => Unlabelled(events', l)
    BY <2>1, <2>2, <2>3, <2>4, Zenon
  <2> QED
    BY <1>a, <1>d, <2>0, <2>5 DEF LabelInv, BatchKinds
<1>8. CASE DriverExit
  BY <1>8 DEF DriverExit, LabelInv, driverVars
<1> QED
  BY <1>a, <1>1, <1>2, <1>3, <1>4, <1>5, <1>6, <1>7, <1>8 DEF DriverStep

\* A console that shows a server or a database when the queues have drained shows
\* that of an open connection, for every driver and every mixture of connects,
\* disconnects, discoveries, database changes and batches with QUIT.
THEOREM LabelAlwaysSettles == ClientSpec => []LabelSettles
<1>1. ClientInit => LabelInv
  BY DEF ClientInit, Init, LabelInv, Unlabelled, Range
<1>2. TypeOK /\ LabelInv /\ [ClientNext]_clientAllVars => LabelInv'
  <2> SUFFICES ASSUME TypeOK, LabelInv, [ClientNext]_clientAllVars PROVE LabelInv'
    OBVIOUS
  <2>1. CASE ClientEnded \/ UNCHANGED clientAllVars
    BY <2>1 DEF ClientEnded, Ended, clientAllVars, vars, guiVars, driverVars, linkVars, LabelInv
  <2>2. CASE User \/ Deliver \/ Forward \/ DriverTurn
    BY <2>2, UserUnlabels, SignalUnlabels, DriverUnlabels
  <2> QED
    BY <2>1, <2>2 DEF ClientNext
<1>3. LabelInv => LabelSettles
  BY DEF LabelInv, LabelSettles, Quiescent, Unlabelled, LastIn
<1> QED
  BY <1>1, <1>2, <1>3, ClientTypeCorrect, PTL DEF ClientSpec

-----------------------------------------------------------------------------
(* The buttons.  A button that does not fit the state of the driver will be  *)
(* set from that state again: an answer or a lost connection is on its way.  *)

SyncKinds == {"connect", "disconnect"}

\* Events on which the console sets all its buttons, and those for Execute alone.
Syncs  == {e \in Event : e.type = "disconnected" \/ (e.type = "response" /\ e.kind \in SyncKinds)}
Frees  == {e \in Event : e.type = "response" /\ e.kind \in BatchKinds}

SyncPending ==
  \/ pc = "reply" /\ current.kind \in SyncKinds
  \/ Range(events) \cap Syncs # {}

BatchPending ==
  \/ \E r \in Range(requests) : r.kind \in BatchKinds
  \/ pc # "idle" /\ current.kind \in BatchKinds
  \/ Range(events) \cap Frees # {}

ButtonInv ==
  life = "running" /\ shell =>
    /\ SyncPending \/ connectVisible = ~connected
    /\ SyncPending \/ BatchPending \/ executeEnabled = connected

\* For a local store IsConnected is the state of the handle.
LEMMA LocalConnected ==
  ASSUME ~Redis, TypeOK
  PROVE  IsConnected = connected
  BY DEF IsConnected, TypeOK

\* A call: a connect or a disconnect sets the buttons, a batch is now pending.
LEMMA AskFits ==
  ASSUME ~Redis, TypeOK, ButtonInv, NEW kind, Ask(kind)
  PROVE  ButtonInv'
<1> DEFINE r == [id |-> issued + 1, kind |-> kind]
<1>1. /\ UNCHANGED <<pc, current, events, connected, shell, life>>
      /\ requests' = Append(requests, r) /\ kind \in Kinds
  BY KindFacts DEF Ask, Call, Posted, linkVars
<1>2. r \in Request /\ requests \in Seq(Request) /\ r.kind = kind
  BY <1>1 DEF Request, TypeOK
<1> HIDE DEF r
<1>3. Range(Append(requests, r)) = Range(requests) \cup {r}
  BY <1>2, RangeAppend
<1>4. Range(requests') = Range(requests) \cup {r}
  BY <1>1, <1>3, Zenon
<1>5. SyncPending' = SyncPending /\ (BatchPending => BatchPending')
  BY <1>1, <1>4 DEF SyncPending, BatchPending
<1>6. CASE ~shell
  BY <1>1, <1>6 DEF ButtonInv
<1>7. CASE shell /\ kind \in {"connect", "disconnect"}
  <2>1. connectVisible' = ~connected /\ executeEnabled' = connected
    BY <1>7, LocalConnected DEF Ask, SyncActions, BatchKinds
  <2> QED
    BY <1>1, <2>1 DEF ButtonInv
<1>8. CASE shell /\ kind \in BatchKinds
  <2>1. connectVisible' = connectVisible
    BY <1>8 DEF Ask, BatchKinds
  <2>2. BatchPending'
    BY <1>2, <1>4, <1>8 DEF BatchPending
  <2> QED
    BY <1>1, <1>5, <2>1, <2>2 DEF ButtonInv
<1>9. CASE shell /\ kind \notin {"connect", "disconnect"} \cup BatchKinds
  <2>1. UNCHANGED buttons
    BY <1>9 DEF Ask
  <2> QED
    BY <1>1, <1>5, <2>1 DEF ButtonInv, buttons
<1> QED
  BY <1>6, <1>7, <1>8, <1>9

\* A step that changes nothing the buttons depend on.
LEMMA ButtonKept ==
  ASSUME ButtonInv, UNCHANGED <<requests, events, pc, current, connected, life>>,
         UNCHANGED <<shell, connectVisible, executeEnabled>>
  PROVE  ButtonInv'
<1>1. SyncPending' = SyncPending
  BY DEF SyncPending
<1>2. BatchPending' = BatchPending
  BY DEF BatchPending
<1> QED
  BY <1>1, <1>2 DEF ButtonInv

\* What the user does keeps the buttons in step with what is queued.
LEMMA UserFits ==
  ASSUME ~Redis, TypeOK, ButtonInv, User
  PROVE  ButtonInv'
<1>1. CASE ChooseEntry \/ ChooseConnect \/ PressConnection \/ PressExecute
  BY <1>1, AskFits DEF ChooseEntry, ChooseConnect, PressConnection, PressExecute
<1>2. CASE ShowMenu \/ DismissMenu
  BY <1>2, ButtonKept DEF ShowMenu, DismissMenu, vars, driverVars, linkVars, buttons
<1>3. CASE PressStop
  BY <1>3, ButtonKept DEF PressStop, StopCurrentEvent, guiVars, linkVars, buttons
<1>4. CASE OpenConsole
  <2>1. connectVisible' = ~connected /\ executeEnabled' = connected /\ connected' = connected
    BY <1>4, LocalConnected DEF OpenConsole, SyncActions, linkVars
  <2> QED
    BY <2>1 DEF ButtonInv
<1>5. CASE CloseConsole \/ CloseServer
  <2>1. ~shell'
    BY <1>5 DEF CloseConsole, CloseServer
  <2> QED
    BY <2>1 DEF ButtonInv
<1> QED
  BY <1>1, <1>2, <1>3, <1>4, <1>5 DEF User

\* Handling an event: what is pending no more has set its buttons.
LEMMA SignalFits ==
  ASSUME ~Redis, TypeOK, ButtonInv, Deliver \/ Forward
  PROVE  ButtonInv'
<1> DEFINE e == Head(events)
<1> SUFFICES ASSUME life' = "running", shell' PROVE ButtonInv'
  BY DEF ButtonInv
<1>1. /\ UNCHANGED <<pc, current, connected>> /\ life = "running" /\ shell
      /\ events \in Seq(Event) /\ e \in Event
      /\ events' = Tail(events) /\ Range(events) = {e} \cup Range(Tail(events))
  BY HeadTailProperties, RangeTail
  DEF Deliver, Forward, ServerDeliver, ServerForward, driverVars, linkVars, TypeOK
<1>2. Range(requests) \subseteq Range(requests')
  <2>1. CASE Forward
    BY <2>1 DEF Forward, ServerForward
  <2>2. CASE Deliver
    <3> DEFINE d == [id |-> issued + 1, kind |-> "discovery"]
               c == [id |-> issued + 2, kind |-> "configArgs"]
    <3>1. requests' = requests \/ requests' = Append(Append(requests, d), c)
      BY <2>2 DEF Deliver, ServerDeliver, Posted
    <3>2. d \in Request /\ c \in Request /\ requests \in Seq(Request)
      BY KindFacts DEF Request, TypeOK
    <3> HIDE DEF d, c
    <3>3. Range(requests) \subseteq Range(Append(Append(requests, d), c))
      BY <3>2, RangeAppendTwo
    <3> QED
      BY <3>1, <3>3, Zenon
  <2> QED
    BY <2>1, <2>2
<1>3. CASE e \in Syncs
  <2>1. connectVisible' = ~connected /\ executeEnabled' = connected
    <3>1. CASE Deliver
      BY <1>1, <1>3, <3>1, LocalConnected
      DEF Deliver, ServerDeliver, OnFinished, OnLost, SyncActions, Syncs, SyncKinds, BatchKinds
    <3>2. CASE Forward
      BY <1>1, <1>3, <3>2, LocalConnected
      DEF Forward, ServerForward, OnLost, SyncActions, Syncs
    <3> QED
      BY <3>1, <3>2
  <2> QED
    BY <1>1, <2>1 DEF ButtonInv
<1>4. CASE e \in Frees
  <2>1. executeEnabled' = connected /\ connectVisible' = connectVisible
    BY <1>1, <1>4, LocalConnected
    DEF Deliver, Forward, ServerForward, OnFinished, Frees, BatchKinds
  <2>2. SyncPending => SyncPending'
    BY <1>1, <1>4 DEF SyncPending, Frees, Syncs, BatchKinds, SyncKinds
  <2> QED
    BY <1>1, <2>1, <2>2 DEF ButtonInv
<1>5. CASE e \notin Syncs \cup Frees
  <2>1. UNCHANGED <<connectVisible, executeEnabled>>
    <3>1. CASE Deliver
      BY <1>1, <1>5, <3>1
      DEF Deliver, ServerDeliver, OnFinished, Syncs, Frees, SyncKinds, BatchKinds, buttons
    <3>2. CASE Forward
      BY <1>1, <1>5, <3>2 DEF Forward, Syncs, buttons
    <3> QED
      BY <3>1, <3>2
  <2>2. (SyncPending => SyncPending') /\ (BatchPending => BatchPending')
    BY <1>1, <1>2, <1>5 DEF SyncPending, BatchPending
  <2> QED
    BY <1>1, <2>1, <2>2 DEF ButtonInv
<1> QED
  BY <1>3, <1>4, <1>5

\* A handler that opens or closes the connection is going to answer, and the end of
\* every handler is announced.
LEMMA DriverFits ==
  ASSUME ~Redis, TypeOK, ButtonInv, DriverTurn
  PROVE  ButtonInv'
<1>a. DriverStep /\ UNCHANGED <<shell, connectVisible, executeEnabled>>
  BY DEF DriverTurn, guiVars, buttons
<1> SUFFICES ASSUME life' = "running"
             PROVE  /\ life = "running"
                    /\ SyncPending => SyncPending'
                    /\ BatchPending => BatchPending'
                    /\ connected' = connected \/ SyncPending'
  BY <1>a DEF ButtonInv
<1>b. life = "running"
  BY <1>a DEF DriverStep, DriverTake, DriverWork, DriverReply, ExecuteEmpty, ExecuteBegin,
              ExecuteCheck, ExecuteCommand, ExecuteReply, DriverExit, LoadingDatabases, Connecting,
              Disconnecting, Discovering, Commanding, Refusing, FileWork, Configuring
<1>c. requests \in Seq(Request) /\ events \in Seq(Event)
  BY DEF TypeOK
<1>d. ~DriverExit /\ Range(events) \subseteq Range(events')
  BY <1>a, DriverPosts DEF DriverExit
<1>e. /\ Post("response") \in Event /\ Post("done") \in Event /\ Post("disconnected") \in Syncs
      /\ current.kind \in SyncKinds => Post("response") \in Syncs
      /\ current.kind \in BatchKinds => Post("response") \in Frees
  BY PostTyped DEF Post, Syncs, Frees, EventTypes
<1>1. CASE DriverTake
  <2>1. Range(requests) = {Head(requests)} \cup Range(requests') /\ pc = "idle"
    BY <1>1, <1>c, RangeTail DEF DriverTake
  <2>2. Head(requests).kind \in BatchKinds => pc' # "idle" /\ current'.kind \in BatchKinds
    BY <1>1 DEF DriverTake, BatchKinds
  <2>3. connected' = connected
    BY <1>1 DEF DriverTake, linkVars
  <2> QED
    BY <1>b, <1>d, <2>1, <2>2, <2>3 DEF SyncPending, BatchPending
<1>2. CASE DriverWork
  <2>1. UNCHANGED <<requests, current, events>> /\ pc = "work" /\ pc' = "reply"
    BY <1>2 DEF DriverWork
  <2>2. connected' = connected \/ current.kind \in SyncKinds
    BY <1>2
    DEF DriverWork, Connecting, Disconnecting, LoadingDatabases, Discovering, Commanding, Refusing,
        FileWork, Configuring, linkVars, SyncKinds
  <2> QED
    BY <1>b, <2>1, <2>2 DEF SyncPending, BatchPending
<1>3. CASE DriverReply
  <2>1. UNCHANGED <<requests, connected>> /\ pc = "reply" /\ current.kind \notin BatchKinds
    BY <1>3 DEF DriverReply, linkVars
  <2>2. BatchPending => BatchPending'
    BY <1>d, <2>1 DEF BatchPending
  <2>3. CASE current.kind \in SyncKinds
    <3>1. events' = Append(Append(events, Post("response")), Post("done"))
      BY <1>3, <2>3, RepliesAppended DEF DriverReply, SyncKinds, FileKinds
    <3>2. Post("response") \in Range(Append(Append(events, Post("response")), Post("done")))
      BY <1>c, <1>e, RangeAppendTwo
    <3>3. Post("response") \in Range(events')
      BY <3>1, <3>2, Zenon
    <3>4. SyncPending'
      BY <1>e, <2>3, <3>3 DEF SyncPending
    <3> QED
      BY <1>b, <2>1, <2>2, <3>4
  <2>4. CASE current.kind \notin SyncKinds
    BY <1>b, <1>d, <2>1, <2>2, <2>4 DEF SyncPending
  <2> QED
    BY <2>3, <2>4
<1>4. CASE ExecuteEmpty
  <2> DEFINE a == [Post("response") EXCEPT !.error = TRUE]
  <2>1. UNCHANGED <<requests, connected>> /\ pc = "work"
    BY <1>4 DEF ExecuteEmpty, linkVars
  <2>2. events' = events \o <<a, Post("done")>> /\ current.kind \in BatchKinds
    BY <1>4 DEF ExecuteEmpty, BatchKinds
  <2>3. a \in Frees /\ a \in Event
    BY <1>e, <2>2 DEF Frees, Event, Post
  <2> HIDE DEF a
  <2>4. events' = Append(Append(events, a), Post("done"))
    BY <1>c, <1>e, <2>2, <2>3, ConcatTwo
  <2>5. a \in Range(Append(Append(events, a), Post("done")))
    BY <1>c, <1>e, <2>3, RangeAppendTwo
  <2>6. a \in Range(events')
    BY <2>4, <2>5, Zenon
  <2> QED
    BY <1>b, <1>d, <2>1, <2>3, <2>6 DEF SyncPending, BatchPending
<1>5. CASE ExecuteBegin \/ ExecuteCheck
  <2>1. UNCHANGED <<requests, connected, current>> /\ pc \in {"work", "check"} /\ pc' # "idle"
    BY <1>5 DEF ExecuteBegin, ExecuteCheck, linkVars
  <2> QED
    BY <1>b, <1>d, <2>1 DEF SyncPending, BatchPending
<1>6. CASE ExecuteCommand
  <2>1. UNCHANGED <<requests, current>> /\ pc = "run" /\ pc' # "idle"
    BY <1>6 DEF ExecuteCommand
  <2>2. connected' = connected \/ events' = Append(events, Post("disconnected"))
    BY <1>6 DEF ExecuteCommand, linkVars
  <2>3. Post("disconnected") \in Range(Append(events, Post("disconnected")))
    BY <1>c, <1>e, RangeAppend DEF Syncs
  <2>4. connected' = connected \/ Post("disconnected") \in Range(events')
    BY <2>2, <2>3, Zenon
  <2> QED
    BY <1>b, <1>d, <1>e, <2>1, <2>4 DEF SyncPending, BatchPending
<1>7. CASE ExecuteReply
  <2> DEFINE both == Append(Append(events, Post("response")), Post("done"))
  <2>1. UNCHANGED <<requests, connected>> /\ pc = "reply" /\ current.kind \in BatchKinds
    BY <1>7 DEF ExecuteReply, linkVars
  <2>2. events' = both \/ events' = Append(both, Post("rootCompleated"))
    BY <1>7, BatchAppended
  <2>3. both \in Seq(Event) /\ Post("response") \in Range(both)
    BY <1>c, <1>e, RangeAppendTwo, AppendTyped
  <2>4. Post("rootCompleated") \in Event
    BY PostTyped DEF EventTypes
  <2> HIDE DEF both
  <2>5. Post("response") \in Range(Append(both, Post("rootCompleated")))
    BY <2>3, <2>4, RangeAppend
  <2>6. Post("response") \in Range(events')
    BY <2>2, <2>3, <2>5, Zenon
  <2> QED
    BY <1>b, <1>d, <1>e, <2>1, <2>6 DEF SyncPending, BatchPending, SyncKinds, BatchKinds
<1> QED
  BY <1>a, <1>d, <1>1, <1>2, <1>3, <1>4, <1>5, <1>6, <1>7 DEF DriverStep

\* Whenever both queues have drained, the console of a local store offers exactly the
\* buttons of the driver's state, for every mixture of menus, buttons and requests.
THEOREM ButtonsAlwaysSettle == ASSUME ~Redis PROVE ClientSpec => []ButtonsSettle
<1>1. ClientInit => ButtonInv
  BY DEF ClientInit, ButtonInv
<1>2. TypeOK /\ ButtonInv /\ [ClientNext]_clientAllVars => ButtonInv'
  <2> SUFFICES ASSUME TypeOK, ButtonInv, [ClientNext]_clientAllVars PROVE ButtonInv'
    OBVIOUS
  <2>1. CASE ClientEnded \/ UNCHANGED clientAllVars
    BY <2>1, ButtonKept
    DEF ClientEnded, Ended, clientAllVars, vars, guiVars, buttons, driverVars, linkVars
  <2>2. CASE User \/ Deliver \/ Forward \/ DriverTurn
    BY <2>2, UserFits, SignalFits, DriverFits
  <2> QED
    BY <2>1, <2>2 DEF ClientNext
<1>3. ButtonInv => ButtonsSettle
  BY DEF ButtonInv, ButtonsSettle, Quiescent, SyncPending, BatchPending, Range
<1> QED
  BY <1>1, <1>2, <1>3, ClientTypeCorrect, PTL DEF ClientSpec
=============================================================================
