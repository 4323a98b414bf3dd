---------------------------- MODULE ServerDriver ----------------------------
(***************************************************************************)
(* The asynchronous core of FastoNoSQL: one IServer, living in the GUI     *)
(* thread, and its IDriver, living in a thread of its own.  Every call on  *)
(* the server is posted to the driver as an event; the driver's event loop *)
(* handles one event at a time and posts progress, root and response       *)
(* events back to the server, whose event loop turns them into signals.    *)
(* The two threads share, without a lock, the interrupt flag, the          *)
(* connection handle and the pointers server_info_ and                     *)
(* current_database_info_.                                                 *)
(***************************************************************************)
EXTENDS Naturals, Sequences

CONSTANTS
  UserKinds,    \* the requests the callers of IServer issue in this instance
  Implemented,  \* requests the concrete driver overrides with an implementation
  Redis,        \* TRUE for the redis driver, FALSE for a driver of a local store
  BatchSize,    \* bound: commands an Execute runs, commands.size() * (repeat + 1)
  MaxRequests   \* bound: requests issued by callers

\* Requests every driver implements in IDriver itself.
BaseKinds == {"connect", "disconnect", "execute", "watch", "loadDatabases",
              "serverInfo", "history", "clearHistory"}

\* Requests IDriver answers with "not supported" unless a driver overrides them.
OptionalKinds == {"shutdown", "property", "changeProperty", "backup", "export",
                  "changePassword", "maxConnection", "clearDatabase", "setDefault"}

\* Request every driver implements with a command of its own.
ContentKinds == {"loadContent"}

\* Requests the server issues by itself after a successful connect.
InternalKinds == {"discovery", "configArgs"}

Kinds == BaseKinds \cup OptionalKinds \cup ContentKinds \cup InternalKinds

\* The two requests about the history file; their handlers post no progress.
FileKinds == {"history", "clearHistory"}

\* An Execute whose repeat count never runs out is a watch.
BatchKinds == {"execute", "watch"}

\* Responses IServer::customEvent turns into a ...Finished signal.
Dispatched == Kinds \ {"shutdown", "configArgs"}

\* Bound: late commands are counted up to here.
LateCap == 2

ASSUME ConstantsAssumption ==
  /\ UserKinds \subseteq Kinds \ InternalKinds
  /\ Implemented \subseteq OptionalKinds
  /\ Redis \in BOOLEAN
  /\ BatchSize \in Nat \ {0}
  /\ MaxRequests \in Nat

VARIABLES
  requests,    \* events posted to the driver and not yet taken
  events,      \* events posted to the server and not yet handled
  current,     \* the request the driver is handling (meaningful unless pc = "idle")
  pc,          \* where the driver thread is
  failed,      \* the current handler has set an error in its response
  left,        \* commands the current Execute has still to run
  rooted,      \* the current Execute is not silent: its root is announced
  connected,   \* the connection handle is open
  auth,        \* isAuth_ of the redis connection (never reset by a disconnect)
  serverInfo,  \* server_info_ is set
  database,    \* current_database_info_ is set
  interrupted, \* the interrupt flag
  bar,         \* what ProgressChanged last reported: "busy" or "done"
  issued,      \* number of requests issued, which are numbered from 1
  asked,       \* number of them issued by callers (bounded by MaxRequests)
  delivered,   \* numbers of the requests whose Finished signal was emitted
  late,        \* commands of the current Execute started after an interrupt
  tried,       \* discovery has run since the connection was last opened
  lastAsked,   \* kind of the last request a caller issued
  life         \* "running", "closing", "stopped" or "aborted"

driverVars == <<current, pc, failed, left, rooted, late>>
linkVars   == <<connected, auth, serverInfo, database, tried>>
clientVars == <<bar, issued, asked, delivered, lastAsked>>
vars == <<requests, events, driverVars, linkVars, interrupted, clientVars, life>>

Request == [id : Nat, kind : Kinds]
EventTypes == {"busy", "done", "response", "rootCreated", "rootCompleated",
               "enterMode", "leaveMode", "disconnected"}
Event   == [type : EventTypes, id : Nat, kind : Kinds, error : BOOLEAN]

Locations == {"idle", "work", "check", "run", "reply"}

\* An event the driver posts to the server about the request it is handling.
Post(type) == [type |-> type, id |-> current.id, kind |-> current.kind, error |-> failed]

Init ==
  /\ requests = <<>> /\ events = <<>>
  /\ current = [id |-> 0, kind |-> "connect"] /\ pc = "idle"
  /\ failed = FALSE /\ left = 0 /\ rooted = FALSE /\ late = 0
  /\ connected = FALSE /\ auth = FALSE
  /\ serverInfo = FALSE /\ database = FALSE /\ tried = FALSE
  /\ interrupted = FALSE
  /\ bar = "done" /\ issued = 0 /\ asked = 0 /\ delivered = <<>> /\ lastAsked = "connect"
  /\ life = "running"

-----------------------------------------------------------------------------
(* The GUI thread. *)

\* Mutant: a request overtakes the ones already queued.
PostedFirst(queue, request) == <<request>> \o queue

\* notify posts a request at the end of the driver's event queue.
Posted(queue, request) == Append(queue, request)

\* A method of IServer: emit Started and ProgressChanged(0), post the request.
\* Disconnect first raises the interrupt flag.
Call(kind) ==
  /\ life = "running"
  /\ asked < MaxRequests
  /\ requests' = Posted(requests, [id |-> issued + 1, kind |-> kind])
  /\ issued' = issued + 1
  /\ asked' = asked + 1
  /\ lastAsked' = kind
  /\ bar' = "busy"
  /\ interrupted' = (interrupted \/ kind = "disconnect")
  /\ late' = IF kind = "disconnect" /\ ~interrupted THEN 0 ELSE late
  /\ UNCHANGED <<events, current, pc, failed, left, rooted, linkVars, delivered, life>>

\* StopCurrentEvent: the Stop button of a console.
StopCurrentEvent ==
  /\ life = "running"
  /\ ~interrupted
  /\ interrupted' = TRUE
  /\ late' = 0
  /\ UNCHANGED <<requests, events, current, pc, failed, left, rooted, linkVars, clientVars, life>>

\* Progress and root events are forwarded as signals.
ServerForward ==
  /\ life = "running"
  /\ events # <<>>
  /\ Head(events).type # "response"
  /\ events' = Tail(events)
  /\ bar' = IF Head(events).type \in {"busy", "done"} THEN Head(events).type ELSE bar
  /\ UNCHANGED <<requests, driverVars, linkVars, interrupted, issued, asked, delivered,
                 lastAsked, life>>

\* Mutant: the error of the response is read the wrong way round.
FollowUpOnError(e) == e.kind = "connect" /\ e.error

\* The response to a connect that succeeded also issues discovery and configArgs.
FollowUp(e) == e.kind = "connect" /\ ~e.error

\* A response becomes a Finished signal, if customEvent dispatches its type.
ServerDeliver ==
  /\ life = "running"
  /\ events # <<>>
  /\ Head(events).type = "response"
  /\ LET e == Head(events) IN
       /\ events' = Tail(events)
       /\ delivered' = IF e.kind \in Dispatched THEN Append(delivered, e.id) ELSE delivered
       /\ requests' = IF FollowUp(e)
                      THEN Posted(Posted(requests, [id |-> issued + 1, kind |-> "discovery"]),
                                  [id |-> issued + 2, kind |-> "configArgs"])
                      ELSE requests
       /\ issued' = IF FollowUp(e) THEN issued + 2 ELSE issued
       /\ bar' = IF FollowUp(e) THEN "busy" ELSE bar
  /\ UNCHANGED <<driverVars, linkVars, interrupted, asked, lastAsked, life>>

\* ~IServer: interrupt, ask the thread's event loop to quit and wait for it.
Close ==
  /\ life = "running"
  /\ life' = "closing"
  /\ interrupted' = TRUE
  /\ late' = IF interrupted THEN late ELSE 0
  /\ UNCHANGED <<requests, events, current, pc, failed, left, rooted, linkVars, clientVars>>

-----------------------------------------------------------------------------
(* The driver thread. *)

Alive == life \in {"running", "closing"}

\* customEvent: clear the interrupt flag, then enter the handler of the event.
\* The handler of configArgs is empty in the drivers of local stores.
DriverTake ==
  /\ Alive
  /\ pc = "idle"
  /\ requests # <<>>
  /\ LET r == Head(requests) IN
       /\ current' = r
       /\ pc' = IF r.kind = "configArgs" /\ ~Redis THEN "idle" ELSE "work"
       /\ left' \in (IF r.kind \in BatchKinds THEN 1 .. BatchSize ELSE {0})
       /\ events' = IF r.kind \in FileKinds \/ (r.kind = "configArgs" /\ ~Redis)
                    THEN events
                    ELSE Append(events, [type |-> "busy", id |-> r.id,
                                         kind |-> r.kind, error |-> FALSE])
  /\ requests' = Tail(requests)
  /\ interrupted' = FALSE
  /\ failed' = FALSE
  /\ late' = 0
  /\ UNCHANGED <<rooted, linkVars, clientVars, life>>

\* SyncConnect.  An open handle is kept, otherwise the backend decides.  The redis
\* driver then authenticates and selects a database; failing either leaves the
\* handle open, and the select caches current_database_info_.
Connecting ==
  /\ current.kind = "connect"
  /\ \E open, authorized, selected \in BOOLEAN :
       /\ connected => open
       /\ authorized => open
       /\ selected => authorized
       /\ ~Redis => selected = open
       /\ connected' = open
       /\ failed' = ~selected
       /\ auth' = IF Redis /\ open THEN authorized ELSE auth
       /\ database' = (database \/ (Redis /\ selected))
       /\ tried' = (tried /\ connected)
  /\ UNCHANGED <<serverInfo, life>>

\* SyncDisconnect: the handle is closed; everything cached is kept.
Disconnecting ==
  /\ current.kind = "disconnect"
  /\ connected' = FALSE
  /\ UNCHANGED <<failed, auth, serverInfo, database, tried, life>>

\* A command of the redis driver that is answered NOAUTH clears isAuth_.
CommandOutcome(ok) ==
  /\ ok => connected
  /\ failed' = ~ok
  /\ auth' \in (IF Redis /\ connected /\ ~ok THEN {auth, FALSE} ELSE {auth})

\* CurrentDatabaseInfo() followed by CHECK(curdb); the redis driver first asks the
\* server for the number of databases and reports an error if it cannot.
LoadingDatabases ==
  /\ current.kind = "loadDatabases"
  /\ \/ /\ Redis
        /\ CommandOutcome(FALSE)
        /\ UNCHANGED life
     \/ /\ Redis => connected
        /\ life' = IF connected /\ database THEN life ELSE "aborted"
        /\ UNCHANGED <<failed, auth>>
  /\ UNCHANGED <<connected, serverInfo, database, tried>>

\* ServerDiscoveryInfo: INFO, then Select, then both results are cached.
Discovering ==
  /\ current.kind = "discovery"
  /\ \E ok \in BOOLEAN :
       /\ CommandOutcome(ok)
       /\ serverInfo' = (serverInfo \/ ok)
       /\ database' = (database \/ ok)
       /\ tried' = (tried \/ connected)
  /\ UNCHANGED <<connected, life>>

\* Requests run by a command of the driver: they fail when not connected.
\* SELECT, which makes another database the default, caches it.
Commanding ==
  /\ current.kind \in ({"serverInfo"} \cup ContentKinds \cup Implemented) \ {"export"}
  /\ \E ok \in BOOLEAN :
       /\ CommandOutcome(ok)
       /\ database' = (database \/ (current.kind = "setDefault" /\ ok))
  /\ UNCHANGED <<connected, serverInfo, tried, life>>

\* replyNotImplementedYet.
Refusing ==
  /\ current.kind \in OptionalKinds \ Implemented
  /\ failed' = TRUE
  /\ UNCHANGED <<linkVars, life>>

\* Work on files, which does not use the connection: the history, and the dump
\* file an export replaces.
FileWork ==
  /\ current.kind \in FileKinds \cup (Implemented \cap {"export"})
  /\ failed' \in BOOLEAN
  /\ UNCHANGED <<linkVars, life>>

\* InteracteveMode of the redis driver only posts events.
Configuring ==
  /\ current.kind = "configArgs"
  /\ UNCHANGED <<failed, linkVars, life>>

DriverWork ==
  /\ Alive
  /\ pc = "work"
  /\ current.kind \notin BatchKinds
  /\ pc' = "reply"
  /\ \/ Connecting \/ Disconnecting \/ LoadingDatabases \/ Discovering
     \/ Commanding \/ Refusing \/ FileWork \/ Configuring
  /\ UNCHANGED <<requests, events, current, left, rooted, late, interrupted, clientVars>>

\* Mutant: the handler forgets ProgressChanged(100).
RepliesWithoutDone(kind) == <<Post("response")>>

\* Mutant: the handler reports progress but never the response.
RepliesDoneOnly(kind) == <<Post("done")>>

\* What a handler posts at its end.
Replies(kind) ==
  CASE kind \in FileKinds   -> <<Post("response")>>
    [] kind = "configArgs"  -> <<Post("enterMode"), Post("leaveMode"), Post("done"),
                                 Post("response")>>
    [] OTHER                -> <<Post("response"), Post("done")>>

DriverReply ==
  /\ Alive
  /\ pc = "reply"
  /\ current.kind \notin BatchKinds
  /\ pc' = "idle"
  /\ events' = events \o Replies(current.kind)
  /\ UNCHANGED <<requests, current, failed, left, rooted, late, linkVars, interrupted,
                 clientVars, life>>

\* HandleExecuteEvent refuses an empty input line, and one without a command.
ExecuteEmpty ==
  /\ Alive
  /\ pc = "work"
  /\ current.kind = "execute"
  /\ pc' = "idle"
  /\ failed' = TRUE
  /\ events' = events \o <<[Post("response") EXCEPT !.error = TRUE], Post("done")>>
  /\ UNCHANGED <<requests, current, left, rooted, late, linkVars, interrupted, clientVars, life>>

\* Otherwise a RootLocker announces the root of the batch, unless it is silent.
ExecuteBegin ==
  /\ Alive
  /\ pc = "work"
  /\ current.kind \in BatchKinds
  /\ pc' = "check"
  /\ rooted' \in BOOLEAN
  /\ events' = IF rooted' THEN Append(events, Post("rootCreated")) ELSE events
  /\ UNCHANGED <<requests, current, failed, left, late, linkVars, interrupted, clientVars, life>>

\* Mutant: the loop of the batch does not count its commands.
BatchOverUncounted == interrupted

\* Mutant: the loop of the batch does not look at the interrupt flag.
BatchOverDeaf == left = 0

\* When the loop of an Execute ends.
BatchOver == left = 0 \/ interrupted

\* The loop head: stop on an interrupt or at the end, else start the next command.
ExecuteCheck ==
  /\ Alive
  /\ pc = "check"
  /\ pc' = IF BatchOver THEN "reply" ELSE "run"
  /\ failed' = (left > 0 /\ interrupted)
  /\ UNCHANGED <<requests, events, current, left, rooted, late, linkVars, interrupted,
                 clientVars, life>>

\* One command.  It succeeds, or fails and ends the batch; SELECT caches the
\* database, QUIT closes the connection, and redis decides about isAuth_.
ExecuteCommand ==
  /\ Alive
  /\ pc = "run"
  /\ late' = IF interrupted /\ late < LateCap THEN late + 1 ELSE late
  /\ left' = IF current.kind = "watch" THEN left ELSE left - 1
  /\ \/ /\ pc' = "check"
        /\ UNCHANGED <<failed, events, linkVars>>
     \/ /\ pc' = "reply"
        /\ failed' = TRUE
        /\ auth' \in (IF Redis /\ connected THEN {auth, FALSE} ELSE {auth})
        /\ UNCHANGED <<events, connected, serverInfo, database, tried>>
     \/ /\ Redis
        /\ connected
        /\ pc' = "check"
        /\ auth' = TRUE
        /\ UNCHANGED <<failed, events, connected, serverInfo, database, tried>>
     \/ /\ connected
        /\ pc' = "check"
        /\ database' = TRUE
        /\ UNCHANGED <<failed, events, connected, auth, serverInfo, tried>>
     \/ /\ connected
        /\ pc' = "check"
        /\ connected' = FALSE
        /\ events' = Append(events, Post("disconnected"))
        /\ UNCHANGED <<failed, auth, serverInfo, database, tried>>
  /\ UNCHANGED <<requests, current, rooted, interrupted, clientVars, life>>

\* The response is posted before the RootLocker is destroyed.
ExecuteReply ==
  /\ Alive
  /\ pc = "reply"
  /\ current.kind \in BatchKinds
  /\ pc' = "idle"
  /\ events' = events \o <<Post("response"), Post("done")>>
                      \o (IF rooted THEN <<Post("rootCompleated")>> ELSE <<>>)
  /\ UNCHANGED <<requests, current, failed, left, rooted, late, linkVars, interrupted,
                 clientVars, life>>

\* The event loop returns: Clear disconnects, then the server is destroyed with
\* the events still queued for it.
DriverExit ==
  /\ life = "closing"
  /\ pc = "idle"
  /\ life' = "stopped"
  /\ connected' = FALSE
  /\ requests' = <<>>
  /\ events' = <<>>
  /\ UNCHANGED <<driverVars, auth, serverInfo, database, tried, interrupted, clientVars>>

\* A destroyed server, and a process ended by a failed CHECK, do nothing more.
Ended ==
  /\ life \in {"stopped", "aborted"}
  /\ UNCHANGED vars

-----------------------------------------------------------------------------
DriverStep ==
  \/ DriverTake \/ DriverWork \/ DriverReply
  \/ ExecuteEmpty \/ ExecuteBegin \/ ExecuteCheck \/ ExecuteCommand \/ ExecuteReply
  \/ DriverExit

ServerStep == ServerForward \/ ServerDeliver

Next ==
  \/ \E kind \in UserKinds : Call(kind)
  \/ StopCurrentEvent
  \/ Close
  \/ ServerStep
  \/ DriverStep
  \/ Ended

Spec == Init /\ [][Next]_vars

\* Both event loops run; callers need not call, and nobody need close.
Fairness == WF_vars(DriverStep) /\ WF_vars(ServerStep)
FairSpec == Spec /\ Fairness

-----------------------------------------------------------------------------
(* Properties. *)

\* Types of all variables.
TypeOK ==
  /\ requests \in Seq(Request)
  /\ events \in Seq(Event)
  /\ current \in [id : Nat, kind : Kinds]
  /\ pc \in Locations
  /\ failed \in BOOLEAN /\ left \in Nat /\ rooted \in BOOLEAN /\ late \in Nat
  /\ connected \in BOOLEAN /\ auth \in BOOLEAN /\ serverInfo \in BOOLEAN
  /\ database \in BOOLEAN /\ tried \in BOOLEAN
  /\ interrupted \in BOOLEAN
  /\ bar \in {"busy", "done"}
  /\ issued \in Nat /\ asked \in Nat
  /\ delivered \in Seq(Nat)
  /\ lastAsked \in Kinds
  /\ life \in {"running", "closing", "stopped", "aborted"}

\* Finished signals are emitted at most once per request and in the order of the
\* Started signals, whatever mixture of requests and stops the callers issue.
InOrder ==
  \A i, j \in 1 .. Len(delivered) : i < j => delivered[i] < delivered[j]

\* The server and its driver implement what the server promises its callers.
Delivery == INSTANCE OrderedDelivery WITH open <- (life = "running")
DeliverySpec == Delivery!Spec

\* After a stop, or the stop inside a disconnect or a close, the running batch
\* finishes the command it is in and starts no other.
InterruptBound == late <= 1

Quiescent == life = "running" /\ requests = <<>> /\ events = <<>> /\ pc = "idle"

\* Whenever both queues have drained, a connection that is open has been through
\* discovery since it was opened, even if connects and disconnects overlapped.
DiscoveryTried == Quiescent /\ connected => tried

\* Whenever both queues have drained the progress bar shows 100, unless the last
\* request was one of the two about the history file, which post no progress.
BarSettles == Quiescent /\ lastAsked \notin FileKinds => bar = "done"

\* Every posted request is answered by its Finished signal, unless the server is
\* closed, the process ends, or a watch keeps the driver busy; once that is stopped
\* the requests behind it are answered.
RequestsAnswered ==
  \A id \in 1 .. 3 * MaxRequests :
    (\E i \in DOMAIN requests : requests[i].id = id /\ requests[i].kind \in Dispatched)
      ~> \/ life # "running"
         \/ \E i \in DOMAIN delivered : delivered[i] = id
         \/ pc # "idle" /\ current.kind = "watch"

\* A watch, which repeats its commands for ever, ends once it is interrupted.
StopStopsWatch ==
  \A id \in 1 .. 3 * MaxRequests :
    (pc # "idle" /\ current = [id |-> id, kind |-> "watch"] /\ interrupted)
      ~> (pc = "idle" \/ current.id # id)

\* Closing a server ends its thread, if no watch is still waiting in the queue (the
\* handler of a queued request clears the interrupt flag that the close has raised).
CloseTerminates ==
  (/\ life = "closing"
   /\ \A i \in DOMAIN requests : requests[i].kind # "watch"
   /\ pc # "idle" /\ current.kind = "watch" => interrupted)
    ~> life \in {"stopped", "aborted"}

\* The comment on ShutDown: a shutdown that was started is finished, unless the
\* server is closed or the process ends.
ShutdownFinishes ==
  \A id \in 1 .. 3 * MaxRequests :
    (\E i \in DOMAIN requests : requests[i] = [id |-> id, kind |-> "shutdown"])
      ~> (life # "running" \/ \E i \in DOMAIN delivered : delivered[i] = id)
=============================================================================
