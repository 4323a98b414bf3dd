# FastoNoSQL in TLA+

FastoNoSQL is a desktop client for key-value stores: redis, memcached, ssdb,
leveldb, rocksdb, unqlite, lmdb and upscaledb.  These modules model its
asynchronous core and the widgets that depend on it, the way of a console line
from the command table to the output tree, the connections to the eight stores
and the loops over their keys, the settings with the texts they are kept in, and
the server history.  TLC checks them on small instances and TLAPS proves part of
the results for all of them.  Paths below are relative to `src/src/`.

## 1. The system

| part | state | operations | talks to |
|---|---|---|---|
| `IServer` (`core/server/iserver.cpp`), GUI thread | `databases_`, its driver | one method per request, `StopCurrentEvent`, destructor | posts request events to the driver, turns response events into signals |
| `IDriver` (`core/driver/idriver.cpp`), a thread per server | `server_info_`, `current_database_info_`, the log file, the interrupt flag | one handler per request, the batch loop of Execute, a timer | posts progress, root and response events; emits key signals |
| concrete drivers (`core/<store>/driver.cpp`) | a connection | override the handlers that a store supports | commands of the connection |
| connections (`core/internal/`, `core/<store>/db_connection.cpp`) | a handle, a configuration, for redis `isAuth_` | connect, select, set, delete, rename, keys, flush, quit | callbacks on the driver (`CDBConnectionClient`) |
| command table (`core/command_holder.cpp`, `core/internal/command_handler.cpp`) | none | matches a line against the commands of a store | calls the connection |
| command translators (`core/<store>/command_translator.cpp`) | none | write the line for an operation on a key | explorer, dialogs, output tree |
| console (`shell/shell_widget.cpp`) | buttons, labels | connect, execute, stop | methods and signals of the server; reads `IsConnected` and the infos directly |
| explorer (`gui/explorer/`) | a tree of servers, databases, keys | menus; reactions to signals | the same |
| history (`idriver.cpp`, `core/<store>/server_info.cpp`, `gui/dialogs/history_server_dialog.cpp`) | a file, the shots shown | append on a timer, load, clear, show | the file system, the dialog |
| output tree (`core/driver/*root_locker.cpp`, `global/global.cpp`, `gui/widgets/output_widget.cpp`) | objects of a batch, items of a view | add, update | an observer in the driver's thread posts to the view |
| settings (`core/settings_manager.cpp`, `core/*settings*`, `core/<store>/config.cpp`) | lists of connections, clusters, sentinels, recent paths | edit, start, exit, export, import, load | dialogs, a settings file |
| servers manager (`core/servers_manager.cpp`, `gui/main_window.cpp`) | the servers held | open and close servers, clusters, sentinels | the tree |
| sentinel and cluster discovery (`core/redis/`) | none | parse the answers of a server | dialogs |

What is hard here:

* **Two threads without a lock.** The GUI thread raises the interrupt flag and
  reads the connection state and the cached infos while the driver thread
  changes them.  `customEvent` clears the flag for every event it takes.
* **Answers that are late.** Menus, buttons and labels are set from a state
  that may have changed when they are used; a request names a database, and
  runs on the one that is selected when its turn comes.
* **Follow-up requests.** The answer to a connect makes the server issue
  discovery; connects, disconnects and a `QUIT` inside a batch may overtake it.
* **Steps that fail half way.** Redis opens, authenticates and selects; a local
  store renames by get, delete and set; a flush deletes key by key.
* **Boundaries** of ranges, limits and cursors, which every store tests at
  another place of its loop.
* **Answers read by another command.** Redis answers come on one stream; a
  pipeline or a mode that stops early leaves some of them to whoever reads next.
* **Tables written apart.** Names and argument counts stand in one file, the
  functions that index `argv` in another, the translators in a third.
* **Texts that are written and parsed again**: connections at every start, server
  infos in every history.
* **Kills** in the middle of a write to the history log, and before the settings
  were saved.

What makes the parts correct: every request is answered once and in order; an
interrupt stops a batch after the command it is in; what the widgets show agrees
with the driver once all events have been handled; the tree agrees with the
store; a line reaches the method it names with its own words; a connection tells
its client what it did and frees each handle once; an interrupted mode ends;
KEYS, DBKCOUNT and FLUSHDB do what the command table says; settings and infos
come back from their texts as they were; the log survives kills.  `PROJECT.json` lists each hazard with its line and the
properties that would catch it.

## 2. Modules

| module | models | composes |
|---|---|---|
| `OrderedDelivery` | the promise of `IServer` to its callers | |
| `ServerDriver` | `IServer`, `IDriver` and the queues between them | implements `OrderedDelivery` |
| `Client` | a user, the explorer's menus and one console | extends `ServerDriver` |
| `Explorer` | databases and keys in the tree and in the store | |
| `CommandTable` | the command tables of the eight stores | |
| `CommandHandlers` | the functions the tables point to | |
| `Commands` | dispatch of a line, translators | extends `CommandTable`, `CommandHandlers` |
| `Batch` | a batch from `HandleExecuteEvent` to the output widget | extends `Commands` |
| `StoreMethods` | the methods of the eight connections as library calls | |
| `StoreConnection` | one connection: its handle, its store, what its client is told | extends `StoreMethods` |
| `RedisLink` | pipeline, modes, MONITOR and SUBSCRIBE on the reply stream | extends `StoreConnection` |
| `StoreScan` | the loops of KEYS, DBKCOUNT and FLUSHDB | |
| `ConnectionText` | the texts of configurations, connections, clusters, sentinels | |
| `Settings` | the settings manager, its files, the servers open | extends `ConnectionText` |
| `ServerInfo` | the fields of server infos, parsed and written | |
| `HistoryLog` | the history log and the dialog that shows it | extends `ServerInfo` |
| `ServerDriverProofs`, `ClientProofs`, `ExplorerProofs`, `ConnectionProofs`, `StoreScanProofs`, `BatchProofs`, `SettingsProofs`, `HistoryLogProofs` | theorems | extend the modules they name; `ClientProofs` also extends `ServerDriverProofs`, and `ConnectionProofs` is about `RedisLink` with the modules below it |
| `MC...` | instances for TLC | |

**ServerDriver.** `requests` and `events` are the event queues of the two Qt
event loops.  `Call(kind)` is any method of `IServer`; `Close` is its
destructor.  The driver's program counter `pc` splits a handler where the other
thread can see the difference: taking the event (progress 0, flag cleared), the
work, and the replies; a batch is split at the head of its loop and around each
command.  Requests of the same shape are one action with a `kind`: `Connecting`,
`Disconnecting`, `LoadingDatabases`, `Discovering`, `Commanding` (anything that
is a command on the connection), `FileWork`, `Refusing` and `Configuring`.
What a store answers is a nondeterministic choice.  `Redis` distinguishes the redis
driver, which can be connected and not authenticated.  `watch` is an Execute
whose repeat count does not run out (`explorer_tree_item.cpp`, `watchKey`).
`late`, `tried`, `lastAsked` and `delivered` only record what happened.  A
failed `CHECK` is the end of the process (`life = "aborted"`).  Progress values
between 0 and 100 are left out, and so is the driver's timer, which is in
`HistoryLog`.

**Client.** A menu keeps the connection state it was built in, and its entry is
chosen later.  `SyncActions` reads the driver's state at the moment a signal is
handled, as `syncConnectionActions` does.  Opening a console reads
`server_info_` and `current_database_info_`, under the assertions of
`CurrentServerInfo` and `CurrentDatabaseInfo`.

**Explorer.** One step of the driver is one request; what can happen inside a
request is the subject of `ServerDriver`.  `selected` is the database the
connection really uses, `label` the name in `current_database_info_`, `shared`
the items that have the very info object of `databases_` (the one
`HandleSetDefaultDatabaseEvent` changes).  The connection can be closed and opened
again: redis then selects the database of the settings (`Start`), or stays in its
first one, while the tree keeps its items and its mark.  LoadDatabases of redis lists
all databases, the current one or none, depending on the answer to CONFIG GET.  A key
that the menu creates is a `set` or, for a container, a `push`, which signals nothing; a
flush deletes all keys, fails half way or, for upscaledb and ssdb, leaves some and
succeeds.  `slips` records events after which
the code does not keep tree and store together, and `moved` a change of database other
than by an accepted set-default; the properties say which of them
they exclude.  Values, TTLs (and so keys that expire) and namespaces are left
out.

**CommandTable, CommandHandlers, Commands.** A table entry keeps the name, the
number of words its usage text documents, the argument counts and the handler; a
handler keeps which words of `argv` it reads, the method it calls and what it hangs
under the command object.  `Commands` has the search through a table, whose
comparison and count test are those of `CommandHolder::IsCommand`, and the lines
that the translators write.  A line is the sequence of its words.

**Batch.** The driver's half builds the objects (root, commands, answers) and
posts an event for each; the widget's half takes the events in order and makes or
updates items.  `RootLocker` posts every answer; `FirstChildUpdateRootLocker`, used
for a batch repeated without history, posts the first answer of a command and
updates it afterwards.  The repeat count is a `size_t` of `Sizes` values: a watch
asks for the largest but one, so that the loop bound is the largest.

**StoreMethods, StoreConnection.** Each method of each store is the sequence of
library calls it makes, named for what they do to keys; the libraries
are external.  `stored` is what the store has and `told` what the callbacks of
`CDBConnectionClient` make a client believe.  A call may be refused, fail with the
link or, over a network, be carried out while its answer is lost.  `stale` counts
the answers of redis that nobody has read: the next read gets the oldest of them.

**RedisLink.** The methods that read more than one answer.  `AppendCommand` and
`GetReply` of the key listing, the TYPE loop, the modes (`--latency`,
`--stat`, `--bigkeys`, `--scan`, slave, RDB) with the order in which they
test the interrupt flag, and MONITOR and SUBSCRIBE, whose server keeps sending.
`astray` is why the stream is out of step.  `pipe` is the running pipeline: which of
its commands have been sent and not answered, and whether an answer was filed under a
command it does not answer, as happens behind a command that could not be split.

**StoreScan.** One turn of a loop is one step.  A store is the sequence `walk` of
its keys in the order of the cursor; keys and limits are integers, which only
need the order of the strings they stand for.  The stores differ in where they
test the range and the limit, and in what they do when the cursor fails; each has
its action.

**ConnectionText.** Commas separate the fields of a connection and spaces the
words of its command line, and neither is escaped.  A text is therefore the
sequence of its pieces, and a name or value that holds a separator is several of
them.  `CommandLine` and `SetCommandLine` write and read a configuration with the
options of its store, `ConnectionToString` and `CreateFromString` a connection; the
texts of clusters and sentinels hold those of their nodes.

**Settings.** `memory`, `disk` and `export` are the settings of the manager and
of two files; `held` is what the servers manager owns and `items` what
the main window shows.  A server is the opening that made it, with its group and its
node: that order is the order of `servers_`, and the last of them is what an erase of
an absent server takes away.  Files are written at exit and on export only; a kill loses what is in memory.

**ServerInfo, HistoryLog.** A reply of a server is parsed section by section,
written to the log by the timer and parsed again for the dialog.  The file is a
sequence of pieces, whole lines or beginnings of lines.  A kill leaves any prefix
of what was being written; the next run appends to it, so that a cut line is
continued by the next stamp.  Lines, stamps and shots are given by the pieces they
end with (`Ends`, `Stamps`, `ShotAt`), so that what the reading loop has read is a
function of the file and not of the loop's turns.  What the number conversion makes of two stamps glued
together is open (`misread`), and so is a number nobody initialised (`"any"`).  The
file class belongs to an external library; it is modelled as stdio.  Dialog and
driver talk through queues, so that a shot can be taken between a request and its
answer.

## 3. Runs

| run | expects | checks |
|---|---|---|
| `server_threads` | pass | `TypeOK`, `InOrder`, `InterruptBound` and, under fairness, `RequestsAnswered`, `StopStopsWatch`, `CloseTerminates`: a local driver, 2 requests, batches of up to 2 commands |
| `shutdown_signals` | violation | `ShutdownFinishes`: the response to a shutdown is not dispatched |
| `client_local` | pass | `ButtonsSettle`, `DiscoveryTried`, `BarSettles`: a local store, 3 requests |
| `client_redis` | pass | `LabelSettles` and `DeliverySpec`, the refinement of `OrderedDelivery`: redis, 3 requests of every shape |
| `client_check` | violation | `NoFailedCheck`: a console opened between connect and discovery |
| `explorer` | pass | `TypeOK`, `ShownStored`, `StoredShown`: a local store and redis, each with one database and 2 keys; `OneDefault`, `DefaultSelected`: redis with 3 databases and a local store; 4 requests, reconnects and refusals included, all commands can fail |
| `console_batches` | pass | `NotShadowed`, `ReadsPassed`, `WholeLineSent`, `UsageAccepted`: every command of the eight tables with every number of arguments around its limits; `TranslatedRuns`: every translated line; `EachRuns`, `AllShown`, `LatestShown`: batches of up to 2 lines in the output tree |
| `batch_create` | violation | `DoneAsAsked`: the line that creates a memcached key |
| `connections` | pass | `TypeOK`, `ToldExact`, `HandlesFreed`, `InStep` and, under fairness, `SampleLoopsEnd`: each of the eight stores, 4 methods, modes, listings or tests |
| `scan_all` | pass | `TypeOK`, `KeysMatch`, `KeysFound`, `CountExact`, `FlushEmpties`: the six stores with loops of their own |
| `settings` | pass | `Restored`, `HeldShown`: edits, openings, files, exits and kills in any order |
| `history_log` | pass | `TypeOK`, `SoundShotsShown`, `NothingElseShown`, `FieldsShown`: 5 shots, 2 kills, 3 requests of the dialog, replies of all types of servers |

The violations are the findings of `PROJECT.json`, each with the line of the
repository that says otherwise.  Where a property of a passing run excludes a case in
which the code does something else, its comment names the case and section 5 lists it.

**Bounds.** `MaxRequests` bounds what callers ask.  Three requests are enough for
a connect, a disconnect and another connect to be queued while the answer to the
first is pending, which is the shortest way to separate a follow-up discovery
from its connection; the follow-ups come on top.  The run under fairness uses two:
a watch and what is queued behind or before it.  `BatchSize` 2 gives a batch a command
before, during and after an interrupt; `LateCap` 2 suffices for a property that
allows one.  Four requests in `Explorer` are load databases, load content and two
changes, on servers with one database, since key commands run on the selected one
whatever they name; or a load, a disconnect, a reconnect and a set-default (before or
after them) or SELECT, on servers without keys.  A console line has 0 to 12 arguments, more than any limited table entry
allows, and 255, 257 and 259, around the unlimited count of a `uint8_t`.  Two
lines make every pair of equal and different commands.  Four calls of a connection
are a connect, two changes of a key (the second by another command) and a
disconnect or reconnect; two stale answers are more than the one that shifts a
stream, `MaxScans` 1 lets a SCAN loop go round or stop.  Three keys and the limits 0
to 4 put each bound of a range before, on, between and after keys; limits 0 to 3
include "none" and "all".  `Sizes` 4 is a `size_t` of two bits, where a watch runs three rounds.  Two edits,
two openings and three uses of files let
settings be changed, saved, changed again and read back while something is open.
Five shots are two kills with sound shots around and between them.  `explorer`,
`scan_all`, `history_log`, `connections` and `settings` stop when the bound is used
up or the call has returned, so deadlock is not checked there; the other runs check
it, with `Ended` for a server that was closed and `Idle` for a batch that has been
shown.

**Fairness.** Weak fairness of the driver's and of the server's steps: both are Qt
event loops of running threads, each handles whatever is queued, and each
handler's calls return.  Nothing is assumed of the user.  `CloseTerminates`
excludes a watch that is still queued when the server is closed: its handler
clears the flag the close raised.  The precondition also asks that a running
watch has seen the flag, for the same reason.  `LinkSpec` assumes weak fairness of
the steps of a running method: a blocking call of hiredis is answered or its link
is found dead.  It does not assume that the user interrupts; `SampleLoopsEnd` is
about loops that were interrupted.

## 4. Proofs

The theorems hold for every value of the constants that satisfies the named
assumptions (`ConstantsAssumption`, `StoreAssumption`, `LinkAssumption`,
`JobsAssumption`, `TablesAssumption`), which TLC evaluates in the runs.  They only say
what the code guarantees of any instance: bounds are natural numbers, sets of keys are
finite, a local store has one database and no SELECT, a line is a sequence of words
and repeats at most as often as the watch.  `TablesAssumption` is of another
kind: the command tables are constants of the program, some three hundred literal
entries, and it says of each entry that its name has one or two words, that its counts
admit what its text documents and cover what its handler reads, and of each two that
the earlier name is no beginning of the later.  TLC evaluates it on the tables
themselves; the theorems of `BatchProofs` are about what dispatch makes of such tables
for every line.  No theorem assumes fairness or anything about the user.  Few
of the properties are inductive: most speak of the moment when the queues have
drained, so that their invariants have to say what the messages on the way will do
when they are handled.  Where many actions have the same effect on an invariant, a
digest of the steps is proved first (`Takes`, `Passes` and `Returns` of a listing,
`UserStep`, `DriverStep` and the others of the tree) and the invariant from it.

`ServerDriverProofs`:

* `TypeCorrect`: `Spec => []TypeOK`, with `pc = "run" => left > 0` (a batch that
  runs a command has one left, so the counter stays a natural number).
* `DeliveryInOrder`: `Spec => []InOrder`.  `OrderInv` orders everything in flight:
  the numbers of the answered requests, of the responses in the event queue, of the
  request being handled and of the queued requests ascend, and none is above
  `issued`.
* `InterruptStops`: `Spec => []InterruptBound`, from `InterruptInv`: when a late
  command has been counted the flag is still up and the driver is not about to
  run another, because the loop head does not enter `run` while the flag is up.
* `DeliveryRefinement`: `Spec => DeliverySpec`; a step of the server that
  answers is `Answer`, one that issues is `Issue`, everything else stutters.
* `DiscoveryFollows`: `Spec => []DiscoveryTried` for local stores.  `DiscoverInv`:
  while an open connection has not been through discovery, that request is queued or
  being handled, or the answer to the connect is posted or about to be, with no
  answer behind it that would undo it (`LastIn`, a lemma library about the last of
  two kinds of messages in a queue).
* `BarAlwaysSettles`: `Spec => []BarSettles`.  `BarInv`: once the events on the way
  are handled the bar shows 100, or the handler that will post 100 is running.

`ClientProofs`, for any interleaving of a user, menus and a console with the above:

* `ClientTypeCorrect`, `ClientDelivery`, `ClientDiscovery` and `ClientBar` carry the
  results above over to `ClientSpec`: a step of the client is a call, an event of the
  server that it follows, or leaves server and driver alone, and a failed `CHECK`
  (`Aborts`) stops everything.
* `LabelAlwaysSettles`: `ClientSpec => []LabelSettles`.  `LabelInv`: while no
  connection is open, the events on the way reset the label after the last that could
  set it, or the handler that will post such a reset is running.
* `ButtonsAlwaysSettle`: `ClientSpec => []ButtonsSettle` for local stores.
  `ButtonInv`: a button that disagrees with the driver has an event on its way, or a
  request at work, on which the console sets it again.

`DiscoveryTried` and `ButtonsSettle` are about local stores, in the theorems as in the
runs: a redis connect that is refused after its handle was opened issues no discovery.

`ExplorerProofs`, for any servers, keys, databases and number of requests:

* `TreeTypeCorrect`: `Spec => []TypeOK`.  `TypeInv` adds the form of what is queued:
  requests and answers about a whole database name one that has an item, and a
  database without an item has no keys.
* `OneDefaultMarked`: `Spec => []OneDefault`.  `PlaceInv`: until redis refuses a name,
  label and connection agree and only databases of the server are listed.
  `SharedInv`: while no LoadDatabases failed, each item has the info object of
  `databases_`, so that a set-default resets every one of them.  A second mark can then
  only come with an item listed later, and two invariants say that none does:
  `WholeInv`, while every listing was whole, all databases are listed at once;
  `StartInv`, while no console selected one, the database of the settings is listed
  first and is the current one until all are, reconnects included.
* `MarkedIsSelected`: `Spec => []DefaultSelected`.  `ChosenInv`: whatever in the queue
  sets a mark is for the database the connection uses, or a later set-default in the
  queue is (`Settles`); an accepted set-default makes that true whatever was queued
  before it.
* `NothingMissing` and `NothingInvented`: `Spec => []StoredShown` and `[]ShownStored`.
  An event in the queue is a change of the set of shown keys (`Kept`).  `LoadInv`: the
  changes in the queue, applied in their order to at least the keys shown now, end
  with at least the stored ones (`ShowsAll`); `ShowInv`: applied to at most
  those shown they end with at most the stored ones (`ShowsOnly`),
  and no key is shown twice.  Each ends with slips of its own: an unannounced container
  or a flush that left keys only with the first, a half-done rename or deletion
  only with the second.  A driver's step appends what it did to the store, a
  step of the tree takes the first change away.

`ConnectionProofs`, about `RedisLink` and the modules it extends, for the eight stores:

* `HandlesAlwaysFreed`: `LinkSpec => []HandlesFreed`.  `HandleInv`: a method runs only
  on a handle, and a test only on its own.
* `LinkTypeCorrect`: `LinkSpec => []TypeOK`.  The counters and the keys of a call stay in
  range because of the shape of the running method, `ShapeInv` for the calls it has
  still to make and `ModeShape` for the answers a mode has still to read.
* `StreamInStep`: `LinkSpec => []InStep`.  `StreamInv`: unread answers exist only on
  the open handle of a redis server, and while nothing went astray only for a mode
  that listens or behind a dead link.  `PipeInv`: while no command was left out, the
  commands still to be answered are the next in the list, so that an answer is filed at
  the place of the first of them.
* `ClientToldExactly`: `LinkSpec => []ToldExact`.  `TellInv`: at every point of a
  method the client is right about the keys that the method has not touched, and
  `Progress` says, method by method, what has been stored and told of the others (a
  key that is being renamed is under neither name for a while).

`StoreScanProofs`:

* `ScanTypeCorrect`: `Spec => []TypeOK`, with what upscaledb's key buffer and
  cursor satisfy (`TypeInv`).
* `ListingComplete`: `Spec => []KeysFound`, which is about every store but
  upscaledb.  `SeekInv` says that a seek leaves only smaller keys
  behind; `ListInv` that the list holds exactly the matching keys the cursor has
  passed, in their order.
* `ListingSound`: `Spec => []KeysMatch`, upscaledb included, with `SeekInv` for the
  loops that do not test the lower bound.
* `CountComplete`: `Spec => []CountExact`; `CountInv`: the count is the number of keys
  before the cursor, and the loop ends only behind the last key or with an error.
* `FlushComplete`: `Spec => []FlushEmpties`; `FlushInv` is the property together
  with the type of the cursor.

`BatchProofs`, for any lines of any words, any batches of them and any width of
`size_t`:

* `DispatchNotShadowed`, `HandlersReadLine`, `ForwardsWholeLine` and
  `DocumentedAccepted`: `Spec => []NotShadowed`, `[]ReadsPassed`, `[]WholeLineSent` and
  `[]UsageAccepted`.  `ControlInv`: the loops are at a line of the batch and `ex` is what
  `Execute` makes of it; the rest follows from `TablesAssumption` by lemmas about the
  first entry that matches.
* `LinesRunInEachRound`: `Spec => []EachRuns`.  `RunsInv`: so far each text has been run
  once per finished round and line that has it, and once more per line already begun in
  this round; the loop bound does not wrap because `repeat` is below the largest value.
* `AllAnswersShown`: `Spec => []AllShown`.  `HistoryInv`: the answers in the tree of
  objects are those of the log, in order.  `ShownInv` (`QueueInv`, `ViewInv`): the
  objects a view wants are in the queue or in the view, in the order of their creation
  and once, and an item has the value of its object, or an update with it is on its way,
  or a set of the batch has stored the value it shows (`LogInv`).
* `LatestAnswerShown`: `Spec => []LatestShown`.  `WatchedInv`: the watched commands are
  the first with their texts; `RepliedInv`: the first answer to a text is under the first
  command with it; `LatestInv`: and it has the value of the last answer.  `ShownInv`
  carries that to the view.

`BaseInv` is what all of these rest on: `ControlInv`, types (`TypeInv`) and the shape of
the tree of objects (`TreeInv`).

`SettingsProofs`, for any connections, clusters and sentinels:

* `ServersHeld`: `Spec => []HeldShown`.  `ServersInv`: the servers of an item carry its
  kind and the number of an earlier opening, and an item that is no sentinel shows
  all of its servers (`ItemInv`); no two items share a server (`ApartInv`), so that
  closing one takes nothing from another; and the property itself (`HeldInv`).

`HistoryLogProofs`, for any lengths of infos and any numbers of shots, kills and requests:

* `HistoryTypes`: `Spec => []TypeOK`.  `TypeInv` adds the types of what is reported.
  What needs an argument is the reading: whatever pieces the file has, `Parsed` is a
  sequence of shots.  Its lemmas say that `Nth` enumerates a set of numbers in order.
* `SoundShotsAlwaysShown` and `NothingElseEverShown`: `Spec => []SoundShotsShown` and
  `[]NothingElseShown`.  `FileInv`: the file has pieces of the shots kept, in order
  (`KeptInv`, `OrderInv`), and each shot that was not torn stands in it whole, from the
  beginning of a line and up to the next stamp unless its neighbour was torn
  (`WrittenAt`); reading such a file yields each sound shot once and with its own info.
  `EventsInv`: shots on their way to the dialog are later than what it has and than every
  history before them.  `DialogInv`: unless a load is pending, the last answer on the
  way (or, with none, what is shown) and the shots reported after it are together what is
  to be shown (`Covers`).  A load that crosses a shot is the case it is for: the shot is in
  the file when the answer is made, or behind the answer in the queue, never both.

Only model-checked: the liveness properties (`RequestsAnswered`, `StopStopsWatch`,
`CloseTerminates`, `SampleLoopsEnd`), which are out of the prover's reach; `FieldsShown`
of `HistoryLog` and `Restored` of `Settings`, about parsers that fold over the words of a
text and come back to what a writer wrote: what a fold computes for every input needs an
induction over data that the provers cannot do; and `TranslatedRuns` of `Batch`, about
the finitely many lines the translators write, each of which the run sends through the
tables.

## 5. Known divergences

The findings apart, modelling met these places where the code does less than a
reader would expect.  The models follow the code; the properties exclude the cases
by name.

*Commands.* The counts of redis BITOP, BRPOPLPUSH and GEOADD and of ssdb MULTI_GET,
ZSET and ZKEYS refuse their own documented usage.  The ssdb handlers of INCR, ZKEYS,
MULTI_SET, MULTI_HSET and MULTI_ZSET read past the arguments their counts admit.
The ssdb translator writes redis names for containers.

*Connections.* A clear in the explorer flushes the database that is selected, not
the one it names (`core/redis/driver.cpp:604`).  KEYS of upscaledb never lists the
first key (`core/upscaledb/db_connection.cpp:291`), and its FLUSHDB keeps that key and
succeeds (line 347); DBKCOUNT of memcached counts
between "a" and "z" (`core/memcached/db_connection.cpp:316`); FLUSHDB of ssdb deletes
nothing; RENAME of memcached drops flags and expiry.  `StatMode` does not end once
its link is lost; `FindBigKeys` divides by zero on an empty database
(`core/redis/db_connection.cpp:1289`).  A pipeline or a TYPE loop that
stops early, and MONITOR and SUBSCRIBE, leave answers to the next command.  TYPE and
TTL of a key whose name cannot be split (an open quote or brace) are not sent, and the
answers behind them are filed under other keys (`core/redis/db_connection.cpp:1931`).  A
GetRDB that cannot write its file, or is to keep the payload in memory (line 1066),
leaves the payload on the stream.  An error reply to SELECT after a connect is ignored.

*Explorer.* Containers of redis that the menu creates or edits signal no key
(`core/redis/command_translator.cpp:55`), so that they are not shown until the next
load; the keys that a flush of upscaledb or ssdb leaves are not shown either.  When CONFIG GET
databases is not answered with a pair the current database alone is listed
(`core/redis/driver.cpp:488`); together with a console's SELECT two databases are then
marked as the default, as they are after a failed load.  A reconnect selects the
database of the settings (`core/redis/db_connection.cpp:814`) and leaves the mark where
it was.  The tree is not told of a console's SELECT or FLUSHDB.

*Settings.* Memcached and ssdb connections lose their command line at every restart:
the fourth comma that the parser waits for is not written.  Commas in names and words and
spaces in values are not escaped.  Intervals are written in whole seconds: `-i 0.1`
becomes 0 and `-i 1.5` becomes 1.  A host with port 0 is not written, and
`--intrinsic-latency` ends the parse.  The last node of a cluster or sentinel group
loses its SSH method.  Sentinels are not cleared when settings are loaded.  Closing
a sentinel closes the servers of its nodes and leaves those of the sentinels themselves
held; closing a node and then its sentinel erases a server that is absent.  The recent menu is not refreshed
by a load or an import, and an export copies the file on disk rather than the lists
in memory.

*History.* `MakeMemcachedServerInfo` leaves its loop at its only header
(`core/memcached/server_info.cpp:253`), so that the memcached history shows numbers
nobody set.  `redis_build_id` is neither read nor written.  A reply of redis that
lacks a section loses the one before it and all after.  Numbers above 32 bits are
not kept, and of the five floats of redis (`mem_fragmentation_ratio` and the CPU times)
the file keeps six significant digits (`core/redis/server_info.cpp:799`, 851).  After clearing a history whose log is not open the dialog keeps the
cleared shots.

## 6. Not modelled, and the plan

Left out: the SSH tunnel; the formatting of replies; the parsing of the node lists
of sentinels and clusters; preferences other than the lists of `Settings`; quotes in
command lines and commas in the names of clusters and sentinels; the cipher, base64
and QSettings around the settings file; namespaces, TTLs, sentinel and cluster items
in the explorer; the value editors and the dialogs that hold no state others read;
the configuration daemon and vendored code.  The store libraries, a redis server and the
file class are external and modelled from their use; of the vendored hiredis
(`third-party/redis/deps/hiredis`) the reading of a reply is modelled.

What could follow: the explorer's clusters and sentinels with their servers, as a
composition of `Explorer` and `Settings`; a `Restored` that is proved for
one option at a time, from a writer and a parser stated position by position as the
history's reader is.
