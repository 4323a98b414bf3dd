------------------------------ MODULE RedisLink ------------------------------
(***************************************************************************)
(* The methods of the redis DBConnection that read more than one answer:   *)
(* the loading of keys with its pipeline, the modes that the settings ask  *)
(* for after a connect, MONITOR and SUBSCRIBE.  They loop until the server *)
(* has no more to say or the user interrupts, and some of them leave with  *)
(* answers unread, or with a server that keeps on sending.                 *)
(***************************************************************************)
EXTENDS StoreConnection, FiniteSetsExt

CONSTANTS
  ModeLists,  \* the modes that the settings can ask for, each list in its order
  MaxScans,   \* rounds of a SCAN loop
  MaxStale    \* answers counted on the stream

VARIABLES
  rest,         \* modes to run after the running one
  feed,         \* the server sends lines nobody asked for
  astray,       \* why the stream is out of step, if it is
  pipe,         \* the running pipeline, see NoPipe
  interrupted,  \* the interrupt flag of the connection
  crashed       \* the program has divided by zero

linkAllVars == <<connectionVars, rest, feed, astray, pipe, interrupted, crashed>>

\* Of the commands of a pipeline: the places of those sent and not yet answered, the
\* answers filed so far, was a command left out, and was an answer filed under a
\* command that it does not answer.
NoPipe == [sent |-> {}, filed |-> 0, skipped |-> FALSE, misfiled |-> FALSE]

LinkInit ==
  /\ ConnectionInit
  /\ rest = <<>> /\ feed = FALSE /\ astray = "none" /\ pipe = NoPipe
  /\ interrupted = FALSE /\ crashed = FALSE

\* A method of StoreConnection; the event that brings it clears the interrupt flag.
\* What was wrong with a stream goes with its handle.
LinkAsk ==
  /\ ~crashed
  /\ Ask
  /\ interrupted' = FALSE
  /\ feed' = (feed /\ handle')
  /\ astray' = IF handle' THEN astray ELSE "none"
  /\ UNCHANGED <<rest, pipe, crashed>>

LinkStep ==
  /\ ~crashed
  /\ Step
  /\ feed' = (feed /\ handle')
  /\ astray' = IF handle' THEN astray ELSE "none"
  /\ UNCHANGED <<rest, pipe, interrupted, crashed>>

LinkProbe ==
  /\ ~crashed
  /\ ProbeStep
  /\ UNCHANGED <<rest, feed, astray, pipe, interrupted, crashed>>

\* Stop, from the thread of the windows.
Interrupt ==
  /\ ~crashed
  /\ op # Idle
  /\ interrupted' = TRUE
  /\ UNCHANGED <<connectionVars, rest, feed, astray, pipe, crashed>>

\* A line of MONITOR, a message of a channel, a command for the slave.
Push ==
  /\ ~crashed
  /\ feed
  /\ link = "up"
  /\ stale < MaxStale
  /\ stale' = stale + 1
  /\ UNCHANGED <<store, linkVars, isAuth, dataVars, op, probe, mismatched, asked, rest, feed,
                 astray, pipe, interrupted, crashed>>

-----------------------------------------------------------------------------
(* Beginning and leaving a mode. *)

FirstPhase == [latency |-> "ping", slave |-> "sync", rdb |-> "sync", bigkeys |-> "total",
               stat |-> "info", scan |-> "cursor", loadContent |-> "list",
               monitor |-> "first", subscribe |-> "first"]

ASSUME LinkAssumption ==
  /\ \A list \in ModeLists : list \in Seq(DOMAIN FirstPhase) /\ list # <<>>
  /\ MaxScans \in Nat /\ MaxStale \in Nat

Begun(name) ==
  [Idle EXCEPT !.name = name, !.phase = FirstPhase[name], !.scans = MaxScans]

AskMode ==
  /\ ~crashed
  /\ store = "redis"
  /\ Asked
  /\ IsConnected
  /\ interrupted' = FALSE
  /\ UNCHANGED <<store, linkVars, isAuth, dataVars, probe, streamVars, feed, astray, pipe,
                 crashed>>

\* HandleProcessCommandLineArgsEvent: all modes of the settings, in one event.
Modes ==
  /\ AskMode
  /\ \E list \in ModeLists : op' = Begun(Head(list)) /\ rest' = Tail(list)

\* HandleLoadDatabaseContentEvent.
LoadContent ==
  /\ AskMode
  /\ op' = Begun("loadContent")
  /\ UNCHANGED rest

\* The commands MONITOR and SUBSCRIBE of a console.
Listen ==
  /\ AskMode
  /\ \E name \in {"monitor", "subscribe"} : op' = Begun(name)
  /\ UNCHANGED rest

\* A mode that ends, whatever its result, is followed by the next one.
Left ==
  /\ op' = IF rest = <<>> THEN Idle ELSE Begun(Head(rest))
  /\ rest' = IF rest = <<>> THEN <<>> ELSE Tail(rest)

\* Left with answers unread: they become stale.
LeftOwing(reason, owed) ==
  /\ Left
  /\ stale' = IF stale + owed > MaxStale THEN MaxStale ELSE stale + owed
  /\ astray' = IF owed > 0 THEN reason ELSE astray

At(phase) ==
  /\ ~crashed
  /\ op.phase = phase
  /\ UNCHANGED <<store, handle, live, abandoned, stored, probe, asked, interrupted>>

In(phase) == At(phase) /\ UNCHANGED <<isAuth, pipe>>

LinkUp == link = "up" /\ UNCHANGED link
LinkLost == link' = "down"

\* The stream is read: an own answer, unless stale ones come first.
Read == LinkUp /\ mismatched' = (mismatched \/ stale > 0)

Untold == UNCHANGED <<told, unsure>>
Harmless == UNCHANGED <<crashed, feed>>
InPlace == UNCHANGED <<stale, astray>>

-----------------------------------------------------------------------------
(* Loading keys: SCAN, then TYPE and TTL of every key in a pipeline. *)

\* What the response carries is told, even when the pipeline stopped half way.
KeysTold ==
  /\ told' = [k \in Keys |-> IF k \in op.named /\ told[k] = None THEN Named ELSE told[k]]
  /\ unsure' = unsure \ {k \in op.named : told[k] = None}

\* The places, in the list of commands, of those sent for n keys: two for each key,
\* unless its name makes a line that sdssplitargslong cannot split.
Sent(n, unsplit) == UNION {{2 * i - 1, 2 * i} : i \in (1 .. n) \ unsplit}

\* Which names cannot be split (an open quote or brace) is left open.
ScanListed ==
  /\ At("list")
  /\ Read
  /\ \E named \in SUBSET Present :
       IF named = {} THEN Left /\ UNCHANGED pipe
       ELSE \E unsplit \in SUBSET (1 .. Cardinality(named)) :
              LET sent == Sent(Cardinality(named), unsplit)
              IN /\ op' = [op EXCEPT !.phase = IF sent = {} THEN "count" ELSE "replies",
                                     !.named = named, !.owed = Cardinality(sent)]
                 /\ pipe' = [NoPipe EXCEPT !.sent = sent, !.skipped = (unsplit # {})]
                 /\ UNCHANGED rest
  /\ UNCHANGED isAuth /\ Untold /\ Harmless /\ InPlace

\* The answer to the first command that has none is filed under the next in the list
\* of all commands, the ones that were not sent included.
Filed ==
  pipe' = [pipe EXCEPT !.sent = @ \ {Min(@)}, !.filed = @ + 1,
                       !.misfiled = @ \/ Min(pipe.sent) # pipe.filed + 1]

\* Mutant: the loop over the replies stops at the last but one.
PipelineReplyShort ==
  /\ At("replies")
  /\ Read
  /\ Filed
  /\ IF op.owed > 2 THEN op' = [op EXCEPT !.owed = @ - 1]
     ELSE op' = [op EXCEPT !.phase = "count", !.owed = @ - 1]
  /\ UNCHANGED <<rest, isAuth>>
  /\ Untold /\ Harmless /\ InPlace

\* CliReadReply for every command that was appended.
PipelineReply ==
  /\ At("replies")
  /\ Read
  /\ Filed
  /\ IF op.owed > 1 THEN op' = [op EXCEPT !.owed = @ - 1]
     ELSE op' = [op EXCEPT !.phase = "count", !.owed = 0]
  /\ UNCHANGED <<rest, isAuth>>
  /\ Untold /\ Harmless /\ InPlace

\* An error that CliReadReply reads, which may be NOAUTH.
Refused == Read /\ isAuth' \in {FALSE, isAuth}

\* The first error reply returns; the replies after it stay on the stream, and the
\* driver answers with the keys it has and no error.
PipelineStops ==
  /\ At("replies")
  /\ \/ Refused /\ LeftOwing("pipeline", op.owed - 1)
     \/ LinkLost /\ Left /\ InPlace /\ UNCHANGED <<mismatched, isAuth>>
  /\ pipe' = NoPipe
  /\ KeysTold /\ Harmless

\* DBkcount, whose error is not looked at.
KeysCounted ==
  /\ At("count")
  /\ \/ Read
     \/ LinkLost /\ UNCHANGED mismatched
  /\ LeftOwing("none", op.owed)
  /\ pipe' = NoPipe
  /\ UNCHANGED isAuth /\ KeysTold /\ Harmless

-----------------------------------------------------------------------------
(* FindBigKeys and ScanMode. *)

\* The share of keys done is computed in integers before the first SCAN.
KeysTotalled ==
  /\ In("total")
  /\ Read
  /\ crashed' = (Present = {})
  /\ op' = [op EXCEPT !.phase = "batch"]
  /\ Untold /\ InPlace /\ UNCHANGED <<rest, feed>>

\* The end of a round: the cursor is 0 or it is not.
RoundOver(phase) ==
  \/ op.scans > 0 /\ op' = [op EXCEPT !.phase = phase, !.scans = @ - 1, !.owed = 0] /\ UNCHANGED rest
  \/ Left

\* SendScan, and TYPE for every key of the batch.
BatchScanned ==
  /\ In("batch")
  /\ Read
  /\ \E named \in SUBSET Present :
       IF named = {} THEN RoundOver("batch")
       ELSE op' = [op EXCEPT !.phase = "types", !.owed = Cardinality(named)] /\ UNCHANGED rest
  /\ Untold /\ Harmless /\ InPlace

\* The last type is followed by the commands for the sizes, of the keys that still exist.
TypeRead ==
  /\ In("types")
  /\ Read
  /\ \/ op.owed > 1 /\ op' = [op EXCEPT !.owed = @ - 1] /\ UNCHANGED rest
     \/ op.owed = 1 /\ \E sent \in 1..Cardinality(Present) :
          op' = [op EXCEPT !.phase = "sizes", !.owed = sent] /\ UNCHANGED rest
     \/ op.owed = 1 /\ RoundOver("batch")
  /\ Untold /\ Harmless /\ InPlace

\* A type that is not known, or an error, returns before the other types are read.
TypesStop ==
  /\ In("types")
  /\ \/ Read /\ LeftOwing("types", op.owed - 1)
     \/ LinkLost /\ Left /\ InPlace /\ UNCHANGED mismatched
  /\ Untold /\ Harmless

\* A size that is an error counts as 0.
SizeRead ==
  /\ In("sizes")
  /\ Read
  /\ IF op.owed > 1 THEN op' = [op EXCEPT !.owed = @ - 1] /\ UNCHANGED rest
     ELSE RoundOver("batch")
  /\ Untold /\ Harmless /\ InPlace

\* ScanMode does not look at the interrupt flag.
CursorMoved ==
  /\ In("cursor")
  /\ Read
  /\ RoundOver("cursor")
  /\ Untold /\ Harmless /\ InPlace

-----------------------------------------------------------------------------
(* LatencyMode and StatMode: sample until interrupted. *)

\* Mutant: the loop goes on whatever the user wants.
NeverInterrupted == FALSE

\* IsInterrupted, at the head of every loop.
IsInterrupted == interrupted

\* One PING; an answer of any type is one more sample.
Ping ==
  /\ In("ping")
  /\ IF IsInterrupted THEN Left /\ UNCHANGED <<link, mismatched>>
     ELSE Read /\ UNCHANGED <<op, rest>>
  /\ Untold /\ Harmless /\ InPlace

StatHead ==
  /\ In("info")
  /\ IF IsInterrupted THEN Left ELSE op' = [op EXCEPT !.phase = "asking"] /\ UNCHANGED rest
  /\ UNCHANGED <<link, mismatched>> /\ Untold /\ Harmless /\ InPlace

\* INFO is sent until there is a reply: an error reply ends the mode, a link that is
\* gone does not.
StatReply ==
  /\ In("asking")
  /\ Read
  /\ \/ op' = [op EXCEPT !.phase = "info"] /\ UNCHANGED rest
     \/ Left
  /\ Untold /\ Harmless /\ InPlace

StatRetries ==
  /\ In("asking")
  /\ LinkLost
  /\ UNCHANGED <<op, rest, mismatched>> /\ Untold /\ Harmless /\ InPlace

-----------------------------------------------------------------------------
(* MONITOR, SUBSCRIBE, SlaveMode and GetRDB: the server goes on sending. *)

FirstReply ==
  /\ In("first")
  /\ Read
  /\ feed' = TRUE
  /\ op' = [op EXCEPT !.phase = "lines"]
  /\ Untold /\ InPlace /\ UNCHANGED <<rest, crashed>>

\* SYNC goes past hiredis; a slave listens on, a transfer reads its payload and leaves.
Synced ==
  /\ In("sync")
  /\ Read
  /\ feed' = TRUE
  /\ IF op.name = "slave"
       THEN op' = [op EXCEPT !.phase = "lines"] /\ UNCHANGED <<rest, astray>>
       ELSE Left /\ astray' = "feed"
  /\ Untold /\ UNCHANGED <<stale, crashed>>

\* GetRDB cannot open or write its file, or is to keep the payload in memory, which its
\* test of nwritten takes for an error: the payload stays on the stream.
TransferFails ==
  /\ In("sync")
  /\ op.name = "rdb"
  /\ Read
  /\ feed' = TRUE
  /\ LeftOwing("feed", 1)
  /\ Untold /\ UNCHANGED crashed

\* A slave looks at the flag before it reads, the listeners after they have read.
LineRead ==
  /\ In("lines")
  /\ LinkUp
  /\ stale > 0
  /\ op.name = "slave" => ~IsInterrupted
  /\ stale' = stale - 1
  /\ IF op.name # "slave" /\ IsInterrupted THEN Left /\ astray' = "feed"
     ELSE UNCHANGED <<op, rest, astray>>
  /\ UNCHANGED mismatched /\ Untold /\ Harmless

SlaveLeaves ==
  /\ In("lines")
  /\ op.name = "slave"
  /\ IsInterrupted
  /\ Left /\ astray' = "feed"
  /\ UNCHANGED <<link, streamVars>> /\ Untold /\ Harmless

\* Phases that return the error a server answers with, and those that a lost link ends.
RefusedPhases == {"list", "total", "batch", "cursor", "first", "sync"}
StrictPhases == RefusedPhases \cup {"sizes", "lines"}

PhaseFails ==
  /\ At(op.phase)
  /\ \/ op.phase \in RefusedPhases /\ Read /\ UNCHANGED isAuth
     \/ op.phase \in {"list", "first"} /\ Refused
     \/ op.phase \in StrictPhases /\ LinkLost /\ UNCHANGED <<mismatched, isAuth>>
  /\ Left /\ UNCHANGED pipe /\ Untold /\ Harmless /\ InPlace

PingFails ==
  /\ In("ping")
  /\ ~IsInterrupted
  /\ LinkLost
  /\ Left /\ UNCHANGED mismatched /\ Untold /\ Harmless /\ InPlace

-----------------------------------------------------------------------------
ModeStep ==
  \/ ScanListed \/ PipelineReply \/ PipelineStops \/ KeysCounted
  \/ KeysTotalled \/ BatchScanned \/ TypeRead \/ TypesStop \/ SizeRead \/ CursorMoved
  \/ Ping \/ PingFails \/ StatHead \/ StatReply \/ StatRetries
  \/ FirstReply \/ Synced \/ TransferFails \/ LineRead \/ SlaveLeaves \/ PhaseFails

LinkNext ==
  \/ LinkAsk \/ LinkStep \/ LinkProbe \/ Interrupt \/ Push
  \/ Modes \/ LoadContent \/ Listen
  \/ ModeStep

\* The thread of the driver keeps running: a call is answered or its link is found dead.
LinkSpec == LinkInit /\ [][LinkNext]_linkAllVars /\ WF_linkAllVars(LinkStep \/ ModeStep)

-----------------------------------------------------------------------------
(* Properties. *)

\* Types of all variables; in particular no handle is freed that does not exist.
TypeOK ==
  /\ store \in Backends
  /\ handle \in BOOLEAN /\ isAuth \in BOOLEAN /\ link \in {"up", "down"}
  /\ live \in Nat /\ abandoned \in Nat
  /\ stored \in [Keys -> Values \cup {None}]
  /\ told \in [Keys -> Values \cup {None, Named}]
  /\ unsure \subseteq Keys
  /\ stale \in 0..MaxStale /\ mismatched \in BOOLEAN
  /\ astray \in {"none", "pipeline", "types", "feed"}
  /\ pipe \in [sent : SUBSET Nat, filed : Nat, skipped : BOOLEAN, misfiled : BOOLEAN]
  /\ feed \in BOOLEAN /\ interrupted \in BOOLEAN /\ crashed \in BOOLEAN
  /\ op.owed \in Nat /\ op.scans \in 0..MaxScans

\* The stream is out of step only if something left it so.
StreamKept == mismatched => astray # "none"

\* An answer of a pipeline is filed under a command that it does not answer only if a
\* command of that pipeline was left out.
FiledRight == pipe.misfiled => pipe.skipped

\* Every answer of the redis server is read by the command it answers and filed under
\* it, whatever mix of single commands, pipelines, modes and broken links came before.
\* Excluded are streams that a pipeline or the types of a batch left at an error with
\* answers unread, or that the server goes on sending lines on after MONITOR, SUBSCRIBE
\* or SYNC; and pipelines in which TYPE and TTL of a key were left out because its name
\* cannot be split: the answers behind it are filed under the commands of other keys.
InStep == StreamKept /\ FiledRight

\* A latency or stat mode that is interrupted ends; only a stat mode that has lost its
\* link keeps asking.
SampleLoopsEnd ==
  /\ (op.name = "latency" /\ interrupted) ~> op.name # "latency"
  /\ (op.name = "stat" /\ interrupted) ~> (op.name # "stat" \/ link = "down")
=============================================================================
