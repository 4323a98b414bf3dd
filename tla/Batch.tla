------------------------------- MODULE Batch -------------------------------
(***************************************************************************)
(* One batch of console lines, from IDriver::HandleExecuteEvent in the     *)
(* driver's thread to the tree the output widget shows in the thread of    *)
(* the interface.  The driver builds a tree of FastoObjects: a root, under *)
(* it one object per executed command, under each command its answers.  A  *)
(* locker observes the tree and posts what the widget is to show: every    *)
(* answer (RootLocker), or, for a batch that is repeated without history,  *)
(* only the first answer of each command, updated in place                 *)
(* (FirstChildUpdateRootLocker).  All posts go to the server object, whose *)
(* event queue keeps their order.                                          *)
(***************************************************************************)
EXTENDS Commands

CONSTANTS
  Jobs,   \* the batches to run: [store, lines, req, repeat, history, silence]
  Sizes   \* the number of values of a size_t, the type of repeat

(* No translator request: the lines were typed. *)
Typed == [op |-> "typed", type |-> "", value |-> <<>>, forever |-> FALSE]

(* The repeat of a watch started in the explorer: the largest size_t but one. *)
WatchRepeat == Sizes - 2

(* A line is words; nothing repeats a batch more often than the explorer's watch. *)
ASSUME JobsAssumption ==
  /\ Sizes \in Nat /\ Sizes >= 2
  /\ \A j \in Jobs :
       /\ j.store \in AllStores
       /\ j.lines \in Seq(Seq(STRING))
       /\ j.repeat \in 0 .. WatchRepeat
       /\ j.history \in BOOLEAN /\ j.silence \in BOOLEAN

VARIABLES
  job,      \* the ExecuteInfoRequest being handled
  pc,       \* start, next (command), answers (being added), done
  round,    \* r of the outer loop
  at,       \* i of the inner loop, from 1
  ex,       \* what Execute made of the last line
  answers,  \* children the handler still adds: value, array, inner
  fails,    \* the handler will return an error
  res,      \* the error of the response: none, error, interrupted
  objs,     \* FastoObjects below the root, in the order they are created
  watched,  \* watched_cmds_ of the FirstChildUpdateRootLocker
  queue,    \* posted events not yet delivered
  rooted,   \* the output widget has got the root of the batch
  view,     \* the items of its model
  log       \* history variable: the answers given, with the line that asked for them

driver == <<job, pc, round, at, ex, answers, fails, res, objs, watched, log>>
vars == <<job, pc, round, at, ex, answers, fails, res, objs, watched, queue, rooted, view, log>>

Root == 0
None == [what |-> "none"]

ItemKey(line) == IF Len(line) > 1 THEN line[2] ELSE ""

Init ==
  /\ job \in Jobs
  /\ pc = "start" /\ round = 0 /\ at = 1
  /\ ex = None /\ answers = <<>> /\ fails = FALSE /\ res = "none"
  /\ objs = <<>> /\ watched = <<>> /\ queue = <<>> /\ log = <<>>
  /\ rooted = FALSE /\ view = <<>>

-----------------------------------------------------------------------------
(* The observers *)

Added(o) == [ev |-> "ChildAdded", obj |-> o]
Updated(o, v) == [ev |-> "ItemUpdated", obj |-> o, val |-> v]

(* FirstChildUpdateRootLocker::FindWatchedCmd: the first watched command with the *)
(* same text.                                                                     *)
WatchesFirst(os, w, text) == w[1]   \* mutant
FindWatchedCmd(os, w, text) ==
  LET same == {n \in DOMAIN w : os[w[n]].line = text}
  IN w[CHOOSE n \in same : \A m \in same : n <= m]

(* FindCmdChildNode: the first child of the watched command, the root if it has none. *)
FirstAnswer(os, c) ==
  LET kids == {o \in DOMAIN os : os[o].parent = c}
  IN IF kids = {} THEN Root ELSE CHOOSE o \in kids : \A p \in kids : o <= p

(* RootLocker::ChildrenAdded and RootLocker::Updated post; the watching locker     *)
(* filters.  The result: the objects, the watched commands and what is posted for  *)
(* the child o that was just added to os.  The watching locker drops a child whose *)
(* parent is no command (an inner array), and one without a first child to update. *)
RootChildrenAdded(os, w, o) == [objs |-> os, watched |-> w, post |-> <<Added(o)>>]

WatchChildrenAdded(os, w, o) ==
  IF os[o].kind = "command" THEN
    IF Len(w) = Len(job.lines)
    THEN [objs |-> os, watched |-> w, post |-> <<>>]
    ELSE [objs |-> os, watched |-> Append(w, o), post |-> <<Added(o)>>]
  ELSE IF os[os[o].parent].kind # "command" THEN [objs |-> os, watched |-> w, post |-> <<>>]
  ELSE LET first == FirstAnswer(os, FindWatchedCmd(os, w, os[os[o].parent].line))
       IN IF first = Root THEN [objs |-> os, watched |-> w, post |-> <<>>]
          ELSE IF first = o
          THEN [objs |-> os, watched |-> w, post |-> <<Added(o)>>]
          ELSE [objs |-> [os EXCEPT ![first].val = os[o].val], watched |-> w,
                post |-> <<Updated(first, os[o].val)>>]

(* FastoObject::AddChildren: only objects below an observed root have an observer. *)
AddChildren(child) ==
  LET os == Append(objs, child)
      seen == IF job.silence THEN [objs |-> os, watched |-> watched, post |-> <<>>]
              ELSE IF job.history THEN RootChildrenAdded(os, watched, Len(os))
              ELSE WatchChildrenAdded(os, watched, Len(os))
  IN /\ objs' = seen.objs
     /\ watched' = seen.watched
     /\ queue' = queue \o seen.post

-----------------------------------------------------------------------------
(* The driver: IDriver::HandleExecuteEvent *)

(* An empty text, or one without a line, is refused; otherwise the locker is made. *)
Start ==
  /\ pc = "start"
  /\ IF job.lines = <<>>
     THEN /\ pc' = "done" /\ res' = "error" /\ UNCHANGED queue
     ELSE /\ pc' = "next" /\ UNCHANGED res
          /\ queue' = IF job.silence THEN queue ELSE Append(queue, [ev |-> "RootCreated"])
  /\ UNCHANGED <<job, round, at, ex, answers, fails, objs, watched, rooted, view, log>>

(* cliOutputHelp: one text without a topic; for the words of a command its help and its *)
(* group; nothing for other words.                                                      *)
HelpTexts(topic) ==
  IF topic = <<>> THEN <<"value">>
  ELSE IF \E j \in DOMAIN RedisTable : RedisTable[j].name = topic THEN <<"value", "value">>
  ELSE <<>>

(* What a handler may add, and whether it fails (the server's answer is external). *)
Outcomes(e, line) ==
  IF e.what # "call" THEN {[add |-> <<>>, err |-> TRUE]}
  ELSE LET ok(kids) == [add |-> kids, err |-> FALSE]
           err(kids) == [add |-> kids, err |-> TRUE]
       IN CASE e.h.out = "none" -> {ok(<<>>), err(<<>>)}
            [] e.h.out = "value" -> {ok(<<"value">>), err(<<>>)}
            [] e.h.out = "array" -> {ok(<<"array">>), err(<<>>)}
            [] e.h.out = "stats" -> IF Tail(line) = <<"items">> THEN {ok(<<"array">>), err(<<>>)}
                                    ELSE {ok(<<"value">>), err(<<>>)}
            [] e.h.out = "ttl" -> {ok(<<"value">>), err(<<"value">>)}
            [] e.h.out = "help" -> {ok(HelpTexts(Tail(line)))}
            [] e.h.out = "reply" ->
                 {ok(<<"value">>), ok(<<"array">>), ok(<<"array", "inner">>), err(<<>>)}
            [] e.h.out = "stream" -> {err(<<>>), err(<<"value">>), err(<<"value", "value">>)}
            [] e.h.out = "unsupported" -> {err(<<>>)}

(* r < repeat + 1 on a size_t. *)
RoundsLess == job.repeat % Sizes   \* mutant
Rounds == (job.repeat + 1) % Sizes

(* One command: IsInterrupted is FALSE, the command object is created (under the    *)
(* root, unless silent), and Execute runs the handler.  CDBConnection::Set tells    *)
(* about the key it added before the handler adds its answer.                       *)
Command ==
  /\ pc = "next" /\ round < Rounds
  /\ LET line == job.lines[at]
         e == Execute(job.store, line)
     IN \E out \in Outcomes(e, line) :
          /\ ex' = e
          /\ answers' = out.add
          /\ fails' = out.err
          /\ AddChildren([parent |-> Root, kind |-> "command", line |-> line, val |-> <<>>])
          /\ pc' = IF e.what = "call" /\ e.h.call = "Set" /\ ~ out.err THEN "added" ELSE "answers"
  /\ UNCHANGED <<job, round, at, res, rooted, view, log>>

(* IDriver::OnKeyAdded: the value of the key is a new value. *)
KeyAdded ==
  /\ pc = "added"
  /\ pc' = "answers"
  /\ LET key == Passed(job.lines[at], ex)[1]
         set == [line |-> job.lines[at], set |-> TRUE, key |-> key, val |-> <<Len(log) + 1>>]
     IN /\ queue' = Append(queue, [ev |-> "KeyAdded", key |-> key, val |-> set.val])
        /\ log' = Append(log, set)
  /\ UNCHANGED <<job, round, at, ex, answers, fails, res, objs, watched, rooted, view>>

(* The handler adds its next child: under the command, or an inner array under the *)
(* array before it.                                                                *)
Answer ==
  /\ pc = "answers" /\ answers # <<>>
  /\ LET cmds == {o \in DOMAIN objs : objs[o].kind = "command"}
         cmd == CHOOSE o \in cmds : \A p \in cmds : p <= o
         inner == Head(answers) = "inner"
         val == <<Len(log) + 1>>
     IN /\ AddChildren([parent |-> IF inner THEN Len(objs) ELSE cmd, kind |-> Head(answers),
                        line |-> job.lines[at], val |-> val])
        /\ log' = IF inner THEN log
                  ELSE Append(log, [line |-> job.lines[at], set |-> FALSE, key |-> "", val |-> val])
  /\ answers' = Tail(answers)
  /\ UNCHANGED <<job, pc, round, at, ex, fails, res, rooted, view>>

(* The handler returned: an error ends the batch, otherwise the loops go on. *)
Returned ==
  /\ pc = "answers" /\ answers = <<>>
  /\ IF fails
     THEN pc' = "reply" /\ res' = "error" /\ UNCHANGED <<round, at>>
     ELSE /\ pc' = "next" /\ UNCHANGED res
          /\ IF at < Len(job.lines) THEN at' = at + 1 /\ UNCHANGED round
             ELSE at' = 1 /\ round' = round + 1
  /\ UNCHANGED <<job, ex, answers, fails, objs, watched, queue, rooted, view, log>>

(* IsInterrupted, asked before every command. *)
Interrupted ==
  /\ pc = "next" /\ round < Rounds
  /\ res' = "interrupted" /\ pc' = "reply"
  /\ UNCHANGED <<job, round, at, ex, answers, fails, objs, watched, queue, rooted, view, log>>

(* The response, and the locker's destructor. *)
Reply ==
  /\ pc = "reply" \/ (pc = "next" /\ round >= Rounds)
  /\ pc' = "done"
  /\ queue' = IF job.silence THEN queue ELSE Append(queue, [ev |-> "RootCompleated"])
  /\ UNCHANGED <<job, round, at, ex, answers, fails, res, objs, watched, rooted, view, log>>

-----------------------------------------------------------------------------
(* The interface: OutputWidget *)

Item(o, under) ==
  [obj |-> o, under |-> under, key |-> IF under = Root THEN ItemKey(objs[o].line) ELSE "",
   val |-> objs[o].val]

(* OutputWidget::addChild: an answer becomes an item of the root, keyed by the first *)
(* argument of its command; an inner array an item of its array, if that is shown.   *)
AddChild(o) ==
  LET under == IF objs[objs[o].parent].kind = "command" THEN Root ELSE objs[o].parent
      found == rooted /\ (under = Root \/ \E n \in DOMAIN view : view[n].obj = under)
  IN view' = IF objs[o].kind = "command" \/ ~ found THEN view ELSE Append(view, Item(o, under))

(* OutputWidget::updateItem *)
UpdateItem(o, v) ==
  view' = [n \in DOMAIN view |-> IF view[n].obj = o THEN [view[n] EXCEPT !.val = v]
                                  ELSE view[n]]

(* OutputWidget::addKey, FastoCommonModel::changeValue: the first item of the root *)
(* with that key shows the value of the key.                                        *)
ChangeFirst(key, v) == view' = IF view = <<>> THEN view ELSE [view EXCEPT ![1].val = v]   \* mutant
ChangeValue(key, v) ==
  LET same == {n \in DOMAIN view : view[n].under = Root /\ view[n].key = key}
      first == CHOOSE n \in same : \A m \in same : n <= m
  IN view' = IF same = {} THEN view ELSE [view EXCEPT ![first].val = v]

Deliver ==
  /\ queue # <<>>
  /\ queue' = Tail(queue)
  /\ LET e == Head(queue)
     IN CASE e.ev = "RootCreated" -> view' = <<>>
          [] e.ev = "ChildAdded" -> AddChild(e.obj)
          [] e.ev = "ItemUpdated" -> UpdateItem(e.obj, e.val)
          [] e.ev = "KeyAdded" -> ChangeValue(e.key, e.val)
          [] e.ev = "RootCompleated" -> UNCHANGED view
  /\ rooted' = (rooted \/ Head(queue).ev = "RootCreated")
  /\ UNCHANGED driver

(* The batch is over and everything is shown. *)
Settled == pc = "done" /\ queue = <<>>
Idle == Settled /\ UNCHANGED vars

Next ==
  \/ Start \/ Command \/ KeyAdded \/ Answer \/ Returned \/ Interrupted \/ Reply
  \/ Deliver \/ Idle

Spec == Init /\ [][Next]_vars

-----------------------------------------------------------------------------
(* Properties *)

Running == pc \in {"added", "answers"}
Line == job.lines[at]
Names == {Table[job.store][j].name : j \in DOMAIN Table[job.store]}
Begins(name) == Len(name) <= Len(Line) /\ SubSeq(Line, 1, Len(name)) = name

(* No CHECK of IsCommand fails, and the linear search of CommandHandler::Execute      *)
(* picks the longest name the line begins with: a subcommand is never taken for the   *)
(* command it begins with, nor for a sibling.                                         *)
NotShadowed ==
  Running =>
    /\ ex.what # "abort"
    /\ ex.what = "unknown" <=> \A name \in Names : ~ Begins(name)
    /\ ex.what \in {"call", "arguments"} =>
         \A name \in Names : Begins(name) => Len(name) <= Len(ex.cmd.name)

(* A handler reads only words of the line: the counts in the table, checked by       *)
(* Execute, cover every argv[i] the function uses without looking at argc.           *)
ReadsPassed ==
  Running /\ ex.what = "call" =>
    \/ job.store = "ssdb" /\ ex.cmd.func \in Misread
    \/ LET pos == Positions(ex.h.argv, ex.argc)
       IN \A n \in DOMAIN pos : Len(ex.cmd.name) + 1 + pos[n] \in DOMAIN Line

(* A redis command the connection does not know itself goes to the server as typed: *)
(* argv - 1 and argv - 2 of the two forwarding handlers are the words of the name,   *)
(* one or two as the table says.                                                     *)
WholeLineSent ==
  Running /\ ex.what = "call" =>
    (ex.h.call \in {"CommonExec", "Monitor", "Subscribe"} => Passed(Line, ex) = Line)

(* Any number of arguments that the params string of a command documents is accepted, *)
(* up to the 255 of "[key ...]": the sum of the two counts does not wrap.             *)
UsageAccepted ==
  Running /\ ex.what = "arguments" =>
    \/ <<job.store, ex.cmd.name[1]>> \in Narrower
    \/ Len(Line) - Len(ex.cmd.name) \notin ex.cmd.documented

(* The method a translated request is for. *)
MeantCall(req) ==
  CASE req.op = "create" -> IF req.type = "string" THEN "Set" ELSE "CommonExec"
    [] req.op = "load" -> CASE req.type = "array" -> "Lrange"
                            [] req.type = "set" -> "Smembers"
                            [] req.type = "zset" -> "Zrange"
                            [] req.type = "hash" -> "Hgetall"
                            [] OTHER -> "Get"
    [] req.op = "delete" -> "Delete"
    [] req.op = "rename" -> "Rename"
    [] req.op = "ttl" -> "SetTTL"

(* The line written for a request reaches that method, with the key and the value. *)
DoneAsAsked ==
  Running /\ job.req # Typed =>
    /\ ex.what = "call"
    /\ ex.h.call = MeantCall(job.req)
    /\ ex.h.call # "CommonExec" =>
         LET args == Passed(Line, ex)
         IN /\ args[1] = "key"
            /\ job.req.op = "create" => args = <<"key">> \o job.req.value
            /\ job.req.op = "rename" => args = <<"key", "new">>

(* Translators and tables are written apart.  A line the translator writes for a key  *)
(* (create, load, delete, rename, ttl) is one the store's table accepts and its       *)
(* handler passes on whole.  Not so for the containers of ssdb, whose translator uses *)
(* the command names of redis, and for the value memcached is to store.               *)
TranslatedRuns ==
  \/ job.store = "memcached" /\ job.req # Typed /\ job.req.op = "create"
  \/ job.store = "ssdb" /\ job.req # Typed /\ job.req.type # "string"
  \/ DoneAsAsked

(* A batch that ends without an error has run each of its lines repeat + 1 times,    *)
(* also with the largest repeat the explorer's watch asks for.                       *)
EachRuns ==
  pc = "done" /\ res = "none" /\ ~ job.silence =>
    \A n \in DOMAIN job.lines :
      Cardinality({o \in DOMAIN objs : objs[o].kind = "command" /\ objs[o].line = job.lines[n]})
        = (job.repeat + 1) * Cardinality({m \in DOMAIN job.lines : job.lines[m] = job.lines[n]})

(* The entries of the log that are answers, the items of the root, and the place of n  *)
(* in a set of numbers: 1 for the first.                                               *)
Answers == {n \in DOMAIN log : ~ log[n].set}
TopItems == {n \in DOMAIN view : view[n].under = Root}
Place(n, S) == Cardinality({m \in S : m <= n})

(* An item shows a value: that answer, or what a SET of the batch stored in its key. *)
Shows(it, l) ==
  \/ it.val = l.val
  \/ \E n \in DOMAIN log : log[n].set /\ log[n].key = it.key /\ log[n].val = it.val

(* With history, the widget ends up with one item per answer, in the order the        *)
(* commands were answered, however the two threads interleave; an answer is replaced  *)
(* only by the value of its own key.                                                  *)
AllShown ==
  Settled /\ rooted /\ job.history =>
    /\ Cardinality(TopItems) = Cardinality(Answers)
    /\ \A n \in TopItems, m \in Answers :
         Place(n, TopItems) = Place(m, Answers) =>
           view[n].key = ItemKey(log[m].line) /\ Shows(view[n], log[m])

(* Without history there is one item per distinct line that was answered, and it      *)
(* shows that line's last answer, not that of an earlier round nor of another line.   *)
LatestShown ==
  Settled /\ rooted /\ ~ job.history =>
    LET texts == {log[n].line : n \in Answers}
        Last(t) == CHOOSE n \in Answers :
                     log[n].line = t /\ \A m \in Answers : log[m].line = t => m <= n
    IN /\ Cardinality(TopItems) = Cardinality(texts)
       /\ \A t \in texts : \E n \in TopItems :
            objs[view[n].obj].line = t /\ Shows(view[n], log[Last(t)])
=============================================================================
