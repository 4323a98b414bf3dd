------------------------------ MODULE Explorer ------------------------------
(***************************************************************************)
(* What the explorer tree shows of a server and what the server stores.    *)
(* Menu entries and console commands are queued for the driver; it runs    *)
(* them against whatever database the connection has selected, and queues  *)
(* signals (CDBConnectionClient callbacks) and responses for the tree.     *)
(*                                                                         *)
(* A database is known by its name.  A local store holds one database and  *)
(* has no SELECT; redis refuses an unknown name, or any name before it is  *)
(* authenticated or loaded, and the driver does not look at that refusal.  *)
(* The connection can be closed and opened again, of which the tree is not *)
(* told.  Values are left out: a key is stored or not, shown or not.  The  *)
(* driver runs one request per step; the interleavings inside a request    *)
(* are the subject of ServerDriver.                                        *)
(***************************************************************************)
EXTENDS Integers, SequencesExt

CONSTANTS
  Servers,        \* the servers considered, one Server(...) record each
  Start,          \* the database of the settings, selected by a connect
  MaxRequests     \* bound: requests issued

\* A server: is it redis or a local store; the databases it has, the names a SELECT
\* may be given and the database a new connection uses until it selects one; its
\* keys; does a local store report the deletion of an absent key as a success; does
\* a flush delete all keys or none ("whole": one transaction or command), key by key
\* ("each"), or some of them and still succeed ("some"); the console commands used.
Server(redis, stores, names, first, keys, delFindsAbsent, flush, commands) ==
  [redis |-> redis, stores |-> stores, names |-> names, first |-> first, keys |-> keys,
   delFindsAbsent |-> delFindsAbsent, flush |-> flush, commands |-> commands]

ASSUME ConstantsAssumption ==
  /\ MaxRequests \in Nat
  /\ \A s \in Servers :
       /\ s.redis \in BOOLEAN /\ s.delFindsAbsent \in BOOLEAN
       /\ s.flush \in {"whole", "each", "some"}
       /\ s.stores \subseteq s.names /\ Start \in s.stores /\ s.first \in s.stores
       /\ s.redis \/ (s.stores = {Start} /\ "select" \notin s.commands)
       /\ s.keys \subseteq Nat /\ IsFiniteSet(s.keys)
       /\ s.commands \subseteq {"set", "push", "del", "rename", "select", "flushdb"}

VARIABLES
  server,     \* the server the tree is of
  requests,   \* requests queued for the driver
  events,     \* signals and responses queued for the tree
  asked,      \* requests issued so far
  stored,     \* keys of each database of the server
  connected,  \* is the connection open
  selected,   \* the database the connection really uses, or used when it was open
  label,      \* the name in current_database_info_
  held,       \* names in IServer::databases_
  listed,     \* names with an item in the tree
  shared,     \* listed names whose item has the very info object in databases_
  defaults,   \* listed names whose item's info says it is the default
  items,      \* key items under each database item, in their order
  loaded,     \* names whose whole content was once shown
  moved,      \* has the database changed other than by an accepted set-default since
  slips       \* what has happened that the tree is not told about

driverVars == <<stored, connected, selected, label>>
treeVars   == <<held, listed, shared, defaults, items, loaded>>
vars == <<server, requests, events, asked, driverVars, treeVars, moved, slips>>

Redis    == server.redis
Stores   == server.stores
Names    == server.names
Keys     == server.keys
Commands == server.commands

Request(kind, db, keys, new) == [kind |-> kind, db |-> db, keys |-> keys, new |-> new]
Event(type, db, keys, new)   == [type |-> type, db |-> db, keys |-> keys, new |-> new]

\* Requests and events that carry no key, or no second key, have 0 there.
NoKey == 0

Kinds == {"connect", "disconnect", "loadDatabases", "loadContent", "clear", "setDefault",
          "set", "push", "del", "rename", "select", "flushdb"}
Types == {"databases", "databasesFailed", "content", "cleared", "default",
          "added", "removed", "renamed"}
Slips == {"rename", "flush", "left", "double", "select", "refused", "load", "short",
          "push", "delete"}

Init ==
  /\ server \in Servers
  /\ requests = <<>> /\ events = <<>> /\ asked = 0
  /\ stored \in [Stores -> SUBSET Keys]
  /\ connected = TRUE /\ selected = Start /\ label = Start /\ moved = FALSE
  /\ held = {} /\ listed = {} /\ shared = {} /\ defaults = {}
  /\ items = [n \in Names |-> <<>>] /\ loaded = {} /\ slips = {}

-----------------------------------------------------------------------------
(* The user. *)

Ask(request) ==
  /\ asked < MaxRequests
  /\ asked' = asked + 1
  /\ requests' = Append(requests, request)
  /\ UNCHANGED <<server, events, driverVars, treeVars, moved, slips>>

\* A key created or edited becomes a SET, or for a container of redis a command that
\* adds to it (LPUSH, SADD, ZADD, HMSET).
Store(n, k) ==
  \/ Ask(Request("set", n, {k}, NoKey))
  \/ Redis /\ Ask(Request("push", n, {k}, NoKey))

\* The menus of a server and of a database item.  Loading the content, creating
\* a key and removing all keys are offered for a default database only.
UseMenu ==
  \/ Ask(Request(IF connected THEN "disconnect" ELSE "connect", Start, {}, NoKey))
  \/ Ask(Request("loadDatabases", Start, {}, NoKey))
  \/ \E n \in defaults : \/ Ask(Request("loadContent", n, {}, NoKey))
                         \/ Ask(Request("clear", n, {}, NoKey))
                         \/ \E k \in Keys : Store(n, k)
  \/ \E n \in listed \ defaults : Ask(Request("setDefault", n, {}, NoKey))

\* The menu of a key item, offered in every database of the tree.
UseItem ==
  \E n \in listed : \E k \in Range(items[n]) :
    \/ Store(n, k)
    \/ Ask(Request("del", n, {k}, NoKey))
    \/ \E new \in Keys \ {k} : Ask(Request("rename", n, {k}, new))

\* A command typed into a console.
UseConsole ==
  \/ \E k \in Keys : "set" \in Commands /\ Ask(Request("set", Start, {k}, NoKey))
  \/ \E k \in Keys : "push" \in Commands /\ Ask(Request("push", Start, {k}, NoKey))
  \/ \E ks \in SUBSET Keys : /\ "del" \in Commands /\ ks # {}
                             /\ Ask(Request("del", Start, ks, NoKey))
  \/ \E k, new \in Keys : "rename" \in Commands /\ Ask(Request("rename", Start, {k}, new))
  \/ \E n \in Names : "select" \in Commands /\ Ask(Request("select", n, {}, NoKey))
  \/ "flushdb" \in Commands /\ Ask(Request("flushdb", Start, {}, NoKey))

-----------------------------------------------------------------------------
(* The driver. *)

\* The request at the head of the queue is of this kind.
Due(kind) == requests # <<>> /\ Head(requests).kind = kind

\* The request at the head of the queue is run and leaves the events es.
Run(kind, es) ==
  /\ Due(kind)
  /\ requests' = Tail(requests)
  /\ events' = events \o es
  /\ UNCHANGED <<server, asked, treeVars>>

\* It is run on an open connection, which stays open.
RunOn(kind, es) == connected /\ Run(kind, es) /\ UNCHANGED connected

TheKey == CHOOSE k \in Head(requests).keys : TRUE

\* Any request can fail without having done anything; only LoadDatabases of redis
\* reports that to the server in a way that matters.
Fail ==
  /\ requests # <<>>
  /\ LET kind == Head(requests).kind
     IN /\ kind = "loadDatabases" => Redis
        /\ Run(kind, IF kind = "loadDatabases"
                     THEN <<Event("databasesFailed", label, {}, NoKey)>> ELSE <<>>)
        /\ slips' = IF kind = "loadDatabases" THEN slips \cup {"load"} ELSE slips
  /\ UNCHANGED <<driverVars, moved>>

\* What a switch of database leaves unsaid: the label is not what is used.
Unsaid == IF label' = selected' THEN {} ELSE {"refused"}

\* Connect of a closed connection.  Redis selects the database of the settings, unless
\* it refuses that, or AUTH before it: the connection stays open and uses the first.
Connect ==
  /\ Run("connect", <<>>)
  /\ connected' = TRUE /\ UNCHANGED stored
  /\ IF connected \/ ~Redis THEN UNCHANGED <<selected, label, moved, slips>>
     ELSE /\ \/ selected' = Start /\ label' = Start
             \/ selected' = server.first /\ label' \in {Start, label}
          /\ moved' = (moved \/ ~(selected = Start /\ selected' = Start /\ label' = Start))
          /\ slips' = slips \cup Unsaid

Disconnect ==
  /\ Run("disconnect", <<>>)
  /\ connected' = FALSE
  /\ UNCHANGED <<stored, selected, label, moved, slips>>

\* The databases found: those counted by CONFIG GET databases, none when its answer is
\* no array or no number, the current one alone when the array is not a pair.  A local
\* store has its one.
Found == IF Redis THEN {Stores, {label}, {}} ELSE {{label}}

\* The infos of the databases (their names stand where other events have keys); the
\* one called label is the current one, which is a default.  A local store answers
\* whether or not it is connected.
LoadDatabases ==
  \E dbs \in Found :
    /\ Run("loadDatabases", <<Event("databases", label, dbs, NoKey)>>)
    /\ connected \/ ~Redis
    /\ slips' = IF dbs \in {Stores, {}} THEN slips ELSE slips \cup {"short"}
    /\ UNCHANGED <<driverVars, moved>>

\* KEYS or SCAN on the selected database, for the item of Head(requests).db.  The
\* count the user gave may cut the answer short; new = 1 says that it did not.
LoadContent ==
  \E found \in SUBSET stored[selected] :
    /\ RunOn("loadContent",
             <<Event("content", Head(requests).db, found,
                     IF found = stored[selected] THEN 1 ELSE NoKey)>>)
    /\ UNCHANGED <<stored, selected, label, moved, slips>>

\* Flushdb on the selected database leaves some keys: it failed half way, or it is one
\* that succeeds all the same.
Leaves(left, failed) ==
  /\ left # {} => server.flush \in (IF failed THEN {"each", "some"} ELSE {"some"})
  /\ failed => left # {}
  /\ stored' = [stored EXCEPT ![selected] = left]
  /\ UNCHANGED <<selected, label, moved>>

\* Success takes all items of the database off; an error leaves the tree alone.
ClearDatabase ==
  \E left \in SUBSET stored[selected], failed \in BOOLEAN :
    /\ RunOn("clear", IF failed THEN <<>>
                      ELSE <<Event("cleared", Head(requests).db, {}, NoKey)>>)
    /\ Leaves(left, failed)
    /\ slips' = slips \cup (IF left = {} THEN {} ELSE IF failed THEN {"flush"} ELSE {"left"})

\* The console's FLUSHDB does the same and tells nobody.
Flushdb ==
  \E left \in SUBSET stored[selected], failed \in BOOLEAN :
    /\ RunOn("flushdb", <<>>)
    /\ Leaves(left, failed)
    /\ slips' = slips \cup {"flush"}

\* Select: the name becomes the label even when redis refuses it, because it is
\* unknown, or because the client is not authenticated or the data not loaded.
SelectTo(n) ==
  /\ label' = n
  /\ selected' \in (Stores \cap {n}) \cup (IF Redis THEN {selected} ELSE {})
  /\ UNCHANGED stored

\* Mutant: the answer is made and no database selected.
AnswersOnly ==
  /\ RunOn("setDefault", <<Event("default", Head(requests).db, {}, NoKey)>>)
  /\ moved' = FALSE
  /\ UNCHANGED <<stored, selected, label, slips>>

SetDefaultDatabase ==
  /\ RunOn("setDefault", <<Event("default", Head(requests).db, {}, NoKey)>>)
  /\ SelectTo(Head(requests).db)
  /\ moved' = (Unsaid # {})
  /\ slips' = slips \cup Unsaid

Select ==
  /\ RunOn("select", <<>>)
  /\ SelectTo(Head(requests).db)
  /\ moved' = TRUE
  /\ slips' = slips \cup {"select"} \cup Unsaid

Set ==
  /\ RunOn("set", <<Event("added", label, Head(requests).keys, NoKey)>>)
  /\ stored' = [stored EXCEPT ![selected] = @ \cup Head(requests).keys]
  /\ UNCHANGED <<selected, label, moved, slips>>

\* A command that adds to a container creates it if need be and tells nobody.
Push ==
  /\ RunOn("push", <<>>)
  /\ stored' = [stored EXCEPT ![selected] = @ \cup Head(requests).keys]
  /\ slips' = IF Head(requests).keys \subseteq stored[selected] THEN slips ELSE slips \cup {"push"}
  /\ UNCHANGED <<selected, label, moved>>

\* Mutant: the keys that were deleted are not collected for the signals.
ReportedNone(tried, present) == {}

\* The keys a Delete reports, among those it tried and those that were present.
Reported(tried, present) ==
  IF server.delFindsAbsent /\ ~Redis THEN tried ELSE tried \cap present

\* The signals for deleted keys, one each; the order among them is left open.
Removals(keys) ==
  [i \in 1 .. Cardinality(keys) |-> Event("removed", label, {SetToSeq(keys)[i]}, NoKey)]

\* Delete: keys a local store cannot delete are skipped; on an I/O error the redis
\* driver returns without reporting the keys it has already deleted.
Delete ==
  /\ Due("del")
  /\ \E tried \in SUBSET Head(requests).keys :
       LET gone == Reported(tried, stored[selected])
           lost == Redis /\ tried # Head(requests).keys
       IN /\ RunOn("del", IF lost THEN <<>> ELSE Removals(gone))
          /\ stored' = [stored EXCEPT ![selected] = @ \ tried]
          /\ slips' = IF lost /\ gone # {} THEN slips \cup {"delete"} ELSE slips
  /\ UNCHANGED <<selected, label, moved>>

\* Rename.  Redis has a command for it; a local store gets the value, deletes the
\* key and sets the new one, and the last step can fail after the second is done.
Rename ==
  /\ Due("rename")
  /\ TheKey \in stored[selected]
  /\ \E finished \in BOOLEAN :
       /\ Redis => finished
       /\ RunOn("rename", IF finished
                          THEN <<Event("renamed", label, {TheKey}, Head(requests).new)>> ELSE <<>>)
       /\ stored' = [stored EXCEPT ![selected] =
                       (@ \ {TheKey}) \cup (IF finished THEN {Head(requests).new} ELSE {})]
       /\ slips' = IF finished THEN slips ELSE slips \cup {"rename"}
  /\ UNCHANGED <<selected, label, moved>>

-----------------------------------------------------------------------------
(* The tree. *)

\* The event at the head of the queue is handled.
Handle(type) ==
  /\ events # <<>>
  /\ Head(events).type = type
  /\ events' = Tail(events)
  /\ UNCHANGED <<server, requests, asked, driverVars, moved>>

\* Mutant: the current database is marked whether or not it came with the others.
MarkedAlways(dbs, current) == {current}

\* The databases new to the tree that are marked as the default: the current one.
Marked(dbs, current) == (dbs \ listed) \cap {current}

\* Databases join databases_ and the tree unless one of their name is there.
FinishLoadDatabases ==
  LET e == Head(events) IN
  /\ Handle("databases")
  /\ held' = held \cup e.keys
  /\ listed' = listed \cup e.keys
  /\ shared' = shared \cup ((e.keys \ held) \ listed)
  /\ defaults' = defaults \cup Marked(e.keys, e.db)
  /\ UNCHANGED <<items, loaded, slips>>

\* A failed LoadDatabases empties databases_ and leaves the tree as it is.
FailLoadDatabases ==
  /\ Handle("databasesFailed")
  /\ held' = {} /\ shared' = {}
  /\ UNCHANGED <<listed, defaults, items, loaded, slips>>

\* Mutant: the infos of the other databases keep their flag.
UnsetNothing == {}

\* The items whose info SetDefaultDatabase resets: those of databases_.
Unset == shared

\* Every info in databases_ loses its flag, then the chosen one gets it.
FinishSetDefault ==
  /\ Handle("default")
  /\ defaults' = (defaults \ Unset) \cup {Head(events).db}
  /\ UNCHANGED <<held, listed, shared, items, loaded, slips>>

\* Keys are added at the end unless an item has their name; the order among the new
\* items, which is that of the answer, is left open.
WithKeys(shown, keys) == shown \o SetToSeq(keys \ Range(shown))

FinishLoadContent ==
  LET e == Head(events) IN
  /\ Handle("content")
  /\ items' = [items EXCEPT ![e.db] = WithKeys(@, e.keys)]
  /\ loaded' = IF e.new = 1 THEN loaded \cup {e.db} ELSE loaded
  /\ UNCHANGED <<held, listed, shared, defaults, slips>>

FinishClear ==
  /\ Handle("cleared")
  /\ items' = [items EXCEPT ![Head(events).db] = <<>>]
  /\ UNCHANGED <<held, listed, shared, defaults, loaded, slips>>

\* addKey, removeKey and updateKey of the model look the database up by its name
\* and do nothing when the tree has no such item.
AddKey ==
  LET e == Head(events) IN
  /\ Handle("added")
  /\ items' = IF e.db \in listed THEN [items EXCEPT ![e.db] = WithKeys(@, e.keys)] ELSE items
  /\ UNCHANGED <<held, listed, shared, defaults, loaded, slips>>

\* The first item of that name.
Find(shown, keys) == CHOOSE i \in DOMAIN shown :
                       /\ shown[i] \in keys
                       /\ \A j \in 1 .. i - 1 : shown[j] \notin keys

RemoveKey ==
  LET e == Head(events) IN
  /\ Handle("removed")
  /\ items' = IF e.db \in listed /\ Range(items[e.db]) \cap e.keys # {}
              THEN [items EXCEPT ![e.db] = RemoveAt(@, Find(@, e.keys))] ELSE items
  /\ UNCHANGED <<held, listed, shared, defaults, loaded, slips>>

\* Mutant: a renamed item is taken out of the tree.
RenamedAway(shown, keys, new) == RemoveAt(shown, Find(shown, keys))

\* The item keeps its place and gets the new name, even if another item has it.
Renamed(shown, keys, new) == [shown EXCEPT ![Find(shown, keys)] = new]

UpdateKey ==
  LET e == Head(events) IN
  /\ Handle("renamed")
  /\ IF e.db \in listed /\ Range(items[e.db]) \cap e.keys # {}
     THEN /\ items' = [items EXCEPT ![e.db] = Renamed(@, e.keys, e.new)]
          /\ slips' = IF e.new \in Range(items[e.db]) THEN slips \cup {"double"} ELSE slips
     ELSE UNCHANGED <<items, slips>>
  /\ UNCHANGED <<held, listed, shared, defaults, loaded>>

-----------------------------------------------------------------------------
User   == UseMenu \/ UseItem \/ UseConsole
Driver == \/ Fail \/ Connect \/ Disconnect \/ LoadDatabases \/ LoadContent \/ ClearDatabase
          \/ Flushdb \/ SetDefaultDatabase \/ Select \/ Set \/ Push \/ Delete \/ Rename
Tree   == \/ FinishLoadDatabases \/ FailLoadDatabases \/ FinishSetDefault
          \/ FinishLoadContent \/ FinishClear \/ AddKey \/ RemoveKey \/ UpdateKey

Next == User \/ Driver \/ Tree

Spec == Init /\ [][Next]_vars

-----------------------------------------------------------------------------
(* Properties. *)

\* Types of all variables.
TypeOK ==
  /\ server \in Servers
  /\ requests \in Seq([kind : Kinds, db : Names, keys : SUBSET Keys, new : Nat])
  /\ events \in Seq([type : Types, db : Names, keys : SUBSET (Keys \cup Names), new : Nat])
  /\ asked \in 0 .. MaxRequests
  /\ stored \in [Stores -> SUBSET Keys]
  /\ connected \in BOOLEAN /\ selected \in Stores /\ label \in Names
  /\ held \subseteq Names /\ listed \subseteq Names
  /\ shared \subseteq listed /\ defaults \subseteq listed
  /\ items \in [Names -> Seq(Keys)] /\ loaded \subseteq Names
  /\ moved \in BOOLEAN /\ slips \subseteq Slips

Drained == requests = <<>> /\ events = <<>>

\* On a server with one database, once everything queued has been handled, no item
\* shows a key that is not stored and none is shown twice, unless a rename, a flush
\* or a deletion failed half way, a console flushed the database, a key was renamed
\* to one that is shown as well, or redis refused a name.  A flush that leaves keys, a
\* container nobody announced and a reconnect do no harm.
ShownStored ==
  /\ Drained /\ Stores = {Start}
  /\ slips \cap {"rename", "flush", "delete", "double", "refused"} = {}
  => \A n \in listed : \A i, j \in DOMAIN items[n] :
       items[n][i] \in stored[selected] /\ (i # j => items[n][i] # items[n][j])

\* On a server with one database, once everything queued has been handled, a database
\* whose content was loaded shows every stored key, even after failures, reconnects,
\* deletions the tree was not told of and renames to shown keys.  Excluded are a name
\* that redis refused, a container of redis created since (LPUSH, SADD, ZADD and HMSET
\* signal no key, whether typed or made by the create-key dialog), and a flush that
\* left keys and succeeded (upscaledb, ssdb).
StoredShown ==
  Drained /\ Stores = {Start} /\ slips \cap {"refused", "push", "left"} = {} =>
    \A n \in loaded : stored[selected] \subseteq Range(items[n])

\* Of the databases of a server in the tree, at most one is marked as the default,
\* whatever is selected, refused, disconnected and reconnected, if no LoadDatabases
\* failed.  A LoadDatabases that lists the current database alone does no harm by
\* itself, nor does a console's SELECT; after both, two databases may be marked.
OneDefault ==
  "load" \notin slips /\ ~({"short", "select"} \subseteq slips) => \A m, n \in defaults : m = n

\* Once everything queued has been handled, the database marked as the default is
\* the one the connection uses, if no LoadDatabases failed and since the last
\* set-default that redis accepted (or the first connect) neither did a console
\* select a database nor did the connection come back in another one: a reconnect
\* selects the database of the settings and the tree keeps its mark.
DefaultSelected == Drained /\ "load" \notin slips /\ ~moved => defaults \subseteq {selected}
=============================================================================
