------------------------------ MODULE Settings ------------------------------
(***************************************************************************)
(* The settings of the program and the servers it has open.  The user      *)
(* edits the lists of connections, clusters and sentinels in a modal       *)
(* dialog, opens and closes them, exports, imports and loads settings      *)
(* files, leaves the program and starts it again; it may also be killed.   *)
(* Settings are written when the program ends and at no other time.        *)
(***************************************************************************)
EXTENDS ConnectionText, FiniteSets

CONSTANTS
  Connections,  \* connections a dialog may be filled in with
  Clusters,     \* clusters
  Sentinels,    \* sentinels
  MaxEdits,     \* bound: edits of the lists
  MaxOpens,     \* bound: servers, clusters and sentinels opened
  MaxFiles      \* bound: files exported, imported and loaded, and starts

VARIABLES
  running,    \* is the program running
  memory,     \* SettingsManager: the three lists and recent_connections_
  menu,       \* the paths in the menu of recent connections
  disk,       \* the settings file
  export,     \* the exported file
  saved,      \* what the settings file was written from
  exported,   \* what the exported file was written from
  origin,     \* <<what the settings just read were written from>>, or <<>>
  held,       \* the servers in ServersManager::servers_
  items,      \* top level items of the explorer tree
  erased,     \* an absent server has been erased from servers_
  edits, opens, files

settingsVars == <<memory, menu, disk, export, saved, exported, origin>>
serverVars   == <<held, items, erased>>
vars == <<running, settingsVars, serverVars, edits, opens, files>>

Lists == {"connections", "clusters", "sentinels"}

NoSettings == [connections |-> <<>>, clusters |-> <<>>, sentinels |-> <<>>, recents |-> <<>>]

max_recent_connections == 5

RecentActions(recents) == SubSeq(recents, 1, Min({max_recent_connections, Len(recents)}))

Init ==
  /\ running = FALSE
  /\ memory = NoSettings /\ menu = <<>>
  /\ disk = NoSettings /\ export = NoSettings
  /\ saved = NoSettings /\ exported = NoSettings /\ origin = <<>>
  /\ held = {} /\ items = {} /\ erased = FALSE
  /\ edits = 0 /\ opens = 0 /\ files = 0

-----------------------------------------------------------------------------
(* The settings file. *)

\* Save: the texts of all settings.
Texts(m) ==
  [connections |-> [i \in DOMAIN m.connections |-> ConnectionToString(m.connections[i])],
   clusters    |-> [i \in DOMAIN m.clusters |-> ClusterToString(m.clusters[i])],
   sentinels   |-> [i \in DOMAIN m.sentinels |-> SentinelToString(m.sentinels[i])],
   recents     |-> m.recents]

\* Mutant: what is in memory is kept.
ReloadMerged(m, file, lenient) ==
  [connections |-> m.connections
                   \o [i \in DOMAIN file.connections |-> CreateFromString(file.connections[i])],
   clusters    |-> [i \in DOMAIN file.clusters |-> ClusterFromString(file.clusters[i])],
   sentinels   |-> [i \in DOMAIN file.sentinels |-> SentinelFromString(file.sentinels[i], lenient)],
   recents     |-> file.recents]

\* ReloadFromPath without merging empties the lists first, except the sentinels.
ReloadFromPath(m, file, lenient) ==
  [connections |-> [i \in DOMAIN file.connections |-> CreateFromString(file.connections[i])],
   clusters    |-> [i \in DOMAIN file.clusters |-> ClusterFromString(file.clusters[i])],
   sentinels   |-> m.sentinels
                   \o [i \in DOMAIN file.sentinels |-> SentinelFromString(file.sentinels[i], lenient)],
   recents     |-> file.recents]

Start ==
  /\ ~running /\ files < MaxFiles
  /\ running' = TRUE
  /\ \E lenient \in BOOLEAN : memory' = ReloadFromPath(NoSettings, disk, lenient)
  /\ menu' = RecentActions(memory'.recents)
  /\ origin' = <<saved>>
  /\ files' = files + 1
  /\ UNCHANGED <<disk, export, saved, exported, serverVars, edits, opens>>

\* The main window goes and with it the servers, then the settings are saved.
Exit ==
  /\ running
  /\ running' = FALSE
  /\ disk' = Texts(memory) /\ saved' = memory
  /\ held' = {} /\ items' = {} /\ erased' = FALSE
  /\ memory' = NoSettings /\ menu' = <<>> /\ origin' = <<>>
  /\ UNCHANGED <<export, exported, edits, opens, files>>

\* The program is killed: the file stays what it was.
Kill ==
  /\ running
  /\ running' = FALSE
  /\ held' = {} /\ items' = {} /\ erased' = FALSE
  /\ memory' = NoSettings /\ menu' = <<>> /\ origin' = <<>>
  /\ UNCHANGED <<disk, export, saved, exported, edits, opens, files>>

\* The exported file is a copy of the settings file, not of what is in memory.  A
\* settings file that was never written counts as an empty one: the program then
\* refuses to export and removes the file it was to write.
ExportConnection ==
  /\ running /\ files < MaxFiles
  /\ export' = disk /\ exported' = saved
  /\ files' = files + 1
  /\ UNCHANGED <<running, memory, menu, disk, saved, origin, serverVars, edits, opens>>

\* Reading a file leaves the menu of recent connections as it is.
Read(file, source) ==
  /\ running /\ files < MaxFiles
  /\ \E lenient \in BOOLEAN : memory' = ReloadFromPath(memory, file, lenient)
  /\ origin' = <<source>>
  /\ files' = files + 1
  /\ UNCHANGED <<running, menu, disk, export, saved, exported, serverVars, edits, opens>>

ImportConnection == Read(export, exported)
LoadConnection   == Read(disk, saved)

-----------------------------------------------------------------------------
(* The dialog. *)

Candidates(list) == CASE list = "connections" -> Connections
                      [] list = "clusters"    -> Clusters
                      [] list = "sentinels"   -> Sentinels

Edited(list, settings) ==
  /\ running /\ edits < MaxEdits
  /\ memory' = [memory EXCEPT ![list] = settings]
  /\ edits' = edits + 1
  /\ origin' = <<>>
  /\ UNCHANGED <<running, menu, disk, export, saved, exported, serverVars, opens, files>>

\* A dialog makes a new object, so nothing equal to it is in the list.
AddSettings == \E list \in Lists : \E s \in Candidates(list) :
                 Edited(list, Append(memory[list], s))

\* The old object is removed and the one the dialog made is added at the end.
EditSettings == \E list \in Lists : \E i \in DOMAIN memory[list], s \in Candidates(list) :
                  Edited(list, Append(RemoveAt(memory[list], i), s))

RemoveSettings == \E list \in Lists : \E i \in DOMAIN memory[list] :
                    Edited(list, RemoveAt(memory[list], i))

-----------------------------------------------------------------------------
(* Servers.  A server is known by what it was made for: the opening, the group of a *)
(* sentinel, and the node in it (0 is the sentinel itself).                         *)

ServerFor(kind, group, node) == [kind |-> kind, open |-> opens, group |-> group, node |-> node]

\* An item of the tree: its kind, the servers it has and those under each, and
\* the servers that have an item of their own in or under it.
Item(kind, under) ==
  [kind |-> kind, under |-> under, shown |-> DOMAIN under \cup UNION Range(under)]

\* CreateServer, CreateCluster and CreateSentinel push the servers they make; the
\* tree gets an item with them.
Opened(item) ==
  /\ running /\ opens < MaxOpens
  /\ opens' = opens + 1
  /\ held' = held \cup item.shown
  /\ items' = items \cup {item}
  /\ UNCHANGED <<running, disk, export, saved, exported, erased, edits, files>>

\* createServer: the path goes to the front of the recent connections.
CreateServer(c) ==
  /\ Opened(Item("server", [s \in {ServerFor("server", 1, 0)} |-> {}]))
  /\ memory' = [memory EXCEPT !.recents = <<c.path>> \o SelectSeq(@, LAMBDA p : p # c.path)]
  /\ menu' = RecentActions(memory'.recents)
  /\ origin' = <<>>

OpenConnection == \E i \in DOMAIN memory.connections : CreateServer(memory.connections[i])

\* The first connection of that path; the entry does nothing when there is none.
OpenRecent ==
  \E path \in Range(menu) : \E i \in DOMAIN memory.connections :
    /\ memory.connections[i].path = path
    /\ \A j \in 1 .. i - 1 : memory.connections[j].path # path
    /\ CreateServer(memory.connections[i])

ClearRecents ==
  /\ running /\ menu # <<>>
  /\ memory' = [memory EXCEPT !.recents = <<>>]
  /\ menu' = <<>> /\ origin' = <<>>
  /\ UNCHANGED <<running, disk, export, saved, exported, serverVars, edits, opens, files>>

\* A cluster without nodes has no root and is not shown; a new server is a master.
OpenCluster ==
  \E i \in DOMAIN memory.clusters :
    LET nodes == memory.clusters[i].nodes
        new   == {ServerFor("cluster", 1, k) : k \in DOMAIN nodes}
    IN /\ nodes # <<>>
       /\ Opened(Item("cluster", [s \in new |-> {}]))
       /\ UNCHANGED <<memory, menu, origin>>

\* A server for each sentinel and for each node it watches.
OpenSentinel ==
  \E i \in DOMAIN memory.sentinels :
    LET groups == memory.sentinels[i].groups
        new    == {ServerFor("sentinel", g, 0) : g \in DOMAIN groups}
        nodes(g) == {ServerFor("sentinel", g, k) : k \in DOMAIN groups[g].nodes}
    IN /\ groups # <<>>
       /\ Opened(Item("sentinel", [s \in new |-> nodes(s.group)]))
       /\ UNCHANGED <<memory, menu, origin>>

\* Mutant: only one node of a cluster is closed.
ClosesOne(item) == {CHOOSE s \in DOMAIN item.under : TRUE}

\* The servers CloseServer, CloseCluster or CloseSentinel erases; the sentinels
\* themselves are not among them.
Closes(item) ==
  IF item.kind = "sentinel" THEN UNION Range(item.under) ELSE DOMAIN item.under

\* The server s was pushed after r.
Pushed(r, s) ==
  \/ r.open < s.open
  \/ r.open = s.open /\ (r.group < s.group \/ (r.group = s.group /\ r.node < s.node))

\* CloseServer for each of them.  Erasing one that is not there is undefined: the
\* program ends, which Kill covers, or goes on with the last server gone instead.
Close(servers) ==
  LET absent == servers \ held
      left   == held \ servers
  IN \/ absent = {} /\ held' = left /\ UNCHANGED erased
     \/ /\ absent # {} /\ erased' = TRUE
        /\ \E lost \in SUBSET left :
             /\ Cardinality(lost) = Min({Cardinality(absent), Cardinality(left)})
             /\ \A s \in lost, r \in left \ lost : Pushed(r, s)
             /\ held' = left \ lost

\* The menu of an item at the top of the tree.
CloseItem ==
  /\ running
  /\ \E item \in items : Close(Closes(item)) /\ items' = items \ {item}
  /\ UNCHANGED <<running, settingsVars, edits, opens, files>>

\* The menu of a server inside a sentinel's item (inside a cluster's it is greyed
\* out).  Items under it go with it, while their servers stay.
CloseMember ==
  /\ running
  /\ \E item \in items : \E s \in item.shown :
       /\ item.kind = "sentinel"
       /\ Close({s})
       /\ LET gone == {s} \cup (IF s \in DOMAIN item.under THEN item.under[s] ELSE {})
          IN items' = (items \ {item}) \cup {[item EXCEPT !.shown = @ \ gone]}
  /\ UNCHANGED <<running, settingsVars, edits, opens, files>>

-----------------------------------------------------------------------------
Next == \/ Start \/ Exit \/ Kill \/ ExportConnection \/ ImportConnection \/ LoadConnection
        \/ AddSettings \/ EditSettings \/ RemoveSettings
        \/ OpenConnection \/ OpenRecent \/ ClearRecents \/ OpenCluster \/ OpenSentinel
        \/ CloseItem \/ CloseMember

Spec == Init /\ [][Next]_vars

-----------------------------------------------------------------------------
(* Properties. *)

\* Nodes come back as they were if they are plain, but the last loses the method of
\* its ssh tunnel.
NodesRestored(now, before) ==
  /\ Len(now) = Len(before)
  /\ \A i \in DOMAIN before : Plain(before[i]) =>
       now[i] = IF i < Len(before) THEN before[i] ELSE [before[i] EXCEPT !.ssh.method = "unknown"]

\* Settings read at a start, from an import or from a file are those that file was
\* written from: all connections, clusters and recent paths, in their order and no
\* others, each plain connection with every option; the sentinels of the file come
\* after those there were, which a start has none of.  Whether the program was left
\* or killed before, and how often that happened, makes no difference.
Restored ==
  origin # <<>> =>
    LET before == origin[1]
        extra  == Len(memory.sentinels) - Len(before.sentinels)
    IN /\ memory.recents = before.recents
       /\ Len(memory.connections) = Len(before.connections)
       /\ \A i \in DOMAIN before.connections :
            Plain(before.connections[i]) => memory.connections[i] = before.connections[i]
       /\ Len(memory.clusters) = Len(before.clusters)
       /\ \A i \in DOMAIN before.clusters :
            /\ memory.clusters[i].path = before.clusters[i].path
            /\ NodesRestored(memory.clusters[i].nodes, before.clusters[i].nodes)
       /\ extra >= 0
       /\ \A i \in DOMAIN before.sentinels :
            LET now == memory.sentinels[extra + i].groups
                was == before.sentinels[i].groups
            IN /\ Len(now) = Len(was)
               /\ \A g \in DOMAIN was : /\ now[g].sentinel.path = was[g].sentinel.path
                                        /\ NodesRestored(now[g].nodes, was[g].nodes)

\* Unless a server that was closed before has been erased once more, the servers
\* the tree shows are held by the manager, and a server that is held without being
\* shown was opened for a sentinel.
HeldShown ==
  ~erased => LET shown == UNION {item.shown : item \in items}
             IN /\ shown \subseteq held
                /\ \A s \in held \ shown : s.kind = "sentinel"
=============================================================================
