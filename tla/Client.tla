------------------------------- MODULE Client -------------------------------
(***************************************************************************)
(* One server of the explorer tree together with its user: the context     *)
(* menus of the tree, one console (BaseShellWidget) with its buttons and   *)
(* labels, and the server and driver below them.  The widgets read the     *)
(* connection state of the driver directly, without waiting for events,    *)
(* and a menu keeps the state it read when it was shown.                   *)
(***************************************************************************)
EXTENDS ServerDriver

VARIABLES
  menu,           \* the open context menu: "none", or the state it was built in
  listed,         \* the tree has the database items of the server
  shell,          \* a console is open
  connectVisible, \* it shows Connect (otherwise Disconnect)
  executeEnabled, \* its Execute button is enabled
  stopEnabled,    \* its Stop button is enabled
  label           \* it shows a server or a database (otherwise "Calculate...")

buttons == <<connectVisible, executeEnabled, stopEnabled>>
guiVars == <<menu, listed, shell, buttons, label>>
clientAllVars == <<vars, guiVars>>

\* Entries of the server's menu that are disabled in a menu built offline.
OnlineKinds == {"loadDatabases", "serverInfo", "property", "changeProperty", "changePassword",
                "maxConnection", "backup", "shutdown"}

\* Entries that are always enabled, and the one for a server that is offline.
AnyKinds == {"history", "clearHistory"}
OfflineKinds == {"export"}

\* Entries of the menus of database and key items.
ItemKinds == {"loadContent", "clearDatabase", "setDefault", "execute", "watch"}

ClientInit ==
  /\ Init
  /\ menu = "none" /\ listed = FALSE /\ shell = FALSE
  /\ connectVisible = TRUE /\ executeEnabled = FALSE /\ stopEnabled = FALSE
  /\ label = FALSE

\* IServer::IsConnected, read by the GUI thread from the driver's state.
IsConnected == connected /\ (Redis => auth)

\* syncConnectionActions of the console.
SyncActions ==
  /\ connectVisible' = ~IsConnected
  /\ executeEnabled' = IsConnected
  /\ stopEnabled' = IsConnected

-----------------------------------------------------------------------------
(* The user. *)

\* A call on the server, with what the console does on its Started signal.
Ask(kind) ==
  /\ kind \in UserKinds
  /\ Call(kind)
  /\ IF ~shell THEN UNCHANGED buttons
     ELSE CASE kind \in {"connect", "disconnect"} -> SyncActions
            [] kind \in BatchKinds -> /\ executeEnabled' = FALSE
                                      /\ stopEnabled' = TRUE
                                      /\ UNCHANGED connectVisible
            [] OTHER -> UNCHANGED buttons
  /\ UNCHANGED <<listed, shell, label>>

\* showContextMenu enables its entries from the state at this moment.
ShowMenu ==
  /\ life = "running"
  /\ menu = "none"
  /\ menu' = IF IsConnected THEN "online" ELSE "offline"
  /\ UNCHANGED <<vars, listed, shell, buttons, label>>

DismissMenu ==
  /\ life = "running"
  /\ menu # "none"
  /\ menu' = "none"
  /\ UNCHANGED <<vars, listed, shell, buttons, label>>

\* An entry of the menu is chosen, possibly long after the menu was built.
ChooseEntry ==
  /\ menu # "none"
  /\ menu' = "none"
  /\ \/ \E kind \in AnyKinds : Ask(kind)
     \/ \E kind \in OnlineKinds : menu = "online" /\ Ask(kind)
     \/ \E kind \in OfflineKinds : menu = "offline" /\ Ask(kind)
     \/ \E kind \in ItemKinds : menu = "online" /\ listed /\ Ask(kind)

\* connectDisconnectToServer decides when it is clicked.
ChooseConnect ==
  /\ menu # "none"
  /\ menu' = "none"
  /\ Ask(IF IsConnected THEN "disconnect" ELSE "connect")

\* Mutant: the info of the driver is read whether or not it is connected.
InfoShownAlways == TRUE

\* CurrentServerInfo and CurrentDatabaseInfo return something only when connected.
InfoShown == connected

\* Their assertions on the pointers that discovery fills.
InfoPresent == connected => serverInfo /\ database

\* openConsole, in any state: the constructor of the console reads the infos.
OpenConsole ==
  /\ life = "running"
  /\ menu # "none"
  /\ ~shell
  /\ menu' = "none"
  /\ shell' = TRUE
  /\ SyncActions
  /\ label' = InfoShown
  /\ life' = IF InfoPresent THEN life ELSE "aborted"
  /\ UNCHANGED <<requests, events, driverVars, linkVars, interrupted, clientVars, listed>>

CloseConsole ==
  /\ life = "running"
  /\ menu = "none"
  /\ shell
  /\ shell' = FALSE
  /\ label' = FALSE
  /\ UNCHANGED <<vars, menu, listed, buttons>>

\* The buttons of the console.
PressConnection ==
  /\ menu = "none" /\ shell
  /\ Ask(IF connectVisible THEN "connect" ELSE "disconnect")
  /\ UNCHANGED menu

PressExecute ==
  /\ menu = "none" /\ shell /\ executeEnabled
  /\ Ask("execute")
  /\ UNCHANGED menu

PressStop ==
  /\ menu = "none" /\ shell /\ stopEnabled
  /\ StopCurrentEvent
  /\ UNCHANGED guiVars

\* The server is removed from the tree, and its console closed with it.
CloseServer ==
  /\ menu # "none"
  /\ Close
  /\ menu' = "none"
  /\ shell' = FALSE
  /\ label' = FALSE
  /\ UNCHANGED <<listed, buttons>>

-----------------------------------------------------------------------------
(* What the widgets do on the server's signals. *)

\* serverDisconnect resets the labels of the console.
LabelReset == FALSE

\* Mutant: the Disconnected signal is not connected to the console.
OnLostIgnored == UNCHANGED <<buttons, label>>

\* serverDisconnect, on Disconnected and DisconnectFinished.
OnLost == SyncActions /\ label' = LabelReset

\* finishConnect, finishExecute, finishLoadDiscoveryInfo, finishSetDefaultDatabase.
OnFinished(e) ==
  CASE e.kind = "connect"      -> SyncActions /\ UNCHANGED label
    [] e.kind = "disconnect"   -> OnLost
    [] e.kind \in BatchKinds   -> /\ executeEnabled' = IsConnected
                                  /\ stopEnabled' = FALSE
                                  /\ UNCHANGED <<connectVisible, label>>
    [] e.kind \in {"discovery", "setDefault"} /\ ~e.error -> label' = TRUE /\ UNCHANGED buttons
    [] OTHER                   -> UNCHANGED <<buttons, label>>

\* The response of LoadDatabases gives the tree its database items.
Deliver ==
  /\ ServerDeliver
  /\ IF shell THEN OnFinished(Head(events)) ELSE UNCHANGED <<buttons, label>>
  /\ listed' = (listed \/ (Head(events).kind = "loadDatabases" /\ ~Head(events).error))
  /\ UNCHANGED <<menu, shell>>

Forward ==
  /\ ServerForward
  /\ IF shell /\ Head(events).type = "disconnected" THEN OnLost
     ELSE UNCHANGED <<buttons, label>>
  /\ UNCHANGED <<menu, listed, shell>>

DriverTurn == DriverStep /\ UNCHANGED guiVars

ClientEnded == Ended /\ UNCHANGED guiVars

-----------------------------------------------------------------------------
User == \/ ShowMenu \/ DismissMenu \/ ChooseEntry \/ ChooseConnect \/ OpenConsole
        \/ CloseConsole \/ PressConnection \/ PressExecute \/ PressStop \/ CloseServer

ClientNext == User \/ Deliver \/ Forward \/ DriverTurn \/ ClientEnded

ClientSpec == ClientInit /\ [][ClientNext]_clientAllVars

ClientFairSpec == ClientSpec /\ WF_clientAllVars(DriverTurn)
                             /\ WF_clientAllVars(Deliver \/ Forward)

-----------------------------------------------------------------------------
(* Properties. *)

\* Whenever both queues have drained, the console of a local store offers exactly
\* the buttons of the driver's state, although each was set from a state read in
\* passing and the driver may have moved on several times since.
ButtonsSettle ==
  Quiescent /\ shell => connectVisible = ~connected /\ executeEnabled = connected

\* Whenever both queues have drained, a console that shows a server or a database
\* shows that of an open connection: none of a late discovery, a reconnect, or a QUIT
\* inside a batch leaves the label of a connection that is gone.
LabelSettles == Quiescent /\ shell /\ label => connected

\* The assertions of IDriver about server_info_ and current_database_info_ hold.
NoFailedCheck == life # "aborted"
=============================================================================
