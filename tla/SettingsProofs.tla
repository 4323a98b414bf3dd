--------------------------- MODULE SettingsProofs ---------------------------
(***************************************************************************)
(* Proofs about Settings for any lists of connections, clusters and        *)
(* sentinels, and any number of edits, openings and files: which servers   *)
(* the manager holds.                                                      *)
(***************************************************************************)
EXTENDS Settings, TLAPS

\* The servers an item was made with.
Members(item) == DOMAIN item.under \cup UNION Range(item.under)

\* What an item is: it shows servers of its own, of its kind and of an earlier opening;
\* only below a sentinel there are others, and only there an item shows less.
ItemInv(item) ==
  /\ item.kind \in {"server", "cluster", "sentinel"}
  /\ item = [kind |-> item.kind, under |-> item.under, shown |-> item.shown]
  /\ item.shown \subseteq Members(item)
  /\ \A s \in Members(item) : s.kind = item.kind /\ s.open \in 0 .. opens - 1
  /\ item.kind # "sentinel" => item.shown = DOMAIN item.under /\ Members(item) = item.shown

\* Items share no servers.
ApartInv == \A a, b \in items : a # b => Members(a) \cap Members(b) = {}

\* What is shown is held, and what is held beyond that belongs to a sentinel.
HeldInv ==
  ~ erased => /\ \A item \in items : item.shown \subseteq held
              /\ \A s \in held : \/ s.kind = "sentinel"
                                 \/ \E item \in items : s \in item.shown

ServersInv == opens \in Nat /\ (\A item \in items : ItemInv(item)) /\ ApartInv /\ HeldInv

\* A program that is not running has no servers.
LEMMA InitServers == Init => ServersInv
BY DEF Init, ServersInv, ApartInv, HeldInv

\* Leaving the program gives up all servers.
LEMMA LeftServers ==
  ASSUME opens \in Nat, opens' = opens, held' = {}, items' = {}
  PROVE  ServersInv'
BY DEF ServersInv, ApartInv, HeldInv

\* Items stay what they are while openings are counted.
LEMMA ItemStays ==
  ASSUME NEW item, ItemInv(item), opens \in Nat, opens' \in {opens, opens + 1}
  PROVE  ItemInv(item)'
BY DEF ItemInv, Members

\* Steps that have nothing to do with servers.
LEMMA OtherServers ==
  ASSUME ServersInv, UNCHANGED <<held, items, erased, opens>>
  PROVE  ServersInv'
BY DEF ServersInv, ApartInv, HeldInv, ItemInv, Members

\* An item that is made for an opening.
IsNew(item) ==
  /\ item.kind \in {"server", "cluster", "sentinel"}
  /\ item = [kind |-> item.kind, under |-> item.under, shown |-> item.shown]
  /\ item.shown = Members(item)
  /\ \A s \in Members(item) : s.kind = item.kind /\ s.open = opens
  /\ item.kind # "sentinel" => item.shown = DOMAIN item.under

\* An opening: all servers of the new item are new, held and shown.
LEMMA OpenedServers ==
  ASSUME ServersInv, NEW item, IsNew(item), Opened(item)
  PROVE  ServersInv'
<1>1. /\ opens \in Nat /\ opens' = opens + 1 /\ held' = held \cup item.shown
      /\ items' = items \cup {item} /\ erased' = erased
  BY DEF Opened, ServersInv
<1>2. ItemInv(item)' BY <1>1 DEF IsNew, ItemInv, Members
<1>3. \A a \in items : ItemInv(a)' BY <1>1, ItemStays DEF ServersInv
<1>4. \A a \in items : Members(a) \cap Members(item) = {}
  BY <1>1 DEF ServersInv, ItemInv, IsNew
<1>5. ApartInv'
  <2>1. \A a, b \in items' : a # b => Members(a) \cap Members(b) = {}
    BY <1>1, <1>4 DEF ServersInv, ApartInv
  <2> QED BY <2>1 DEF ApartInv, Members
<1>6. HeldInv' BY <1>1 DEF ServersInv, HeldInv
<1> QED BY <1>1, <1>2, <1>3, <1>5, <1>6 DEF ServersInv

\* Items with nothing under their servers.
LEMMA FlatItem ==
  ASSUME NEW kind \in {"server", "cluster"}, NEW new,
         \A s \in new : s.kind = kind /\ s.open = opens
  PROVE  IsNew(Item(kind, [s \in new |-> {}]))
<1> DEFINE under == [s \in new |-> {}]
<1>1. DOMAIN under = new /\ UNION Range(under) = {} BY DEF Range
<1> HIDE DEF under
<1>2. PICK item : item = [kind |-> kind, under |-> under, shown |-> new] OBVIOUS
<1>3. item.kind = kind /\ item.under = under /\ item.shown = new BY <1>2
<1>4. Item(kind, under) = item BY <1>1, <1>2 DEF Item
<1>5. Members(item) = new BY <1>1, <1>3 DEF Members
<1>6. IsNew(item)
  <2>1. item = [kind |-> item.kind, under |-> item.under, shown |-> item.shown] BY <1>2
  <2> QED BY <1>1, <1>3, <1>5, <2>1 DEF IsNew
<1> QED BY <1>4, <1>6 DEF under

\* The item of a sentinel.
LEMMA SentinelItem ==
  ASSUME NEW under,
         \A s \in DOMAIN under \cup UNION Range(under) : s.kind = "sentinel" /\ s.open = opens
  PROVE  IsNew(Item("sentinel", under))
BY DEF IsNew, Item, Members

\* What CloseServer does to the servers held, as long as it erases none that is absent.
LEMMA ClosedServers ==
  ASSUME NEW servers, Close(servers), ~ erased'
  PROVE  ~ erased /\ held' = held \ servers
BY DEF Close

\* Every step keeps track of the servers.
LEMMA NextServers == ServersInv /\ [Next]_vars => ServersInv'
<1> SUFFICES ASSUME ServersInv, [Next]_vars PROVE ServersInv' OBVIOUS
<1>0. opens \in Nat BY DEF ServersInv
<1>1. CASE \/ Start \/ ExportConnection \/ ImportConnection \/ LoadConnection \/ ClearRecents
           \/ AddSettings \/ EditSettings \/ RemoveSettings \/ UNCHANGED vars
  <2>1. UNCHANGED <<held, items, erased, opens>>
    BY <1>1 DEF Start, ExportConnection, ImportConnection, LoadConnection, Read, ClearRecents,
                AddSettings, EditSettings, RemoveSettings, Edited, serverVars, vars
  <2> QED BY <2>1, OtherServers
<1>2. CASE Exit \/ Kill BY <1>0, <1>2, LeftServers DEF Exit, Kill
<1>3. CASE OpenConnection \/ OpenRecent
  <2> DEFINE new == {ServerFor("server", 1, 0)}
  <2>1. Opened(Item("server", [s \in new |-> {}]))
    BY <1>3 DEF OpenConnection, OpenRecent, CreateServer
  <2>2. \A s \in new : s.kind = "server" /\ s.open = opens BY DEF ServerFor
  <2> HIDE DEF new
  <2>3. IsNew(Item("server", [s \in new |-> {}])) BY <2>2, FlatItem
  <2> QED BY <2>1, <2>3, OpenedServers
<1>4. CASE OpenCluster
  <2>1. PICK i \in DOMAIN memory.clusters :
          Opened(Item("cluster", [s \in {ServerFor("cluster", 1, k) :
                                           k \in DOMAIN memory.clusters[i].nodes} |-> {}]))
    BY <1>4 DEF OpenCluster
  <2> DEFINE new == {ServerFor("cluster", 1, k) : k \in DOMAIN memory.clusters[i].nodes}
  <2>2. \A s \in new : s.kind = "cluster" /\ s.open = opens BY DEF ServerFor
  <2>3. Opened(Item("cluster", [s \in new |-> {}])) BY <2>1
  <2> HIDE DEF new
  <2>4. IsNew(Item("cluster", [s \in new |-> {}])) BY <2>2, FlatItem
  <2> QED BY <2>3, <2>4, OpenedServers
<1>5. CASE OpenSentinel
  <2>1. PICK i \in DOMAIN memory.sentinels :
          LET groups == memory.sentinels[i].groups
              new    == {ServerFor("sentinel", g, 0) : g \in DOMAIN groups}
              nodes(g) == {ServerFor("sentinel", g, k) : k \in DOMAIN groups[g].nodes}
          IN Opened(Item("sentinel", [s \in new |-> nodes(s.group)]))
    BY <1>5 DEF OpenSentinel
  <2> DEFINE groups == memory.sentinels[i].groups
             new == {ServerFor("sentinel", g, 0) : g \in DOMAIN groups}
             nodes(g) == {ServerFor("sentinel", g, k) : k \in DOMAIN groups[g].nodes}
             under == [s \in new |-> nodes(s.group)]
  <2>2. Opened(Item("sentinel", under)) BY <2>1
  <2>3. \A s \in new : s.kind = "sentinel" /\ s.open = opens BY DEF ServerFor
  <2>4. \A g : \A s \in nodes(g) : s.kind = "sentinel" /\ s.open = opens BY DEF ServerFor
  <2> HIDE DEF new, nodes
  <2>5. \A s \in DOMAIN under \cup UNION Range(under) : s.kind = "sentinel" /\ s.open = opens
    BY <2>3, <2>4 DEF Range
  <2> HIDE DEF under
  <2>6. IsNew(Item("sentinel", under)) BY <2>5, SentinelItem
  <2> QED BY <2>2, <2>6, OpenedServers
<1>6. CASE CloseItem
  <2>1. PICK item \in items : Close(Closes(item)) /\ items' = items \ {item} BY <1>6 DEF CloseItem
  <2>2. opens' = opens BY <1>6 DEF CloseItem
  <2>3. \A a \in items' : ItemInv(a)' BY <1>0, <2>1, <2>2, ItemStays DEF ServersInv
  <2>4. ApartInv' BY <2>1 DEF ServersInv, ApartInv, Members
  <2>5. ItemInv(item) BY DEF ServersInv
  <2>6. HeldInv'
    <3> SUFFICES ASSUME ~ erased'
                 PROVE  /\ \A a \in items' : a.shown \subseteq held'
                        /\ \A s \in held' : \/ s.kind = "sentinel"
                                            \/ \E a \in items' : s \in a.shown
      BY DEF HeldInv
    <3>1. ~ erased /\ held' = held \ Closes(item) BY <2>1, ClosedServers
    <3>2. Closes(item) \subseteq Members(item) BY DEF Closes, Members
    <3>3. ASSUME NEW a \in items' PROVE a.shown \subseteq held'
      <4>1. a \in items /\ a # item BY <2>1
      <4>2. a.shown \subseteq held /\ a.shown \subseteq Members(a)
        BY <3>1, <4>1 DEF ServersInv, HeldInv, ItemInv
      <4>3. Members(a) \cap Members(item) = {} BY <4>1 DEF ServersInv, ApartInv
      <4> QED BY <3>1, <3>2, <4>2, <4>3
    <3>4. ASSUME NEW s \in held', s.kind # "sentinel" PROVE \E a \in items' : s \in a.shown
      <4>1. s \in held /\ s \notin Closes(item) BY <3>1
      <4>2. PICK a \in items : s \in a.shown BY <3>1, <3>4, <4>1 DEF ServersInv, HeldInv
      <4>3. a # item BY <2>5, <3>4, <4>1, <4>2 DEF ItemInv, Closes
      <4> QED BY <2>1, <4>2, <4>3
    <3> QED BY <3>3, <3>4
  <2> QED BY <1>0, <2>2, <2>3, <2>4, <2>6 DEF ServersInv
<1>7. CASE CloseMember
  <2>1. PICK item \in items : \E s \in item.shown :
          /\ item.kind = "sentinel" /\ Close({s})
          /\ LET gone == {s} \cup (IF s \in DOMAIN item.under THEN item.under[s] ELSE {})
             IN items' = (items \ {item}) \cup {[item EXCEPT !.shown = @ \ gone]}
    BY <1>7 DEF CloseMember
  <2>2. PICK s \in item.shown :
          /\ item.kind = "sentinel" /\ Close({s})
          /\ LET gone == {s} \cup (IF s \in DOMAIN item.under THEN item.under[s] ELSE {})
             IN items' = (items \ {item}) \cup {[item EXCEPT !.shown = @ \ gone]}
    BY <2>1
  <2> DEFINE gone == {s} \cup (IF s \in DOMAIN item.under THEN item.under[s] ELSE {})
  <2>3. PICK new : new = [item EXCEPT !.shown = @ \ gone] OBVIOUS
  <2>4. s \in gone /\ items' = (items \ {item}) \cup {new} BY <2>2, <2>3
  <2> HIDE DEF gone
  <2>5. ItemInv(item) /\ opens' = opens BY <1>7 DEF ServersInv, CloseMember
  <2>6. /\ new = [kind |-> item.kind, under |-> item.under, shown |-> item.shown \ gone]
        /\ new.kind = item.kind /\ new.under = item.under /\ new.shown = item.shown \ gone
    BY <2>3, <2>5 DEF ItemInv
  <2>7. Members(new) = Members(item) BY <2>6 DEF Members
  <2>8. ItemInv(new)
    <3>1. new = [kind |-> new.kind, under |-> new.under, shown |-> new.shown] BY <2>6
    <3> QED BY <2>2, <2>5, <2>6, <2>7, <3>1 DEF ItemInv
  <2>9. \A a \in items' : ItemInv(a)' BY <1>0, <2>4, <2>5, <2>8, ItemStays DEF ServersInv
  <2>10. \A a, b \in items' : a # b => Members(a) \cap Members(b) = {}
    BY <2>4, <2>7 DEF ServersInv, ApartInv
  <2>11. ApartInv' BY <2>10 DEF ApartInv, Members
  <2>12. HeldInv'
    <3> SUFFICES ASSUME ~ erased'
                 PROVE  /\ \A a \in items' : a.shown \subseteq held'
                        /\ \A r \in held' : \/ r.kind = "sentinel"
                                            \/ \E a \in items' : r \in a.shown
      BY DEF HeldInv
    <3>1. ~ erased /\ held' = held \ {s} BY <2>2, ClosedServers
    <3>2. ASSUME NEW a \in items' PROVE a.shown \subseteq held'
      <4>1. CASE a = new
        <5>1. item.shown \subseteq held BY <3>1 DEF ServersInv, HeldInv
        <5> QED BY <2>4, <2>6, <3>1, <4>1, <5>1
      <4>2. CASE a # new
        <5>1. a \in items /\ a # item BY <2>4, <4>2
        <5>2. a.shown \subseteq held /\ a.shown \subseteq Members(a)
          BY <3>1, <5>1 DEF ServersInv, HeldInv, ItemInv
        <5>3. Members(a) \cap Members(item) = {} BY <5>1 DEF ServersInv, ApartInv
        <5>4. s \in Members(item) BY <2>5 DEF ItemInv
        <5> QED BY <3>1, <5>2, <5>3, <5>4
      <4> QED BY <4>1, <4>2
    <3>3. ASSUME NEW r \in held', r.kind # "sentinel" PROVE \E a \in items' : r \in a.shown
      <4>1. PICK a \in items : r \in a.shown BY <3>1, <3>3 DEF ServersInv, HeldInv
      <4>2. a # item BY <2>2, <2>5, <3>3, <4>1 DEF ItemInv
      <4> QED BY <2>4, <4>1, <4>2
    <3> QED BY <3>2, <3>3
  <2> QED BY <1>0, <2>5, <2>9, <2>11, <2>12 DEF ServersInv
<1> QED BY <1>1, <1>2, <1>3, <1>4, <1>5, <1>6, <1>7 DEF Next

\* The explorer never shows a server that the manager has let go, and the manager holds
\* no server without an item but those of sentinels, until CloseServer erases a server
\* that is not in servers_.
THEOREM ServersHeld == Spec => []HeldShown
<1>1. ServersInv => HeldShown BY DEF ServersInv, HeldInv, HeldShown
<1>2. Init => ServersInv BY InitServers
<1>3. ServersInv /\ [Next]_vars => ServersInv' BY NextServers
<1>4. QED BY <1>1, <1>2, <1>3, PTL DEF Spec
=============================================================================
