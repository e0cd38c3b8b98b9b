---------------------------- MODULE SettledProofs ----------------------------
(***************************************************************************)
(* The proof that the interface table of Lifecycle settles: once the link  *)
(* events in flight are handled, it agrees with the kernel and every       *)
(* interface is served.                                                    *)
(*                                                                         *)
(* The code keeps no record of what it has yet to learn.  The invariant    *)
(* finds it in the queue of events: an entry that is out of date has an    *)
(* event in flight that puts it right, and an entry without its services   *)
(* has the RTM_DELLINK in flight that excuses it.                          *)
(***************************************************************************)
EXTENDS LifecycleProofs

Named(n) == interfaces[n].ifname # NoName

OwnName ==
    \A n \in DOMAIN interfaces :
        Named(n) => \E f \in Files : n \in DOMAIN f /\ interfaces[n].ifname \in f[n].ifname

Pending(d) == \E p \in 1 .. Len(linkEvents) : linkEvents[p].ifname = d

\* An RTM_DELLINK of netdev d with index i is in flight behind position p.
Deleted(d, i, p) ==
    \E q \in 1 .. Len(linkEvents) :
        q > p /\ linkEvents[q].type = "DEL" /\ linkEvents[q].ifname = d /\ linkEvents[q].index = i

\* The last event in flight of a netdev tells its present state.
LastTells ==
    \A p \in 1 .. Len(linkEvents) :
        LET e == linkEvents[p]
            link == links[e.ifname]
        IN  (\A q \in 1 .. Len(linkEvents) : q > p => linkEvents[q].ifname # e.ifname) =>
               /\ e.type = "NEW" => link.index = e.index /\ e.running = (link.state = "running")
               /\ e.type = "DEL" => link.index = 0

\* An event that tells an outdated index is followed by that index's RTM_DELLINK.
Followed ==
    \A p \in 1 .. Len(linkEvents) :
        LET e == linkEvents[p] IN
        e.type = "NEW" => links[e.ifname].index = e.index \/ Deleted(e.ifname, e.index, p)

\* What the table says of d agrees with the kernel, or an event will tell.
InStep(d, i, running) ==
    /\ i # 0 => links[d].index = i \/ Deleted(d, i, 0)
    /\ ~Pending(d) => links[d].index = i /\ running = (links[d].state = "running")

EntriesInStep ==
    \A n \in DOMAIN interfaces :
        Named(n) => InStep(interfaces[n].ifname, interfaces[n].ifindex, interfaces[n].running)

Served(n) ==
    LET iface == interfaces[n] IN
    /\ iface.dhcp = (iface.running /\ iface.dhcpv4 = "relay")
    /\ iface.running /\ iface.arp = "relay" => iface.ifname \in proxyARP

\* No reload is running, or it is done with entry n.
Finished(n) == Idle \/ (reload.phase = "serve" /\ n \notin reload.todo)

ServedOrGone ==
    \A n \in DOMAIN interfaces :
        Finished(n) => Served(n) \/ Deleted(interfaces[n].ifname, interfaces[n].ifindex, 0)

Sync == OwnName /\ LastTells /\ Followed /\ EntriesInStep /\ ServedOrGone

-----------------------------------------------------------------------------
(* Names.                                                                  *)

\* Two entries of distinct keys are never bound to one netdev.
LEMMA NamesDiffer ==
    ASSUME DistinctNetdevs, OwnName, NEW m \in DOMAIN interfaces, NEW n \in DOMAIN interfaces,
           m # n, Named(m)
    PROVE  interfaces[m].ifname # interfaces[n].ifname
<1>1. CASE ~Named(n)
  BY <1>1 DEF Named
<1>2. CASE Named(n)
  <2>1. PICK f \in Files : m \in DOMAIN f /\ interfaces[m].ifname \in f[m].ifname
    BY DEF OwnName
  <2>2. PICK g \in Files : n \in DOMAIN g /\ interfaces[n].ifname \in g[n].ifname
    BY <1>2 DEF OwnName
  <2> QED BY <2>1, <2>2 DEF DistinctNetdevs
<1> QED BY <1>1, <1>2

\* A finished entry is complete, and a named one is.
LEMMA CompleteEntry ==
    ASSUME Shape, NEW n \in DOMAIN interfaces, Finished(n) \/ Named(n)
    PROVE  Named(n) /\ interfaces[n] \in Interface /\ interfaces[n].ifname \in Ifnames
<1>1. interfaces[n] \in Interface
  BY DEF Shape, TypeOK, Phases, Finished, Named, NewInterface
<1> QED BY <1>1, LifecycleAssumption DEF Interface, Named

\* Every step leaves entries bound as some file says.
LEMMA NamesStep == ASSUME Shape, OwnName, [Next]_vars PROVE OwnName'
<1>1. CASE UNCHANGED interfaces
  BY <1>1 DEF OwnName, Named
<1>2. CASE handleLinkEvent
  <2>1. /\ DOMAIN interfaces' = DOMAIN interfaces
        /\ \A m \in DOMAIN interfaces : interfaces'[m].ifname = interfaces[m].ifname
    BY <1>2, HandleConfig DEF SameConfig
  <2> QED BY <2>1 DEF OwnName, Named
<1>3. ASSUME NEW file \in Files, ReloadStart(file) PROVE OwnName'
  BY <1>3, StartTable DEF OwnName, Named
<1>4. CASE ReloadModes
  BY <1>4, ModesTable DEF OwnName, Named
<1>5. ASSUME NEW n \in Names, parseInterfaceJSON(n) PROVE OwnName'
  <2> DEFINE iface == findOrCreateInterface(n)
             entry == reload.file[n]
  <2>1. /\ DOMAIN interfaces' = DOMAIN interfaces \cup {n}
        /\ \A k \in DOMAIN interfaces : k # n => interfaces'[k] = interfaces[k]
        /\ n \in DOMAIN reload.file /\ reload.file \in Files
        /\ Taken(n, entry, iface) \/ Rejected(n, entry, iface)
    BY <1>5, ParseTable
  <2>2. (n \in DOMAIN interfaces /\ iface = interfaces[n]) \/ iface.ifname = NoName
    BY DEF findOrCreateInterface, NewInterface
  <2> HIDE DEF iface
  <2>3. interfaces'[n].ifname = iface.ifname \/ interfaces'[n].ifname \in entry.ifname
    BY <2>1 DEF Taken, Rejected, Bound
  <2> QED BY <2>1, <2>2, <2>3 DEF OwnName, Named
<1>6. ASSUME NEW n \in Names, ReloadServe(n) PROVE OwnName'
  <2>1. /\ n \in DOMAIN interfaces /\ (ServedNow(n) \/ Closed(n))
        /\ \A k \in DOMAIN interfaces : k # n => interfaces'[k] = interfaces[k]
    BY <1>6, ServeTable
  <2>2. \A k \in DOMAIN interfaces' : k \in DOMAIN interfaces /\ interfaces'[k].ifname = interfaces[k].ifname
    BY <2>1 DEF ServedNow, Closed
  <2> QED BY <2>2 DEF OwnName, Named
<1> QED BY <1>1, <1>2, <1>3, <1>4, <1>5, <1>6, LinkTable, HostTable DEF Next, HostStep, vars

-----------------------------------------------------------------------------
(* A link change adds an event.                                            *)

\* The netdev d after the change, and the event that tells of it.
Told(d, e) ==
    /\ e \in LinkEvent /\ e.ifname = d /\ linkEvents' = Append(linkEvents, e)
    /\ \A c \in Ifnames : c # d => links'[c] = links[c]
    /\ \/ /\ e.type = "DEL" /\ e.index = links[d].index
          /\ links'[d].index = 0 /\ proxyARP' = proxyARP \ {d}
       \/ /\ e.type = "NEW" /\ links[d].index \in {0, e.index}
          /\ links'[d].index = e.index /\ e.running = (links'[d].state = "running")
          /\ proxyARP' = proxyARP

\* Every link operation tells of itself at the end of the queue.
LEMMA LinkTold ==
    ASSUME Shape, NEW d \in Ifnames,
           LinkDelete(d) \/ LinkCreate(d) \/ \E s \in {"down", "nocarrier", "running"} : LinkSet(d, s)
    PROVE  \E e : Told(d, e)
<1>1. links[d] \in Link /\ (links[d].index = 0 <=> links[d].state = "absent")
      /\ links \in [Ifnames -> Link]
  BY DEF Shape, TypeOK, IndexedLinks
<1>2. ASSUME NEW i, NEW s, NEW type \in {"NEW", "DEL"}, LinkChange(d, i, s, type),
             (IF type = "DEL" THEN links[d].index ELSE i) \in Ifindexes,
             type = "DEL" => i = 0 /\ s = "absent",
             type = "NEW" => links[d].index \in {0, i} /\ s # "absent"
      PROVE  \E e : Told(d, e)
  <2> DEFINE e == [type |-> type, ifname |-> d, index |-> IF type = "DEL" THEN links[d].index ELSE i,
                   running |-> s = "running"]
  <2>1. /\ e \in LinkEvent /\ e.ifname = d /\ e.type = type /\ e.running = (s = "running")
        /\ e.index = IF type = "DEL" THEN links[d].index ELSE i
    BY <1>2 DEF LinkEvent
  <2>2. /\ linkEvents' = Append(linkEvents, e) /\ links' = [links EXCEPT ![d] = [index |-> i, state |-> s]]
        /\ proxyARP' = IF s = "absent" THEN proxyARP \ {d} ELSE proxyARP
    BY <1>2 DEF LinkChange
  <2> HIDE DEF e
  <2>3. links'[d].index = i /\ links'[d].state = s /\ \A c \in Ifnames : c # d => links'[c] = links[c]
    BY <1>1, <2>2
  <2> QED BY <1>2, <2>1, <2>2, <2>3 DEF Told
<1>3. CASE LinkDelete(d)
  <2>1. LinkChange(d, 0, "absent", "DEL") /\ links[d].index \in Ifindexes
    BY <1>1, <1>3 DEF LinkDelete, PresentNames, Link
  <2> QED BY <1>2, <2>1
<1>4. CASE LinkCreate(d)
  <2>1. PICK i \in Ifindexes : LinkChange(d, i, "running", "NEW") /\ links[d].index = 0
    BY <1>1, <1>4 DEF LinkCreate, PresentNames
  <2> QED BY <1>2, <2>1
<1>5. ASSUME NEW s \in {"down", "nocarrier", "running"}, LinkSet(d, s) PROVE \E e : Told(d, e)
  <2>1. PICK i \in Ifindexes : i = links[d].index
    BY <1>1, <1>5 DEF LinkSet, PresentNames, Link
  <2>2. LinkChange(d, i, s, "NEW")
    BY <1>5, <2>1 DEF LinkSet
  <2> QED BY <1>2, <2>1, <2>2
<1> QED BY <1>3, <1>4, <1>5

\* Positions of the queue with an event appended.
LEMMA Appended ==
    ASSUME Shape, NEW d, NEW e, Told(d, e)
    PROVE  /\ Len(linkEvents) \in Nat /\ Len(linkEvents') = Len(linkEvents) + 1
           /\ \A p \in 1 .. Len(linkEvents) : linkEvents'[p] = linkEvents[p]
           /\ linkEvents'[Len(linkEvents) + 1] = e
  BY DEF Shape, TypeOK, Told

\* A new event at the end hides no event in flight.
LEMMA DeletedAppended ==
    ASSUME Shape, NEW d, NEW e, Told(d, e), NEW c, NEW i, NEW p \in 0 .. Len(linkEvents)
    PROVE  /\ Deleted(c, i, p) => Deleted(c, i, p)'
           /\ e.type = "DEL" /\ c = d /\ i = e.index => Deleted(c, i, p)'
           /\ Pending(c) => Pending(c)'
           /\ Pending(d)'
<1>1. /\ Len(linkEvents) \in Nat /\ Len(linkEvents') = Len(linkEvents) + 1
      /\ \A q \in 1 .. Len(linkEvents) : q \in 1 .. Len(linkEvents') /\ linkEvents'[q] = linkEvents[q]
      /\ Len(linkEvents) + 1 \in 1 .. Len(linkEvents')
      /\ linkEvents'[Len(linkEvents) + 1] = e /\ e.ifname = d
      /\ Len(linkEvents) + 1 > p
  BY Appended DEF Told
<1>2. Deleted(c, i, p) => Deleted(c, i, p)'
  BY <1>1 DEF Deleted
<1>3. e.type = "DEL" /\ c = d /\ i = e.index => Deleted(c, i, p)'
  BY <1>1 DEF Deleted
<1>4. (Pending(c) => Pending(c)') /\ Pending(d)'
  BY <1>1 DEF Pending
<1> QED BY <1>2, <1>3, <1>4

\* A link operation keeps what the queue says true.
LEMMA EventsTold ==
    ASSUME Shape, LastTells, Followed, NEW d \in Ifnames, NEW e, Told(d, e)
    PROVE  LastTells' /\ Followed'
<1> DEFINE n == Len(linkEvents)
<1>1. /\ n \in Nat /\ Len(linkEvents') = n + 1 /\ linkEvents'[n + 1] = e
      /\ \A q \in 1 .. n : linkEvents'[q] = linkEvents[q]
  BY Appended
<1>2. \A q \in 1 .. n : linkEvents[q].ifname \in Ifnames /\ linkEvents[q].index \in Ifindexes
  <2>1. linkEvents \in Seq(LinkEvent)
    BY DEF Shape, TypeOK
  <2>2. \A q \in 1 .. n : linkEvents[q] \in LinkEvent
    BY <2>1
  <2> QED BY <2>2 DEF LinkEvent
<1>3. e.ifname = d /\ e.index \in Ifindexes
  BY DEF Told, LinkEvent
<1>4. ASSUME NEW p \in 1 .. n + 1,
             \A q \in 1 .. n + 1 : q > p => linkEvents'[q].ifname # linkEvents'[p].ifname
      PROVE  /\ linkEvents'[p].type = "NEW" =>
                    /\ links'[linkEvents'[p].ifname].index = linkEvents'[p].index
                    /\ linkEvents'[p].running = (links'[linkEvents'[p].ifname].state = "running")
             /\ linkEvents'[p].type = "DEL" => links'[linkEvents'[p].ifname].index = 0
  <2>1. CASE p = n + 1
    BY <1>1, <1>3, <2>1 DEF Told
  <2>2. CASE p \in 1 .. n
    <3>1. linkEvents'[p] = linkEvents[p] /\ linkEvents[p].ifname # d
      BY <1>1, <1>3, <1>4, <2>2
    <3>2. links'[linkEvents[p].ifname] = links[linkEvents[p].ifname]
      BY <1>2, <2>2, <3>1 DEF Told
    <3>3. \A q \in 1 .. n : q > p => linkEvents[q].ifname # linkEvents[p].ifname
      BY <1>1, <1>4, <2>2
    <3> QED BY <2>2, <3>1, <3>2, <3>3 DEF LastTells
  <2> QED BY <1>1, <2>1, <2>2
<1>5. ASSUME NEW p \in 1 .. n + 1, linkEvents'[p].type = "NEW"
      PROVE  \/ links'[linkEvents'[p].ifname].index = linkEvents'[p].index
             \/ Deleted(linkEvents[p].ifname, linkEvents[p].index, p)'
  <2>1. CASE p = n + 1
    BY <1>1, <1>3, <1>5, <2>1 DEF Told
  <2>2. CASE p \in 1 .. n
    <3>1. PICK c \in Ifnames, i \in Ifindexes : c = linkEvents[p].ifname /\ i = linkEvents[p].index
      BY <1>2, <2>2
    <3>2. linkEvents'[p] = linkEvents[p] /\ p \in 0 .. n
      BY <1>1, <2>2
    <3>3. links[c].index = i \/ Deleted(c, i, p)
      BY <1>5, <2>2, <3>1, <3>2 DEF Followed
    <3>4. links'[c].index = i \/ Deleted(c, i, p)'
      <4>1. CASE Deleted(c, i, p)
        BY <3>2, <4>1, DeletedAppended
      <4>2. CASE links[c].index = i /\ c # d
        BY <4>2 DEF Told
      <4>3. CASE links[c].index = i /\ c = d
        <5>1. i # 0
          BY ArpAssumption
        <5>2. CASE e.type = "DEL"
          BY <3>2, <4>3, <5>2, DeletedAppended DEF Told
        <5>3. CASE e.type = "NEW"
          BY <4>3, <5>1, <5>3 DEF Told
        <5> QED BY <5>2, <5>3 DEF Told
      <4> QED BY <3>3, <4>1, <4>2, <4>3
    <3>5. c = linkEvents'[p].ifname /\ i = linkEvents'[p].index
      BY <3>1, <3>2
    <3> QED BY <3>4, <3>5
  <2> QED BY <1>1, <2>1, <2>2
<1>6. LastTells'
  BY <1>1, <1>4 DEF LastTells
<1>7. Followed'
  BY <1>1, <1>5 DEF Followed
<1> QED BY <1>6, <1>7

\* A link operation keeps an entry in step: its own event will tell.
LEMMA InStepTold ==
    ASSUME Shape, NEW d \in Ifnames, NEW e, Told(d, e),
           NEW c \in Ifnames, NEW i, NEW r, InStep(c, i, r)
    PROVE  InStep(c, i, r)'
<1>1. 0 \in 0 .. Len(linkEvents)
  BY DEF Shape, TypeOK
<1>2. CASE c # d
  <2>1. links'[c] = links[c]
    BY <1>2 DEF Told
  <2>2. (Deleted(c, i, 0) => Deleted(c, i, 0)') /\ (Pending(c) => Pending(c)')
    BY <1>1, DeletedAppended
  <2> QED BY <2>1, <2>2 DEF InStep
<1>3. CASE c = d
  <2>1. Pending(c)' /\ (Deleted(c, i, 0) => Deleted(c, i, 0)')
    BY <1>1, <1>3, DeletedAppended
  <2>2. ASSUME i # 0, links[c].index = i PROVE links'[c].index = i \/ Deleted(c, i, 0)'
    <3>1. CASE e.type = "DEL"
      BY <1>1, <1>3, <2>2, <3>1, DeletedAppended DEF Told
    <3>2. CASE e.type = "NEW"
      BY <1>3, <2>2, <3>2 DEF Told
    <3> QED BY <3>1, <3>2 DEF Told
  <2> QED BY <2>1, <2>2 DEF InStep
<1> QED BY <1>2, <1>3

\* A netdev that goes may take a served entry's proxy_arp with it, but tells so.
LEMMA LinkSync ==
    ASSUME Shape, GoneStopped, Sync, NEW d \in Ifnames,
           LinkDelete(d) \/ LinkCreate(d) \/ \E s \in {"down", "nocarrier", "running"} : LinkSet(d, s)
    PROVE  LastTells' /\ Followed' /\ EntriesInStep' /\ ServedOrGone'
<1>1. UNCHANGED <<interfaces, reload>>
  BY LinkTable
<1>2. PICK e : Told(d, e)
  BY LinkTold
<1>3. LastTells' /\ Followed'
  BY <1>2, EventsTold DEF Sync
<1>4. ASSUME NEW n \in DOMAIN interfaces, Named(n)
      PROVE  InStep(interfaces[n].ifname, interfaces[n].ifindex, interfaces[n].running)'
  <2>1. PICK c \in Ifnames : c = interfaces[n].ifname
    BY <1>4, CompleteEntry
  <2>2. PICK i, r : i = interfaces[n].ifindex /\ r = interfaces[n].running
    OBVIOUS
  <2>3. InStep(c, i, r)
    BY <1>4, <2>1, <2>2 DEF Sync, EntriesInStep
  <2>4. InStep(c, i, r)'
    BY <1>2, <2>3, InStepTold
  <2>5. c = interfaces'[n].ifname /\ i = interfaces'[n].ifindex /\ r = interfaces'[n].running
    BY <1>1, <2>1, <2>2
  <2> QED BY <2>4, <2>5
<1>5. EntriesInStep'
  BY <1>1, <1>4 DEF EntriesInStep, Named
<1>6. ASSUME NEW n \in DOMAIN interfaces, Finished(n)
      PROVE  Served(n)' \/ Deleted(interfaces[n].ifname, interfaces[n].ifindex, 0)'
  <2>0. 0 \in 0 .. Len(linkEvents)
    BY DEF Shape, TypeOK
  <2>1. Named(n) /\ interfaces[n] \in Interface /\ interfaces[n].ifname \in Ifnames
    BY <1>6, CompleteEntry
  <2>2. PICK c \in Ifnames : c = interfaces[n].ifname
    BY <2>1
  <2>3. PICK i : i = interfaces[n].ifindex
    OBVIOUS
  <2>4. c = interfaces'[n].ifname /\ i = interfaces'[n].ifindex
    BY <1>1, <2>2, <2>3
  <2>5. CASE Deleted(c, i, 0)
    <3>1. Deleted(c, i, 0)'
      BY <1>2, <2>0, <2>5, DeletedAppended
    <3> QED BY <2>4, <3>1
  <2>6. CASE Served(n) /\ (c # d \/ e.type = "NEW" \/ ~interfaces[n].running)
    <3>1. \/ c \in proxyARP => c \in proxyARP'
          \/ ~interfaces[n].running
      BY <1>2, <2>6 DEF Told
    <3>2. Served(n)'
      BY <1>1, <2>1, <2>2, <2>6, <3>1 DEF Served, Interface
    <3> QED BY <3>2
  <2>7. CASE c = d /\ e.type = "DEL" /\ interfaces[n].running
    <3>1. i # 0
      BY <2>3, <2>7 DEF GoneStopped
    <3>2. InStep(c, i, interfaces[n].running)
      BY <2>1, <2>2, <2>3 DEF Sync, EntriesInStep
    <3>3. Deleted(c, i, 0)'
      BY <1>2, <2>0, <2>7, <3>1, <3>2, DeletedAppended DEF InStep, Told
    <3> QED BY <2>4, <3>3
  <2>8. Served(n) \/ Deleted(c, i, 0)
    BY <1>6, <2>2, <2>3 DEF Sync, ServedOrGone
  <2>9. e.type \in {"NEW", "DEL"}
    BY <1>2 DEF Told
  <2> QED BY <2>5, <2>6, <2>7, <2>8, <2>9
<1>7. ServedOrGone'
  BY <1>1, <1>6 DEF ServedOrGone, Finished, Idle
<1> QED BY <1>3, <1>5, <1>7

-----------------------------------------------------------------------------
(* Handling an event takes it off the queue.                               *)

\* The event e has been taken off the head of the queue.
TakenOff(e) ==
    /\ linkEvents # <<>> /\ e = Head(linkEvents) /\ e \in LinkEvent
    /\ linkEvents' = Tail(linkEvents) /\ links' = links

\* Taking an event off shifts the rest.
LEMMA Shifted ==
    ASSUME Shape, NEW e, TakenOff(e)
    PROVE  /\ Len(linkEvents) \in Nat /\ Len(linkEvents) >= 1 /\ linkEvents[1] = e
           /\ Len(linkEvents') = Len(linkEvents) - 1
           /\ \A p \in 1 .. Len(linkEvents') : linkEvents'[p] = linkEvents[p + 1]
  BY DEF Shape, TypeOK, TakenOff

\* Taking an event off loses no other.
LEMMA DeletedShifted ==
    ASSUME Shape, NEW e, TakenOff(e), NEW c, NEW i
    PROVE  /\ \A p \in Nat : Deleted(c, i, p + 1) => Deleted(c, i, p)'
           /\ Deleted(c, i, 0) => \/ Deleted(c, i, 0)'
                                  \/ e.type = "DEL" /\ e.ifname = c /\ e.index = i
           /\ Pending(c) => Pending(c)' \/ e.ifname = c
           /\ Deleted(c, i, 0)' => Pending(c)'
<1>1. /\ Len(linkEvents) \in Nat /\ Len(linkEvents) >= 1 /\ linkEvents[1] = e
      /\ Len(linkEvents') = Len(linkEvents) - 1
      /\ \A q \in 1 .. Len(linkEvents') : linkEvents'[q] = linkEvents[q + 1]
  BY Shifted
<1>2. \A q \in 1 .. Len(linkEvents) : \/ q = 1
                                      \/ q - 1 \in 1 .. Len(linkEvents') /\ linkEvents'[q - 1] = linkEvents[q]
  BY <1>1
<1>3. ASSUME NEW p \in Nat, Deleted(c, i, p + 1) PROVE Deleted(c, i, p)'
  <2>1. PICK q \in 1 .. Len(linkEvents) : q > p + 1 /\ linkEvents[q].type = "DEL"
                                          /\ linkEvents[q].ifname = c /\ linkEvents[q].index = i
    BY <1>3 DEF Deleted
  <2>2. q - 1 \in 1 .. Len(linkEvents') /\ linkEvents'[q - 1] = linkEvents[q] /\ q - 1 > p
    BY <1>2, <2>1
  <2> QED BY <2>1, <2>2 DEF Deleted
<1>4. ASSUME Deleted(c, i, 0), ~(e.type = "DEL" /\ e.ifname = c /\ e.index = i) PROVE Deleted(c, i, 0)'
  <2>1. PICK q \in 1 .. Len(linkEvents) : linkEvents[q].type = "DEL"
                                          /\ linkEvents[q].ifname = c /\ linkEvents[q].index = i
    BY <1>4 DEF Deleted
  <2>2. q # 1
    BY <1>1, <1>4, <2>1
  <2>3. q - 1 \in 1 .. Len(linkEvents') /\ linkEvents'[q - 1] = linkEvents[q] /\ q - 1 > 0
    BY <1>2, <2>1, <2>2
  <2> QED BY <2>1, <2>3 DEF Deleted
<1>5. Pending(c) => Pending(c)' \/ e.ifname = c
  BY <1>1, <1>2 DEF Pending
<1>6. Deleted(c, i, 0)' => Pending(c)'
  BY DEF Deleted, Pending
<1> QED BY <1>3, <1>4, <1>5, <1>6

\* Taking an event off keeps what the queue says true.
LEMMA EventsTakenOff ==
    ASSUME Shape, LastTells, Followed, NEW e, TakenOff(e)
    PROVE  LastTells' /\ Followed'
<1>1. /\ Len(linkEvents) \in Nat /\ Len(linkEvents) >= 1
      /\ Len(linkEvents') = Len(linkEvents) - 1 /\ links' = links
      /\ \A q \in 1 .. Len(linkEvents') : linkEvents'[q] = linkEvents[q + 1]
  BY Shifted DEF TakenOff
<1>2. \A q \in 1 .. Len(linkEvents) : \/ q = 1
                                      \/ q - 1 \in 1 .. Len(linkEvents') /\ linkEvents'[q - 1] = linkEvents[q]
  BY <1>1
<1>3. ASSUME NEW p \in 1 .. Len(linkEvents'),
             \A q \in 1 .. Len(linkEvents') : q > p => linkEvents'[q].ifname # linkEvents'[p].ifname
      PROVE  /\ linkEvents'[p].type = "NEW" =>
                    /\ links'[linkEvents'[p].ifname].index = linkEvents'[p].index
                    /\ linkEvents'[p].running = (links'[linkEvents'[p].ifname].state = "running")
             /\ linkEvents'[p].type = "DEL" => links'[linkEvents'[p].ifname].index = 0
  <2>1. p + 1 \in 1 .. Len(linkEvents) /\ linkEvents'[p] = linkEvents[p + 1]
    BY <1>1
  <2>2. ASSUME NEW q \in 1 .. Len(linkEvents), q > p + 1
        PROVE  linkEvents[q].ifname # linkEvents[p + 1].ifname
    <3>1. q - 1 \in 1 .. Len(linkEvents') /\ linkEvents'[q - 1] = linkEvents[q] /\ q - 1 > p
      BY <1>2, <2>2
    <3> QED BY <1>3, <2>1, <3>1
  <2> QED BY <1>1, <2>1, <2>2 DEF LastTells
<1>4. ASSUME NEW p \in 1 .. Len(linkEvents'), linkEvents'[p].type = "NEW"
      PROVE  \/ links'[linkEvents'[p].ifname].index = linkEvents'[p].index
             \/ Deleted(linkEvents[p].ifname, linkEvents[p].index, p)'
  <2>1. p + 1 \in 1 .. Len(linkEvents) /\ linkEvents'[p] = linkEvents[p + 1] /\ p \in Nat
    BY <1>1
  <2>2. PICK c, i : c = linkEvents'[p].ifname /\ i = linkEvents'[p].index
    OBVIOUS
  <2>3. links[c].index = i \/ Deleted(c, i, p + 1)
    BY <1>4, <2>1, <2>2 DEF Followed
  <2>4. links'[c].index = i \/ Deleted(c, i, p)'
    BY <1>1, <2>1, <2>3, DeletedShifted
  <2> QED BY <2>2, <2>4
<1>5. LastTells'
  BY <1>3 DEF LastTells
<1>6. Followed'
  BY <1>4 DEF Followed
<1> QED BY <1>5, <1>6

\* What is told of another netdev is still told.
LEMMA InStepOther ==
    ASSUME Shape, NEW e, TakenOff(e), NEW c, e.ifname # c, NEW i, NEW r, InStep(c, i, r)
    PROVE  InStep(c, i, r)'
<1>1. links' = links
  BY DEF TakenOff
<1>2. (Deleted(c, i, 0) => Deleted(c, i, 0)') /\ (Pending(c) => Pending(c)')
  BY DeletedShifted
<1> QED BY <1>1, <1>2 DEF InStep

\* The head of the queue is the netdev's state, or a later event tells it.
LEMMA HeadTells ==
    ASSUME Shape, LastTells, Followed, NEW e, TakenOff(e)
    PROVE  /\ e.type = "NEW" =>
                 /\ links[e.ifname].index = e.index \/ Deleted(e.ifname, e.index, 0)'
                 /\ InStep(e.ifname, e.index, e.running)'
           /\ e.type = "DEL" /\ ~Pending(e.ifname)' => links[e.ifname].index = 0
<1>1. /\ Len(linkEvents) \in Nat /\ Len(linkEvents) >= 1 /\ linkEvents[1] = e
      /\ Len(linkEvents') = Len(linkEvents) - 1 /\ links' = links
      /\ \A q \in 1 .. Len(linkEvents') : linkEvents'[q] = linkEvents[q + 1]
  BY Shifted DEF TakenOff
<1>2. 1 \in 1 .. Len(linkEvents)
  BY <1>1
<1>3. ASSUME ~Pending(e.ifname)'
      PROVE  \A q \in 1 .. Len(linkEvents) : q > 1 => linkEvents[q].ifname # e.ifname
  <2>1. PICK c : c = e.ifname
    OBVIOUS
  <2>2. ~Pending(c)'
    BY <1>3, <2>1
  <2>3. ASSUME NEW q \in 1 .. Len(linkEvents), q > 1 PROVE linkEvents[q].ifname # c
    <3>1. q - 1 \in 1 .. Len(linkEvents') /\ linkEvents'[q - 1] = linkEvents[q]
      BY <1>1, <2>3
    <3> QED BY <2>2, <3>1 DEF Pending
  <2> QED BY <2>1, <2>3
<1>4. ~Pending(e.ifname)' =>
         /\ e.type = "NEW" => links[e.ifname].index = e.index /\ e.running = (links[e.ifname].state = "running")
         /\ e.type = "DEL" => links[e.ifname].index = 0
  BY <1>1, <1>2, <1>3 DEF LastTells
<1>5. ASSUME e.type = "NEW" PROVE links[e.ifname].index = e.index \/ Deleted(e.ifname, e.index, 0)'
  <2>1. PICK c, i : c = e.ifname /\ i = e.index
    OBVIOUS
  <2>2. links[c].index = i \/ Deleted(c, i, 1)
    BY <1>1, <1>2, <1>5, <2>1 DEF Followed
  <2>3. Deleted(c, i, 0 + 1) => Deleted(c, i, 0)'
    BY DeletedShifted
  <2>4. Deleted(c, i, 1) => Deleted(c, i, 0)'
    BY <2>3
  <2> QED BY <2>1, <2>2, <2>4
<1>6. e.type = "NEW" => InStep(e.ifname, e.index, e.running)'
  BY <1>1, <1>4, <1>5 DEF InStep
<1> QED BY <1>4, <1>5, <1>6

\* Entry n, which the event e is about, is in step and served, or its
\* RTM_DELLINK is in flight.
LEMMA HandledEntry ==
    ASSUME Shape, Shape', GoneStopped, GoneStopped', Sync, Idle, NEW e, TakenOff(e),
           NEW n \in DOMAIN interfaces, interfaces[n] \in Interface, interfaces[n].ifname = e.ifname,
           linkEvent(n, e)
    PROVE  /\ InStep(interfaces[n].ifname, interfaces[n].ifindex, interfaces[n].running)'
           /\ Served(n)' \/ Deleted(interfaces[n].ifname, interfaces[n].ifindex, 0)'
<1>1. /\ DOMAIN interfaces' = DOMAIN interfaces
      /\ interfaces'[n] \in Interface /\ SameConfig(n)
      /\ Vanished(n, e) \/ Refreshed(n, e) \/ Ignored(n, e)
  BY LinkEventTable DEF TakenOff
<1>2. PICK d \in Ifnames : d = e.ifname
  BY DEF TakenOff, LinkEvent
<1>3. /\ interfaces[n].ifname = d /\ interfaces'[n].ifname = d
      /\ interfaces'[n].dhcpv4 = interfaces[n].dhcpv4 /\ interfaces'[n].arp = interfaces[n].arp
  BY <1>1, <1>2 DEF SameConfig
<1>4. LastTells /\ Followed /\ links' = links /\ e.index \in Ifindexes /\ e.index # 0 /\ e.running \in BOOLEAN
  BY ArpAssumption DEF Sync, TakenOff, LinkEvent
<1>5. Named(n) /\ Finished(n)
  BY <1>3, LifecycleAssumption DEF Named, Finished
<1>6. ASSUME NEW i, NEW r, interfaces'[n].ifindex = i, interfaces'[n].running = r, InStep(d, i, r)',
             Served(n)' \/ Deleted(d, i, 0)'
      PROVE  /\ InStep(interfaces[n].ifname, interfaces[n].ifindex, interfaces[n].running)'
             /\ Served(n)' \/ Deleted(interfaces[n].ifname, interfaces[n].ifindex, 0)'
  BY <1>3, <1>6
<1>7. CASE Vanished(n, e)
  <2>1. interfaces'[n].ifindex = 0 /\ interfaces'[n].running = FALSE /\ interfaces'[n].dhcp = FALSE
        /\ e.type = "DEL"
    BY <1>7 DEF Vanished
  <2>2. Served(n)'
    BY <2>1 DEF Served
  <2>3. ~Pending(d)' => links'[d].index = 0
    BY <1>2, <1>4, <2>1, HeadTells
  <2>4. links'[d].index = 0 => links'[d].state = "absent"
    BY DEF Shape, IndexedLinks
  <2>5. InStep(d, 0, FALSE)'
    BY <2>3, <2>4 DEF InStep
  <2> QED BY <1>6, <2>1, <2>2, <2>5
<1>8. CASE Refreshed(n, e)
  <2>1. /\ e.type = "NEW" /\ interfaces'[n].ifindex = e.index /\ interfaces'[n].running = e.running
        /\ interfaces'[n].dhcp = (e.running /\ interfaces[n].dhcpv4 = "relay" /\ d \in PresentNames)
        /\ proxyARP' = arpSetup(proxyARP, interfaces[n], e.running)
    BY <1>3, <1>8 DEF Refreshed
  <2>2. InStep(d, e.index, e.running)'
    BY <1>2, <1>4, <2>1, HeadTells
  <2>3. CASE d \in PresentNames
    <3>1. e.running /\ interfaces[n].arp = "relay" => d \in proxyARP'
      BY <1>3, <2>1, <2>3 DEF arpSetup
    <3>2. Served(n)'
      BY <1>3, <1>4, <2>1, <2>3, <3>1 DEF Served
    <3> QED BY <1>6, <2>1, <2>2, <3>2
  <2>4. CASE d \notin PresentNames
    <3>1. links[d].index = 0
      BY <2>4 DEF PresentNames, Shape, IndexedLinks
    <3>2. Deleted(d, e.index, 0)'
      BY <1>2, <1>4, <2>1, <3>1, HeadTells
    <3> QED BY <1>6, <2>1, <2>2, <3>2
  <2> QED BY <2>3, <2>4
<1>9. CASE Ignored(n, e)
  <2>1. PICK i, r : i = interfaces[n].ifindex /\ r = interfaces[n].running
    OBVIOUS
  <2>2. /\ interfaces'[n].ifindex = i /\ interfaces'[n].running = r
        /\ interfaces' = interfaces /\ proxyARP' = proxyARP
        /\ (e.type = "DEL" /\ i # e.index) \/ (e.type = "NEW" /\ i = e.index /\ r = e.running)
    BY <1>9, <2>1 DEF Ignored
  <2>3. Deleted(d, i, 0) => Deleted(d, i, 0)'
    BY <2>2, DeletedShifted
  <2>4. Served(n)' \/ Deleted(d, i, 0)'
    <3>1. Served(n) \/ Deleted(d, i, 0)
      BY <1>3, <1>5, <2>1 DEF Sync, ServedOrGone
    <3>2. Served(n) => Served(n)'
      BY <2>2 DEF Served
    <3> QED BY <2>3, <3>1, <3>2
  <2>5. CASE e.type = "NEW"
    <3>1. InStep(d, i, r)'
      BY <1>2, <1>4, <2>2, <2>5, HeadTells
    <3> QED BY <1>6, <2>2, <2>4, <3>1
  <2>6. CASE e.type = "DEL"
    <3>1. InStep(d, i, r)
      BY <1>3, <1>5, <2>1 DEF Sync, EntriesInStep
    <3>2. i # 0 => links'[d].index = i \/ Deleted(d, i, 0)'
      BY <1>4, <2>3, <3>1 DEF InStep
    <3>3. ASSUME ~Pending(d)' PROVE links'[d].index = i /\ r = (links'[d].state = "running")
      <4>1. links'[d].index = 0 /\ links'[d].state = "absent"
        BY <1>2, <1>4, <2>6, <3>3, HeadTells DEF Shape, IndexedLinks
      <4>2. ~Deleted(d, i, 0)'
        BY <3>3, DeletedShifted
      <4>3. i = 0
        BY <3>2, <4>1, <4>2
      <4>4. r = FALSE
        BY <2>1, <4>3 DEF GoneStopped, Interface
      <4> QED BY <4>1, <4>3, <4>4
    <3>4. InStep(d, i, r)'
      BY <3>2, <3>3 DEF InStep
    <3> QED BY <1>6, <2>2, <2>4, <3>4
  <2> QED BY <2>2, <2>5, <2>6
<1> QED BY <1>1, <1>7, <1>8, <1>9

\* An entry of another netdev is not touched.
LEMMA OtherEntry ==
    ASSUME Shape, Sync, NEW e, TakenOff(e), NEW m \in DOMAIN interfaces, Idle,
           interfaces[m].ifname # e.ifname, interfaces'[m] = interfaces[m],
           proxyARP \ {e.ifname} \subseteq proxyARP'
    PROVE  /\ Named(m) => InStep(interfaces[m].ifname, interfaces[m].ifindex, interfaces[m].running)'
           /\ Served(m)' \/ Deleted(interfaces[m].ifname, interfaces[m].ifindex, 0)'
<1>1. PICK c, i, r : c = interfaces[m].ifname /\ i = interfaces[m].ifindex /\ r = interfaces[m].running
  OBVIOUS
<1>2. c = interfaces'[m].ifname /\ i = interfaces'[m].ifindex /\ r = interfaces'[m].running
  BY <1>1
<1>3. Named(m) => InStep(c, i, r)'
  BY <1>1, InStepOther DEF Sync, EntriesInStep
<1>4. Served(m) \/ Deleted(c, i, 0)
  BY <1>1 DEF Sync, ServedOrGone, Finished
<1>5. Served(m) => Served(m)'
  BY DEF Served
<1>6. Deleted(c, i, 0) => Deleted(c, i, 0)'
  BY <1>1, DeletedShifted
<1> QED BY <1>2, <1>3, <1>4, <1>5, <1>6

\* Handling a link event brings its entry in step, or leaves it an event.
LEMMA HandleSync ==
    ASSUME DistinctNetdevs, Shape, Shape', GoneStopped, GoneStopped', Sync, handleLinkEvent
    PROVE  LastTells' /\ Followed' /\ EntriesInStep' /\ ServedOrGone'
<1>1. PICK e : e = Head(linkEvents)
  OBVIOUS
<1>2. /\ TakenOff(e) /\ Idle /\ UNCHANGED reload
      /\ \/ /\ IfacesNamed(e.ifname) = {}
            /\ UNCHANGED <<interfaces, proxyARP>>
         \/ \E n \in IfacesNamed(e.ifname) :
               n \in DOMAIN interfaces /\ interfaces[n] \in Interface /\ linkEvent(n, e)
  BY <1>1, HandledEvent DEF TakenOff
<1>3. LastTells' /\ Followed'
  BY <1>2, EventsTakenOff DEF Sync
<1>4. CASE IfacesNamed(e.ifname) = {} /\ UNCHANGED <<interfaces, proxyARP>>
  <2>1. \A m \in DOMAIN interfaces : interfaces[m].ifname # e.ifname
    BY <1>4 DEF IfacesNamed
  <2>2. ASSUME NEW m \in DOMAIN interfaces
        PROVE  /\ Named(m) => InStep(interfaces[m].ifname, interfaces[m].ifindex, interfaces[m].running)'
               /\ Served(m)' \/ Deleted(interfaces[m].ifname, interfaces[m].ifindex, 0)'
    BY <1>2, <1>4, <2>1, OtherEntry
  <2> QED BY <1>3, <1>4, <2>2 DEF EntriesInStep, ServedOrGone, Named
<1>5. ASSUME NEW n \in IfacesNamed(e.ifname), n \in DOMAIN interfaces, interfaces[n] \in Interface,
             linkEvent(n, e)
      PROVE  EntriesInStep' /\ ServedOrGone'
  <2>1. interfaces[n].ifname = e.ifname
    BY DEF IfacesNamed
  <2>2. /\ DOMAIN interfaces' = DOMAIN interfaces
        /\ \A m \in DOMAIN interfaces : m # n => interfaces'[m] = interfaces[m]
        /\ \A m \in DOMAIN interfaces : interfaces'[m].ifname = interfaces[m].ifname
        /\ Vanished(n, e) \/ Refreshed(n, e) \/ Ignored(n, e)
    BY <1>2, <1>5, LinkEventTable DEF TakenOff, SameConfig
  <2>3. proxyARP \ {e.ifname} \subseteq proxyARP'
    BY <2>1, <2>2 DEF Vanished, Refreshed, Ignored, arpSetup
  <2>4. Named(n)
    BY <1>5, LifecycleAssumption DEF Named, Interface
  <2>5. \A m \in DOMAIN interfaces : m # n => interfaces[m].ifname # e.ifname
    BY <1>5, <2>1, <2>4, NamesDiffer DEF Sync
  <2>6. ASSUME NEW m \in DOMAIN interfaces
        PROVE  /\ Named(m) => InStep(interfaces[m].ifname, interfaces[m].ifindex, interfaces[m].running)'
               /\ Served(m)' \/ Deleted(interfaces[m].ifname, interfaces[m].ifindex, 0)'
    <3>1. CASE m = n
      BY <1>2, <1>5, <2>1, <3>1, HandledEntry
    <3>2. CASE m # n
      BY <1>2, <2>2, <2>3, <2>5, <3>2, OtherEntry
    <3> QED BY <3>1, <3>2
  <2> QED BY <2>2, <2>6 DEF EntriesInStep, ServedOrGone, Named
<1> QED BY <1>2, <1>3, <1>4, <1>5

-----------------------------------------------------------------------------
(* Reloads and hosts leave links and events alone.                         *)

\* What the queue says stays true while links and queue are left alone.
LEMMA QueueKept ==
    ASSUME UNCHANGED <<links, linkEvents>>
    PROVE  /\ LastTells => LastTells'
           /\ Followed => Followed'
           /\ \A c, i, p : Deleted(c, i, p)' <=> Deleted(c, i, p)
           /\ \A c, i, r : InStep(c, i, r)' <=> InStep(c, i, r)
<1>1. LastTells => LastTells'
  BY DEF LastTells
<1>2. Followed => Followed'
  BY DEF Followed, Deleted
<1>3. \A c, i, p : Deleted(c, i, p)' <=> Deleted(c, i, p)
  BY DEF Deleted
<1>4. \A c, i, r : InStep(c, i, r)' <=> InStep(c, i, r)
  BY DEF InStep, Deleted, Pending
<1> QED BY <1>1, <1>2, <1>3, <1>4

\* Entries that keep their binding stay in step.
LEMMA StepsKept ==
    ASSUME Sync, UNCHANGED <<links, linkEvents>>,
           \A n \in DOMAIN interfaces' :
               \/ interfaces'[n].ifname = NoName
               \/ InStep(interfaces'[n].ifname, interfaces'[n].ifindex, interfaces'[n].running)
               \/ /\ n \in DOMAIN interfaces /\ interfaces'[n].ifname = interfaces[n].ifname
                  /\ interfaces'[n].ifindex = interfaces[n].ifindex
                  /\ interfaces'[n].running = interfaces[n].running
    PROVE  EntriesInStep'
<1> SUFFICES ASSUME NEW n \in DOMAIN interfaces', interfaces'[n].ifname # NoName
             PROVE  InStep(interfaces[n].ifname, interfaces[n].ifindex, interfaces[n].running)'
  BY DEF EntriesInStep, Named
<1>1. PICK c, i, r : c = interfaces'[n].ifname /\ i = interfaces'[n].ifindex /\ r = interfaces'[n].running
  OBVIOUS
<1>2. InStep(c, i, r)
  BY <1>1 DEF Sync, EntriesInStep, Named
<1>3. InStep(c, i, r)'
  BY <1>2, QueueKept
<1> QED BY <1>1, <1>3

\* Learning, forgetting and reconciling take no service away.
LEMMA HostSync ==
    ASSUME Sync, HostStep \/ UNCHANGED vars
    PROVE  LastTells' /\ Followed' /\ EntriesInStep' /\ ServedOrGone'
<1>1. UNCHANGED <<interfaces, links, linkEvents, reload>>
  BY HostTable DEF vars, linkVars, reloadVars
<1>2. proxyARP \subseteq proxyARP'
  BY DEF HostStep, Learn, Forget, reconcile, handleRouteEvent, Install, RemoveMirror, vars, mirrorVars
<1>3. LastTells' /\ Followed' /\ EntriesInStep'
  BY <1>1, QueueKept, StepsKept DEF Sync
<1>4. ServedOrGone'
  <2> SUFFICES ASSUME NEW n \in DOMAIN interfaces, Finished(n)
               PROVE  Served(n)' \/ Deleted(interfaces[n].ifname, interfaces[n].ifindex, 0)'
    BY <1>1 DEF ServedOrGone, Finished, Idle
  <2>1. PICK c, i : c = interfaces[n].ifname /\ i = interfaces[n].ifindex
    OBVIOUS
  <2>2. Served(n) \/ Deleted(c, i, 0)
    BY <2>1 DEF Sync, ServedOrGone
  <2>3. Served(n) => Served(n)'
    BY <1>1, <1>2 DEF Served
  <2>4. Deleted(c, i, 0) => Deleted(c, i, 0)'
    BY <1>1, QueueKept
  <2>5. c = interfaces'[n].ifname /\ i = interfaces'[n].ifindex
    BY <1>1, <2>1
  <2> QED BY <2>2, <2>3, <2>4, <2>5
<1> QED BY <1>3, <1>4

\* Starting a reload keeps the entries in step.
LEMMA StartSync ==
    ASSUME Shape, Sync, NEW file \in Files, ReloadStart(file)
    PROVE  LastTells' /\ Followed' /\ EntriesInStep' /\ ServedOrGone'
<1>1. /\ UNCHANGED <<links, linkEvents>> /\ reload'.phase = "parse"
      /\ DOMAIN interfaces' = DOMAIN interfaces
      /\ \A n \in DOMAIN interfaces : /\ interfaces'[n].ifname = interfaces[n].ifname
                                      /\ interfaces'[n].ifindex = interfaces[n].ifindex
                                      /\ interfaces'[n].running = interfaces[n].running
  BY StartTable
<1>2. LastTells' /\ Followed' /\ EntriesInStep'
  BY <1>1, QueueKept, StepsKept DEF Sync
<1>3. ServedOrGone'
  BY <1>1 DEF ServedOrGone, Finished, Idle
<1> QED BY <1>2, <1>3

\* Disabling the services for want of a slave keeps the entries in step.
LEMMA ModesSync ==
    ASSUME Shape, Sync, ReloadModes
    PROVE  LastTells' /\ Followed' /\ EntriesInStep' /\ ServedOrGone'
<1>1. /\ UNCHANGED <<links, linkEvents>> /\ reload'.phase \in {"idle", "serve"}
      /\ reload'.phase = "idle" => DOMAIN interfaces = {}
      /\ reload'.todo = DOMAIN interfaces
      /\ DOMAIN interfaces' = DOMAIN interfaces
      /\ \A n \in DOMAIN interfaces : /\ interfaces'[n].ifname = interfaces[n].ifname
                                      /\ interfaces'[n].ifindex = interfaces[n].ifindex
                                      /\ interfaces'[n].running = interfaces[n].running
  BY ModesTable
<1>2. LastTells' /\ Followed' /\ EntriesInStep'
  BY <1>1, QueueKept, StepsKept DEF Sync
<1>3. ServedOrGone'
  BY <1>1 DEF ServedOrGone, Finished, Idle
<1> QED BY <1>2, <1>3

\* An entry bound while parsing is bound to what the kernel has.
LEMMA ParseSync ==
    ASSUME Shape, Sync, NEW n \in Names, parseInterfaceJSON(n)
    PROVE  LastTells' /\ Followed' /\ EntriesInStep' /\ ServedOrGone'
<1> DEFINE iface == findOrCreateInterface(n)
           entry == reload.file[n]
<1>1. /\ DOMAIN interfaces' = DOMAIN interfaces \cup {n}
      /\ \A k \in DOMAIN interfaces : k # n => interfaces'[k] = interfaces[k]
      /\ UNCHANGED <<links, linkEvents>> /\ reload'.phase = "parse"
      /\ Taken(n, entry, iface) \/ Rejected(n, entry, iface)
  BY ParseTable
<1>2. (n \in DOMAIN interfaces /\ iface = interfaces[n]) \/ iface.ifname = NoName
  BY DEF findOrCreateInterface, NewInterface
<1> HIDE DEF iface
<1>3. CASE /\ interfaces'[n].ifname = iface.ifname /\ interfaces'[n].ifindex = iface.ifindex
           /\ interfaces'[n].running = iface.running
  <2>1. EntriesInStep'
    BY <1>1, <1>2, <1>3, StepsKept
  <2> QED BY <1>1, <2>1, QueueKept DEF Sync, ServedOrGone, Finished, Idle
<1>4. CASE Taken(n, entry, iface) /\ entry.ifname # {}
  <2>1. /\ interfaces'[n].ifindex = links[interfaces'[n].ifname].index
        /\ interfaces'[n].running = (links[interfaces'[n].ifname].state = "running")
    BY <1>4 DEF Taken, Bound
  <2>2. InStep(interfaces'[n].ifname, interfaces'[n].ifindex, interfaces'[n].running)
    BY <2>1 DEF InStep
  <2>3. EntriesInStep'
    BY <1>1, <2>2, StepsKept
  <2> QED BY <1>1, <2>3, QueueKept DEF Sync, ServedOrGone, Finished, Idle
<1> QED BY <1>1, <1>3, <1>4 DEF Taken, Rejected, Bound

\* An entry the reload is done with is served, or its netdev is gone.
LEMMA ServeSync ==
    ASSUME DistinctNetdevs, Shape, Shape', GoneStopped, Sync, NEW n \in Names, ReloadServe(n)
    PROVE  LastTells' /\ Followed' /\ EntriesInStep' /\ ServedOrGone'
<1>1. /\ n \in DOMAIN interfaces /\ reload.phase = "serve" /\ n \in reload.todo
      /\ \A m \in DOMAIN interfaces : m # n => interfaces'[m] = interfaces[m]
      /\ reload'.phase = IF reload.todo = {n} THEN "idle" ELSE "serve"
      /\ reload'.todo = reload.todo \ {n}
      /\ UNCHANGED <<links, linkEvents>>
      /\ ServedNow(n) \/ Closed(n)
  BY ServeTable
<1>2. \A m \in DOMAIN interfaces' : /\ m \in DOMAIN interfaces
                                    /\ interfaces'[m].ifname = interfaces[m].ifname
                                    /\ interfaces'[m].ifindex = interfaces[m].ifindex
                                    /\ interfaces'[m].running = interfaces[m].running
  BY <1>1 DEF ServedNow, Closed
<1>3. LastTells' /\ Followed' /\ EntriesInStep'
  BY <1>1, <1>2, QueueKept, StepsKept DEF Sync
<1>4. ASSUME NEW m \in DOMAIN interfaces', Finished(m)'
      PROVE  Served(m)' \/ Deleted(interfaces[m].ifname, interfaces[m].ifindex, 0)'
  <2>1. PICK c, i : c = interfaces[m].ifname /\ i = interfaces[m].ifindex
    OBVIOUS
  <2>2. c = interfaces'[m].ifname /\ i = interfaces'[m].ifindex /\ m \in DOMAIN interfaces
    BY <1>2, <2>1
  <2>3. Deleted(c, i, 0) => Deleted(c, i, 0)'
    BY <1>1, QueueKept
  <2>4. CASE m # n
    <3>1. Finished(m)
      BY <1>1, <1>4, <2>4 DEF Finished, Idle
    <3>2. Named(m)
      BY <2>2, <3>1, CompleteEntry
    <3>3. c # interfaces[n].ifname
      BY <1>1, <2>1, <2>2, <2>4, <3>2, NamesDiffer DEF Sync
    <3>4. proxyARP \ {interfaces[n].ifname} \subseteq proxyARP'
      BY <1>1 DEF ServedNow, Closed, arpSetup
    <3>5. Served(m) => Served(m)'
      BY <1>1, <2>1, <2>2, <2>4, <3>3, <3>4 DEF Served
    <3>6. Served(m) \/ Deleted(c, i, 0)
      BY <2>1, <2>2, <3>1 DEF Sync, ServedOrGone
    <3> QED BY <2>2, <2>3, <3>5, <3>6
  <2>5. CASE m = n
    <3>1. ServedNow(n)
      BY <1>1, <1>4, <2>5 DEF Closed
    <3>2. /\ interfaces'[n] \in Interface /\ interfaces[n] \in Interface
          /\ interfaces'[n].ifname = c /\ interfaces'[n].running = interfaces[n].running
          /\ interfaces'[n].arp = interfaces[n].arp /\ interfaces'[n].dhcpv4 = interfaces[n].dhcpv4
          /\ interfaces'[n].dhcp = (/\ interfaces[n].running /\ interfaces[n].dhcpv4 = "relay"
                                    /\ c \in PresentNames)
          /\ proxyARP' = arpSetup(proxyARP, interfaces[n], interfaces[n].running)
      BY <1>1, <2>1, <2>5, <3>1 DEF ServedNow, Shape, Phases
    <3>3. interfaces[n].running \in BOOLEAN /\ c \in Ifnames
      BY <2>1, <2>5, <3>2 DEF Interface
    <3>4. CASE c \in PresentNames
      <4>1. interfaces[n].running /\ interfaces[n].arp = "relay" => c \in proxyARP'
        BY <2>1, <2>5, <3>2, <3>4 DEF arpSetup
      <4>2. Served(n)'
        BY <3>2, <3>3, <3>4, <4>1 DEF Served
      <4> QED BY <2>5, <4>2
    <3>5. CASE ~interfaces[n].running
      <4>1. Served(n)'
        BY <3>2, <3>3, <3>5 DEF Served
      <4> QED BY <2>5, <4>1
    <3>6. CASE c \notin PresentNames /\ interfaces[n].running
      <4>1. i # 0
        BY <2>1, <2>2, <2>5, <3>6 DEF GoneStopped
      <4>2. links[c].index = 0
        BY <3>3, <3>6 DEF PresentNames, Shape, IndexedLinks
      <4>3. Named(n)
        BY <1>1, <3>2, LifecycleAssumption DEF Named, Interface
      <4>4. InStep(c, i, interfaces[n].running)
        BY <1>1, <2>1, <2>5, <4>3 DEF Sync, EntriesInStep
      <4>5. Deleted(c, i, 0)
        BY <4>1, <4>2, <4>4 DEF InStep
      <4> QED BY <2>2, <2>3, <4>5
    <3> QED BY <3>4, <3>5, <3>6
  <2> QED BY <2>4, <2>5
<1>5. ServedOrGone'
  BY <1>4 DEF ServedOrGone
<1> QED BY <1>3, <1>5

-----------------------------------------------------------------------------
\* Every step keeps the table in step with the kernel or its events.
LEMMA SyncStep ==
    ASSUME DistinctNetdevs, Shape, Shape', GoneStopped, GoneStopped', Sync, [Next]_vars
    PROVE  Sync'
<1>1. OwnName'
  BY NamesStep DEF Sync
<1>2. LastTells' /\ Followed' /\ EntriesInStep' /\ ServedOrGone'
  BY LinkSync, HandleSync, HostSync, StartSync, ModesSync, ParseSync, ServeSync DEF Next, HostStep
<1> QED BY <1>1, <1>2 DEF Sync

\* The daemon starts with an empty table, in step with anything.
LEMMA InitSync == ASSUME Init PROVE Sync
<1>1. DOMAIN interfaces = {} /\ Len(linkEvents) = 0
  BY DEF Init, NoFile
<1> QED BY <1>1 DEF Sync, OwnName, LastTells, Followed, EntriesInStep, ServedOrGone

\* If no two config keys name one netdev, then whenever the link events have been
\* handled the table agrees with the kernel and every running interface has the
\* services its modes ask for: an event handled late, against a netdev that has
\* gone or has been replaced meanwhile, is always put right by a later one.
THEOREM TableSettles == ASSUME DistinctNetdevs PROVE Spec => []Settled
<1>1. Shape /\ Sync => Settled
  <2> SUFFICES ASSUME Shape, Sync, Quiescent, NEW n \in DOMAIN interfaces
               PROVE  LET iface == interfaces[n]
                          link == links[iface.ifname]
                      IN  /\ iface.ifindex = link.index
                          /\ iface.running = (link.state = "running")
                          /\ iface.dhcp = (iface.running /\ iface.dhcpv4 = "relay")
                          /\ iface.running /\ iface.arp = "relay" => iface.ifname \in proxyARP
    BY DEF Settled
  <2>1. Finished(n) /\ Len(linkEvents) = 0
    BY DEF Quiescent, Finished
  <2>2. ~Pending(interfaces[n].ifname) /\ ~Deleted(interfaces[n].ifname, interfaces[n].ifindex, 0)
    BY <2>1 DEF Pending, Deleted
  <2>3. Named(n)
    BY <2>1, CompleteEntry
  <2>4. InStep(interfaces[n].ifname, interfaces[n].ifindex, interfaces[n].running)
    BY <2>3 DEF Sync, EntriesInStep
  <2>5. Served(n)
    BY <2>1, <2>2 DEF Sync, ServedOrGone
  <2> QED BY <2>2, <2>4, <2>5 DEF InStep, Served
<1> QED BY <1>1, InitSync, SyncStep, ShapeAlways, OwnersAlways, PTL DEF Spec

=============================================================================
