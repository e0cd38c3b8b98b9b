--------------------------- MODULE LifecycleProofs ---------------------------
(***************************************************************************)
(* Proofs about Lifecycle, for every set of netdevs, files and hosts and   *)
(* any number of reloads and link changes.                                 *)
(*                                                                         *)
(* A reload is spread over several steps with link changes in between, so  *)
(* no property of the table is inductive by itself: Phases says which      *)
(* entries a running reload has dealt with, and the other invariants what  *)
(* holds of an entry before and after its turn.                            *)
(***************************************************************************)
EXTENDS Lifecycle, TLAPS

-----------------------------------------------------------------------------
(* The inductive invariants.                                               *)

\* Only a netdev that is gone has index 0.
IndexedLinks == \A d \in Ifnames : links[d].index = 0 <=> links[d].state = "absent"

\* The entries a reload has not dealt with are on its list; those it accepted
\* are complete.
Phases ==
    /\ Idle => DOMAIN interfaces \subseteq reload.inuse
    /\ reload.phase = "parse" => reload.todo \subseteq DOMAIN reload.file \ reload.inuse
    /\ reload.phase = "serve" => /\ reload.todo \subseteq DOMAIN interfaces
                                 /\ DOMAIN interfaces \ reload.todo \subseteq reload.inuse
    /\ \A n \in DOMAIN interfaces \cap reload.inuse : interfaces[n] \in Interface

Shape == TypeOK /\ IndexedLinks /\ Phases

\* While files are parsed an entry has the defaults, until its own is applied.
Defaults ==
    reload.phase = "parse" =>
        \A n \in DOMAIN interfaces :
            /\ interfaces[n].arp = "relay" /\ interfaces[n].dhcpv4 = "relay"
            /\ n \notin reload.inuse => interfaces[n].learnRoutes = TRUE

\* An accepted entry is configured as its file says.
Accepted ==
    \A n \in DOMAIN interfaces \cap reload.inuse :
        /\ interfaces[n].learnRoutes = Stated(reload.file[n].routing, TRUE)
        /\ reload.file[n].master \subseteq {interfaces[n].master}
        /\ ~interfaces[n].master => interfaces[n].arp = "relay" /\ interfaces[n].dhcpv4 = "relay"

\* While no netdev has changed, an entry whose netdev exists is accepted in its
\* turn and never dropped.
Kept ==
    changes = 0 => \A n \in DOMAIN reload.file : Bindable(n) =>
        \/ n \in reload.inuse \cap DOMAIN interfaces
        \/ reload.phase = "parse" /\ n \in reload.todo

\* NothingStranded at every moment, and a route can still be withdrawn.
Tracked ==
    /\ \A k \in mirroredNeighs : k[2] \in abandoned \/ IfacesAt(k[2]) # {}
    /\ \A a \in Addrs : \/ hostRoute[a] \in abandoned \cup {NoRoute}
                        \/ /\ <<a, hostRoute[a]>> \in mirroredNeighs
                           /\ Routed(<<a, hostRoute[a]>>)

\* An index is, was or will be known as netdev d's.
Claims(i, d) ==
    \/ links[d].index = i
    \/ \E n \in DOMAIN interfaces : interfaces[n].ifindex = i /\ interfaces[n].ifname = d
    \/ \E p \in 1 .. Len(linkEvents) : linkEvents[p].index = i /\ linkEvents[p].ifname = d

OneOwner ==
    /\ \A i \in Ifindexes, c, d \in Ifnames : Claims(i, c) /\ Claims(i, d) => c = d
    /\ \A i \in Ifindexes, d \in Ifnames : Claims(i, d) => i \in used

\* An entry of a netdev that is gone does not run.
GoneStopped == \A n \in DOMAIN interfaces : interfaces[n].ifindex = 0 => ~interfaces[n].running

\* An entry the running reload passed over has lost its netdev.
PassedOver ==
    ~Idle => \A n \in (DOMAIN interfaces \cap DOMAIN reload.file) \ reload.inuse :
        /\ reload.phase = "parse" => n \notin reload.todo
        /\ reload.file[n].ifname = {interfaces[n].ifname}
        => interfaces[n].ifindex = 0 \/ links[interfaces[n].ifname].index # interfaces[n].ifindex

-----------------------------------------------------------------------------
(* Type correctness.                                                       *)

\* TypeOK by the variables it is about.
LinkType ==
    /\ links \in [Ifnames -> Link] /\ used \subseteq Ifindexes
    /\ linkEvents \in Seq(LinkEvent) /\ changes \in 0 .. MaxChanges
    /\ IndexedLinks

KernelType ==
    /\ proxyNeigh \subseteq Key
    /\ hostRoute \in [Addrs -> Ifindexes \cup {NoRoute}]
    /\ routeEvents \subseteq Ifindexes /\ proxyARP \subseteq Ifnames
    /\ mirroredNeighs \subseteq Key

EntryType(n) == interfaces[n] \in Interface \/ (~Idle /\ interfaces[n] = NewInterface)

TableType ==
    /\ DOMAIN interfaces \subseteq Names
    /\ \A n \in DOMAIN interfaces : EntryType(n)
    /\ abandoned \subseteq Ifindexes \cup {0}

ReloadType ==
    /\ reload \in [phase : {"idle", "parse", "serve"}, file : Files \cup {NoFile},
                   todo : SUBSET Names, inuse : SUBSET Names]
    /\ reload.inuse \subseteq DOMAIN reload.file
    /\ reloads \in 0 .. MaxReloads /\ reconcileScheduled \in BOOLEAN

\* Shape taken apart by variable, in a state and in the next one.
LEMMA ShapeParts ==
    /\ Shape <=> LinkType /\ KernelType /\ TableType /\ ReloadType /\ Phases
    /\ Shape' <=> LinkType' /\ KernelType' /\ TableType' /\ ReloadType' /\ Phases'
  BY DEF Shape, TypeOK, LinkType, KernelType, TableType, ReloadType, EntryType

\* Withdrawing keys keeps the kernel tables well formed.
LEMMA WithdrawType ==
    ASSUME KernelType, NEW K \in SUBSET Key, Withdraw(K)
    PROVE  /\ proxyNeigh' \subseteq Key
           /\ hostRoute' \in [Addrs -> Ifindexes \cup {NoRoute}]
           /\ routeEvents' \subseteq Ifindexes
<1> DEFINE D == {k \in K : Routed(k) /\ hostRoute[k[1]] = k[2]}
<1>1. \A k \in D : k[2] \in Ifindexes
  BY DEF Key
<1> HIDE DEF D
<1>2. /\ proxyNeigh' = proxyNeigh \ Proxies(K)
      /\ hostRoute' = [a \in Addrs |-> IF <<a, hostRoute[a]>> \in D THEN NoRoute ELSE hostRoute[a]]
      /\ routeEvents' = routeEvents \cup {k[2] : k \in D}
  BY DEF Withdraw, D
<1> QED BY <1>1, <1>2 DEF KernelType

\* clearMirroredState, or leaving the mirrors alone, keeps them well formed.
LEMMA MirrorType ==
    ASSUME KernelType, proxyARP' \subseteq Ifnames,
           KeepMirrors \/ \E i : clearMirroredState(i)
    PROVE  KernelType'
<1>1. CASE KeepMirrors
  BY <1>1 DEF KeepMirrors, KernelType
<1>2. ASSUME NEW i, clearMirroredState(i) PROVE KernelType'
  <2>1. KeysAt(i) \in SUBSET Key /\ mirroredNeighs' \subseteq Key
    BY <1>2 DEF KeysAt, clearMirroredState, KernelType
  <2>2. Withdraw(KeysAt(i))
    BY <1>2 DEF clearMirroredState
  <2> HIDE DEF KeysAt
  <2>3. /\ proxyNeigh' \subseteq Key
        /\ hostRoute' \in [Addrs -> Ifindexes \cup {NoRoute}]
        /\ routeEvents' \subseteq Ifindexes
    BY <2>1, <2>2, WithdrawType
  <2> QED BY <2>1, <2>3 DEF KernelType
<1> QED BY <1>1, <1>2

\* Installing mirrors keeps the kernel tables well formed.
LEMMA InstallType ==
    ASSUME KernelType, LinkType, NEW K, NEW N, Install(K, N)
    PROVE  /\ proxyNeigh' \subseteq Key /\ proxyARP' \subseteq Ifnames
           /\ hostRoute' \in [Addrs -> Ifindexes \cup {NoRoute}]
<1>1. \A p \in Proxies(K) : p = <<p[1], p[2]>> /\ p[1] \in Addrs
  BY DEF Proxies
<1>2. \A i : Present(i) => i \in Ifindexes
  BY DEF Present, LinkType, Link, IndexedLinks
<1>3. {p \in Proxies(K) : Present(p[2])} \subseteq Key
  BY <1>1, <1>2 DEF Key
<1>4. /\ proxyNeigh' = proxyNeigh \cup {p \in Proxies(K) : Present(p[2])}
      /\ proxyARP' = proxyARP \cup ({interfaces[n].ifname : n \in N} \cap PresentNames)
      /\ hostRoute' \in RoutesAfterReplace({k \in K : Up(k[2])})
  BY DEF Install
<1>5. proxyNeigh' \subseteq Key
  BY <1>3, <1>4 DEF KernelType
<1>6. proxyARP' \subseteq Ifnames
  BY <1>4 DEF KernelType, PresentNames
<1>7. hostRoute' \in [Addrs -> Ifindexes \cup {NoRoute}]
  BY <1>4 DEF RoutesAfterReplace
<1> QED BY <1>5, <1>6, <1>7

\* What a service switch makes of an entry and of the sysctls.
LEMMA SetupType ==
    ASSUME NEW iface \in Interface, NEW on \in BOOLEAN
    PROVE  /\ dhcpv4Setup(iface, on) \in Interface
           /\ \A f \in {"ifname", "ifindex", "running", "master", "learnRoutes", "dhcpv4", "arp"} :
                  dhcpv4Setup(iface, on)[f] = iface[f]
  BY DEF dhcpv4Setup, Interface, Mode

\* Stopping DHCP on an entry touches nothing else of it.
LEMMA StopType ==
    ASSUME NEW iface \in Interface
    PROVE  /\ dhcpv4Setup(iface, FALSE) \in Interface
           /\ dhcpv4Setup(iface, FALSE).dhcp = FALSE
           /\ \A f \in {"ifname", "ifindex", "running", "master", "learnRoutes", "dhcpv4", "arp"} :
                  dhcpv4Setup(iface, FALSE)[f] = iface[f]
  BY DEF dhcpv4Setup, Interface, Mode

\* arpSetup turns proxy ARP on for present netdevs only.
LEMMA SysctlType ==
    ASSUME proxyARP \subseteq Ifnames, NEW iface, NEW on
    PROVE  arpSetup(proxyARP, iface, on) \subseteq Ifnames
  BY DEF arpSetup, PresentNames

\* The first state has the shape.
LEMMA InitShape == ASSUME Init PROVE Shape
<1>1. LinkType
  <2>1. links \in Netdevs
    BY LifecycleAssumption DEF Init
  <2>2. used \subseteq Ifindexes
    BY <2>1 DEF Init, Netdevs, Link
  <2>3. IndexedLinks /\ links \in [Ifnames -> Link]
    BY <2>1 DEF IndexedLinks, Netdevs
  <2>4. linkEvents \in Seq(LinkEvent) /\ changes \in 0 .. MaxChanges
    BY LifecycleAssumption DEF Init
  <2> QED BY <2>2, <2>3, <2>4 DEF LinkType
<1>2. KernelType
  BY DEF Init, KernelType
<1>3. DOMAIN interfaces = {}
  BY DEF Init, NoFile
<1>4. TableType
  BY <1>3 DEF Init, TableType
<1>5. ReloadType
  <2>1. reconcileScheduled \in BOOLEAN
    BY DEF Init
  <2>2. reloads \in 0 .. MaxReloads
    BY LifecycleAssumption DEF Init
  <2> QED BY <2>1, <2>2 DEF Init, ReloadType
<1>6. Phases
  BY <1>3 DEF Init, Phases, Idle
<1> QED BY <1>1, <1>2, <1>4, <1>5, <1>6, ShapeParts

\* A change of a link to a well-formed one keeps the shape.
LEMMA LinkChangeShape ==
    ASSUME Shape, NEW d \in Ifnames, NEW i, NEW s, NEW type,
           LinkChange(d, i, s, type), used' \subseteq Ifindexes,
           [index |-> i, state |-> s] \in Link, i = 0 <=> s = "absent",
           type \in {"NEW", "DEL"},
           (IF type = "DEL" THEN links[d].index ELSE i) \in Ifindexes
    PROVE  Shape'
<1> USE ShapeParts
<1> DEFINE e == [type |-> type, ifname |-> d, index |-> IF type = "DEL" THEN links[d].index ELSE i,
                 running |-> s = "running"]
<1>1. e \in LinkEvent
  BY DEF LinkEvent
<1>2. linkEvents' = Append(linkEvents, e)
  BY DEF LinkChange
<1> HIDE DEF e
<1>3. linkEvents' \in Seq(LinkEvent)
  BY <1>1, <1>2 DEF LinkType
<1>4. links' = [links EXCEPT ![d] = [index |-> i, state |-> s]] /\ changes' = changes + 1 /\ changes < MaxChanges
  BY DEF LinkChange
<1>5. links' \in [Ifnames -> Link] /\ IndexedLinks'
  BY <1>4 DEF LinkType, IndexedLinks
<1>6. LinkType'
  <2>1. changes' \in 0 .. MaxChanges
    BY <1>4, LifecycleAssumption DEF LinkType
  <2> QED BY <1>3, <1>5, <2>1 DEF LinkType
<1>7. KernelType'
  BY DEF LinkChange, KernelType
<1>8. TableType' /\ ReloadType' /\ Phases'
  BY DEF LinkChange, TableType, ReloadType, Phases, EntryType, Idle, reloadVars
<1> QED BY <1>6, <1>7, <1>8

\* The kernel's link operations keep the shape.
LEMMA LinkShape ==
    ASSUME Shape, NEW d \in Ifnames,
           LinkDelete(d) \/ LinkCreate(d) \/ \E s \in {"down", "nocarrier", "running"} : LinkSet(d, s)
    PROVE  Shape'
<1>1. links[d] \in Link /\ (links[d].index = 0 <=> links[d].state = "absent") /\ used \subseteq Ifindexes
  BY DEF Shape, TypeOK, IndexedLinks
<1>2. CASE LinkDelete(d)
  <2>1. LinkChange(d, 0, "absent", "DEL") /\ used' = used /\ links[d].state # "absent"
    BY <1>2 DEF LinkDelete, PresentNames
  <2>2. [index |-> 0, state |-> "absent"] \in Link /\ links[d].index \in Ifindexes
    BY <1>1, <2>1 DEF Link
  <2> QED BY <1>1, <2>1, <2>2, LinkChangeShape
<1>3. CASE LinkCreate(d)
  <2>1. PICK i \in Ifindexes \ used : LinkChange(d, i, "running", "NEW") /\ used' = used \cup {i}
    BY <1>3 DEF LinkCreate
  <2>2. [index |-> i, state |-> "running"] \in Link /\ i # 0
    BY ArpAssumption DEF Link
  <2> QED BY <1>1, <2>1, <2>2, LinkChangeShape
<1>4. ASSUME NEW s \in {"down", "nocarrier", "running"}, LinkSet(d, s) PROVE Shape'
  <2>1. LinkChange(d, links[d].index, s, "NEW") /\ used' = used /\ links[d].state # "absent"
    BY <1>4 DEF LinkSet, PresentNames
  <2>2. [index |-> links[d].index, state |-> s] \in Link /\ links[d].index \in Ifindexes
    BY <1>1, <2>1 DEF Link
  <2>3. PICK i \in Ifindexes : i = links[d].index
    BY <2>2
  <2>4. i # 0 /\ LinkChange(d, i, s, "NEW") /\ [index |-> i, state |-> s] \in Link
    BY <2>1, <2>2, <2>3, ArpAssumption
  <2> QED BY <1>1, <2>1, <2>4, LinkChangeShape
<1> QED BY <1>2, <1>3, <1>4

\* What handleLinkEvent does to the entry n that an event is about: nothing to
\* its configuration, and to the rest by the kind of event.
Vanished(n, e) ==
    /\ e.type = "DEL" /\ interfaces[n].ifindex = e.index
    /\ interfaces'[n].ifindex = 0 /\ interfaces'[n].running = FALSE /\ interfaces'[n].dhcp = FALSE
    /\ proxyARP' = proxyARP \ {interfaces[n].ifname}
    /\ clearMirroredState(interfaces[n].ifindex)

Refreshed(n, e) ==
    LET iface == interfaces[n] IN
    /\ e.type = "NEW" /\ (iface.ifindex # e.index \/ iface.running # e.running)
    /\ interfaces'[n].ifindex = e.index /\ interfaces'[n].running = e.running
    /\ interfaces'[n].dhcp = (e.running /\ iface.dhcpv4 = "relay" /\ iface.ifname \in PresentNames)
    /\ proxyARP' = arpSetup(proxyARP, iface, e.running)
    /\ IF iface.ifindex = e.index THEN KeepMirrors ELSE clearMirroredState(iface.ifindex)

Ignored(n, e) ==
    /\ \/ e.type = "DEL" /\ interfaces[n].ifindex # e.index
       \/ e.type = "NEW" /\ interfaces[n].ifindex = e.index /\ interfaces[n].running = e.running
    /\ interfaces' = interfaces /\ proxyARP' = proxyARP /\ KeepMirrors

SameConfig(n) ==
    \A f \in {"ifname", "master", "learnRoutes", "dhcpv4", "arp"} : interfaces'[n][f] = interfaces[n][f]

\* linkEvent changes the entry it is for alone, in one of three ways.
LEMMA LinkEventTable ==
    ASSUME NEW n \in DOMAIN interfaces, interfaces[n] \in Interface,
           NEW e \in LinkEvent, linkEvent(n, e)
    PROVE  /\ DOMAIN interfaces' = DOMAIN interfaces
           /\ \A m \in DOMAIN interfaces : m # n => interfaces'[m] = interfaces[m]
           /\ interfaces'[n] \in Interface /\ SameConfig(n)
           /\ Vanished(n, e) \/ Refreshed(n, e) \/ Ignored(n, e)
<1> DEFINE iface == interfaces[n]
           now == [iface EXCEPT !.ifindex = e.index, !.running = e.running]
           gone == [now EXCEPT !.ifindex = 0, !.running = FALSE]
<1>1. /\ now \in Interface /\ now.ifindex = e.index /\ now.running = e.running
      /\ \A f \in {"ifname", "master", "learnRoutes", "dhcpv4", "arp"} : now[f] = iface[f]
  BY DEF Interface, LinkEvent
<1>2. /\ gone \in Interface /\ gone.ifindex = 0 /\ gone.running = FALSE
      /\ \A f \in {"ifname", "master", "learnRoutes", "dhcpv4", "arp"} : gone[f] = iface[f]
  BY DEF Interface, LinkEvent
<1>3. CASE /\ e.type = "DEL" /\ iface.ifindex = e.index
           /\ disableServices(n, gone)
           /\ clearMirroredState(iface.ifindex)
  <2> HIDE DEF gone
  <2>1. interfaces' = [interfaces EXCEPT ![n] = dhcpv4Setup(gone, FALSE)]
    BY <1>3 DEF disableServices
  <2>2. proxyARP' = proxyARP \ {iface.ifname}
    BY <1>3 DEF disableServices, arpSetup
  <2>3. /\ interfaces'[n] \in Interface /\ interfaces'[n].dhcp = FALSE
        /\ \A f \in {"ifname", "ifindex", "running", "master", "learnRoutes", "dhcpv4", "arp"} :
               interfaces'[n][f] = gone[f]
    BY <1>2, <2>1, StopType
  <2>4. SameConfig(n)
    BY <1>2, <2>3 DEF SameConfig
  <2>5. Vanished(n, e)
    BY <1>2, <1>3, <2>2, <2>3 DEF Vanished
  <2> QED BY <2>1, <2>3, <2>4, <2>5
<1>4. CASE /\ e.type = "NEW" /\ (iface.ifindex # e.index \/ iface.running # e.running)
           /\ reloadServices(n, now)
           /\ IF iface.ifindex = e.index THEN KeepMirrors ELSE clearMirroredState(iface.ifindex)
  <2> HIDE DEF now
  <2>0. now.running \in BOOLEAN
    BY <1>1 DEF Interface
  <2>1. interfaces' = [interfaces EXCEPT ![n] = dhcpv4Setup(now, now.running)]
    BY <1>4 DEF reloadServices
  <2>2. proxyARP' = arpSetup(proxyARP, iface, e.running)
    BY <1>1, <1>4 DEF reloadServices, arpSetup
  <2>3. /\ interfaces'[n] = dhcpv4Setup(now, now.running)
        /\ dhcpv4Setup(now, now.running).dhcp
             = (now.running /\ now.dhcpv4 = "relay" /\ now.ifname \in PresentNames)
    BY <1>1, <2>1 DEF dhcpv4Setup, Interface
  <2>4. interfaces'[n] \in Interface /\ SameConfig(n)
    BY <1>1, <2>0, <2>3, SetupType DEF SameConfig
  <2>5. Refreshed(n, e)
    BY <1>1, <1>4, <2>0, <2>2, <2>3, SetupType DEF Refreshed
  <2> QED BY <2>1, <2>4, <2>5
<1>5. CASE /\ \/ e.type = "DEL" /\ iface.ifindex # e.index
              \/ e.type = "NEW" /\ iface.ifindex = e.index /\ iface.running = e.running
           /\ UNCHANGED <<interfaces, proxyARP>> /\ KeepMirrors
  BY <1>5 DEF Ignored, SameConfig
<1> QED BY <1>3, <1>4, <1>5 DEF linkEvent

\* The event at the head of the queue, for the entry it is about, if there is one.
LEMMA HandledEvent ==
    ASSUME Shape, handleLinkEvent
    PROVE  /\ Idle /\ linkEvents # <<>> /\ linkEvents' = Tail(linkEvents)
           /\ Head(linkEvents) \in LinkEvent
           /\ UNCHANGED <<links, used, changes, reconcileScheduled, reload, reloads, abandoned>>
           /\ \/ /\ IfacesNamed(Head(linkEvents).ifname) = {}
                 /\ UNCHANGED <<interfaces, proxyARP>> /\ KeepMirrors
              \/ \E n \in IfacesNamed(Head(linkEvents).ifname) :
                    n \in DOMAIN interfaces /\ interfaces[n] \in Interface
                    /\ linkEvent(n, Head(linkEvents))
<1>1. Idle /\ linkEvents # <<>> /\ linkEvents \in Seq(LinkEvent)
  BY DEF handleLinkEvent, Shape, TypeOK
<1>2. \A n \in DOMAIN interfaces : interfaces[n] \in Interface
  BY <1>1 DEF Shape, TypeOK
<1>3. Head(linkEvents) \in LinkEvent
  BY <1>1
<1> QED BY <1>1, <1>2, <1>3 DEF handleLinkEvent, reloadVars, IfacesNamed

\* Handling a link event keeps the shape.
LEMMA HandleShape == ASSUME Shape, handleLinkEvent PROVE Shape'
<1> USE ShapeParts
<1>1. /\ Idle /\ linkEvents # <<>> /\ linkEvents' = Tail(linkEvents)
      /\ UNCHANGED <<links, used, changes, reconcileScheduled, reload, reloads, abandoned>>
  BY HandledEvent
<1>2. LinkType'
  BY <1>1 DEF LinkType, IndexedLinks
<1>3. ReloadType'
  BY <1>1 DEF ReloadType
<1>4. KernelType /\ proxyARP \subseteq Ifnames
  BY DEF KernelType
<1>5. CASE UNCHANGED <<interfaces, proxyARP>> /\ KeepMirrors
  <2>1. KernelType'
    BY <1>4, <1>5, MirrorType
  <2>2. TableType' /\ Phases'
    BY <1>1, <1>5 DEF TableType, Phases, EntryType, Idle
  <2> QED BY <1>2, <1>3, <2>1, <2>2
<1>6. ASSUME NEW n \in DOMAIN interfaces, interfaces[n] \in Interface,
             NEW e \in LinkEvent, linkEvent(n, e)
      PROVE  Shape'
  <2>1. /\ DOMAIN interfaces' = DOMAIN interfaces
        /\ \A m \in DOMAIN interfaces : m # n => interfaces'[m] = interfaces[m]
        /\ interfaces'[n] \in Interface
        /\ Vanished(n, e) \/ Refreshed(n, e) \/ Ignored(n, e)
    BY <1>6, LinkEventTable
  <2>2. /\ proxyARP' \subseteq Ifnames
        /\ KeepMirrors \/ \E i : clearMirroredState(i)
    BY <1>4, <2>1, SysctlType DEF Vanished, Refreshed, Ignored
  <2>3. KernelType'
    BY <1>4, <2>2, MirrorType
  <2>4. TableType' /\ Phases'
    BY <1>1, <2>1 DEF TableType, Phases, EntryType, Idle
  <2> QED BY <1>2, <1>3, <2>3, <2>4
<1> QED BY <1>5, <1>6, HandledEvent

\* Steps of the hosts and of the self-healing.
HostStep ==
    \/ \E a \in Addrs, n \in DOMAIN interfaces : Learn(a, n) \/ Forget(a, n)
    \/ reconcile
    \/ \E i \in Ifindexes : handleRouteEvent(i)

\* Steps of hosts and of the reconcile touch the kernel tables only.
LEMMA HostShape ==
    ASSUME Shape, HostStep
    PROVE  Shape'
<1> USE ShapeParts
<1>1. UNCHANGED <<interfaces, links, used, linkEvents, changes, reload, reloads, abandoned>>
  BY DEF HostStep, Learn, Forget, reconcile, handleRouteEvent, linkVars, reloadVars
<1>2. LinkType' /\ TableType' /\ Phases'
  BY <1>1 DEF LinkType, TableType, Phases, IndexedLinks, EntryType, Idle
<1>7. ReloadType'
  <2>1. reconcileScheduled' \in BOOLEAN
    BY DEF HostStep, Learn, Forget, reconcile, handleRouteEvent, ReloadType
  <2> QED BY <1>1, <2>1 DEF ReloadType
<1>3. ASSUME NEW a \in Addrs, NEW n \in DOMAIN interfaces, Learn(a, n) PROVE KernelType'
  <2>1. PICK i : i = interfaces[n].ifindex
    OBVIOUS
  <2>2. i \in Ifindexes /\ Idle
    BY <1>3, <2>1 DEF Learn, TableType, EntryType, Interface
  <2>3. PICK K : K = {<<a, i>>}
    OBVIOUS
  <2>4. /\ mirroredNeighs' = mirroredNeighs \cup K /\ routeEvents' = routeEvents
        /\ \E N : Install(K, N)
    BY <1>3, <2>1, <2>3 DEF Learn
  <2>5. /\ proxyNeigh' \subseteq Key /\ proxyARP' \subseteq Ifnames
        /\ hostRoute' \in [Addrs -> Ifindexes \cup {NoRoute}]
    BY <2>4, InstallType
  <2>6. mirroredNeighs' \subseteq Key
    BY <2>2, <2>3, <2>4 DEF KernelType, Key
  <2> QED BY <2>4, <2>5, <2>6 DEF KernelType
<1>4. ASSUME NEW a \in Addrs, NEW n \in DOMAIN interfaces, Forget(a, n) PROVE KernelType'
  <2>1. PICK i : i = interfaces[n].ifindex
    OBVIOUS
  <2>2. <<a, i>> \in Key
    BY <1>4, <2>1 DEF Forget, KernelType, TableType, EntryType, Interface, Key
  <2>3. PICK K \in SUBSET Key : K = {<<a, i>>}
    BY <2>2
  <2>4. mirroredNeighs' = mirroredNeighs \ K /\ Withdraw(K) /\ proxyARP' = proxyARP
    BY <1>4, <2>1, <2>3 DEF Forget, RemoveMirror
  <2>5. /\ proxyNeigh' \subseteq Key /\ routeEvents' \subseteq Ifindexes
        /\ hostRoute' \in [Addrs -> Ifindexes \cup {NoRoute}]
    BY <2>4, WithdrawType
  <2> QED BY <2>4, <2>5 DEF KernelType
<1>5. ASSUME reconcile PROVE KernelType'
  <2>1. UNCHANGED <<routeEvents, mirroredNeighs>> /\ \E K, N : Install(K, N)
    BY <1>5 DEF reconcile
  <2>2. /\ proxyNeigh' \subseteq Key /\ proxyARP' \subseteq Ifnames
        /\ hostRoute' \in [Addrs -> Ifindexes \cup {NoRoute}]
    BY <2>1, InstallType DEF KernelType
  <2> QED BY <2>1, <2>2 DEF KernelType
<1>6. ASSUME NEW i \in Ifindexes, handleRouteEvent(i) PROVE KernelType'
  BY <1>6 DEF handleRouteEvent, KernelType
<1> QED BY <1>2, <1>3, <1>4, <1>5, <1>6, <1>7 DEF HostStep

\* The defaults leave what an entry is bound to alone.
LEMMA StartTable ==
    ASSUME Shape, NEW file \in Files, ReloadStart(file)
    PROVE  /\ DOMAIN interfaces' = DOMAIN interfaces
           /\ \A n \in DOMAIN interfaces :
                 /\ interfaces'[n] \in Interface
                 /\ \A f \in {"ifname", "ifindex", "running", "master", "dhcp"} :
                        interfaces'[n][f] = interfaces[n][f]
                 /\ interfaces'[n].arp = "relay" /\ interfaces'[n].dhcpv4 = "relay"
                 /\ interfaces'[n].learnRoutes = TRUE
           /\ UNCHANGED <<proxyNeigh, hostRoute, routeEvents, proxyARP, mirroredNeighs, abandoned>>
           /\ UNCHANGED <<links, used, linkEvents, changes, reconcileScheduled>>
           /\ Idle /\ reload'.phase = "parse" /\ reload'.file = file
           /\ reload'.todo = DOMAIN file /\ reload'.inuse = {}
<1>1. \A n \in DOMAIN interfaces : interfaces[n] \in Interface
  BY DEF Shape, TypeOK, ReloadStart
<1>2. interfaces' = [n \in DOMAIN interfaces |-> setInterfaceDefaults(interfaces[n])]
  BY DEF ReloadStart
<1>3. ASSUME NEW n \in DOMAIN interfaces
      PROVE  /\ interfaces'[n] \in Interface
             /\ \A f \in {"ifname", "ifindex", "running", "master", "dhcp"} :
                    interfaces'[n][f] = interfaces[n][f]
             /\ interfaces'[n].arp = "relay" /\ interfaces'[n].dhcpv4 = "relay"
             /\ interfaces'[n].learnRoutes = TRUE
  BY <1>1, <1>2 DEF setInterfaceDefaults, Interface, Mode
<1> QED BY <1>2, <1>3 DEF ReloadStart, mirrorVars, linkVars

\* Starting a reload keeps the shape.
LEMMA StartShape == ASSUME Shape, NEW file \in Files, ReloadStart(file) PROVE Shape'
<1> USE ShapeParts
<1>1. LinkType' /\ KernelType'
  BY StartTable DEF LinkType, KernelType, IndexedLinks
<1>2. TableType'
  BY StartTable DEF TableType, EntryType
<1>3. ReloadType'
  <2>1. DOMAIN file \subseteq Names
    BY LifecycleAssumption
  <2>2. /\ reload' = [phase |-> "parse", file |-> file, todo |-> DOMAIN file, inuse |-> {}]
        /\ reloads' = reloads + 1 /\ reloads < MaxReloads
    BY DEF ReloadStart
  <2>3. reloads' \in 0 .. MaxReloads
    BY <2>2, LifecycleAssumption DEF ReloadType
  <2> QED BY <2>1, <2>2, <2>3, StartTable DEF ReloadType
<1>4. Phases'
  BY StartTable DEF Phases, Idle
<1> QED BY <1>1, <1>2, <1>3, <1>4

\* ReloadModes changes modes only, and none of them while there is a slave.
LEMMA ModesTable ==
    ASSUME Shape, ReloadModes
    PROVE  /\ DOMAIN interfaces' = DOMAIN interfaces
           /\ \A n \in DOMAIN interfaces :
                 /\ interfaces[n] \in Interface => interfaces'[n] \in Interface
                 /\ interfaces[n] = NewInterface => interfaces'[n] = NewInterface
                 /\ \A f \in {"ifname", "ifindex", "running", "master", "learnRoutes", "dhcp"} :
                        interfaces'[n][f] = interfaces[n][f]
                 /\ ~interfaces[n].master => interfaces'[n] = interfaces[n]
           /\ UNCHANGED <<proxyNeigh, hostRoute, routeEvents, proxyARP, mirroredNeighs, abandoned>>
           /\ UNCHANGED <<links, used, linkEvents, changes, reconcileScheduled, reloads>>
           /\ reload.phase = "parse" /\ reload.todo = {}
           /\ reload'.phase \in {"idle", "serve"} /\ reload'.file = reload.file
           /\ reload'.phase = "idle" => DOMAIN interfaces = {}
           /\ reload'.todo = DOMAIN interfaces /\ reload'.inuse = reload.inuse
<1> DEFINE slaves == {n \in DOMAIN interfaces : ~interfaces[n].master}
           off(n) == [interfaces[n] EXCEPT !.dhcpv4 = "disabled", !.arp = "disabled"]
<1>1. interfaces' = IF slaves # {} THEN interfaces ELSE [n \in DOMAIN interfaces |-> off(n)]
  BY DEF ReloadModes
<1>2. DOMAIN interfaces' = DOMAIN interfaces
  BY <1>1
<1>3. ASSUME NEW n \in DOMAIN interfaces
      PROVE  /\ interfaces[n] \in Interface => interfaces'[n] \in Interface
             /\ interfaces[n] = NewInterface => interfaces'[n] = NewInterface
             /\ \A f \in {"ifname", "ifindex", "running", "master", "learnRoutes", "dhcp"} :
                    interfaces'[n][f] = interfaces[n][f]
             /\ ~interfaces[n].master => interfaces'[n] = interfaces[n]
  <2>1. CASE slaves # {}
    BY <1>1, <2>1
  <2>2. CASE slaves = {}
    <3>1. interfaces[n].master /\ interfaces'[n] = off(n)
      BY <1>1, <2>2
    <3>2. interfaces[n] # NewInterface
      BY <3>1 DEF NewInterface
    <3>3. interfaces[n] \in Interface
      BY <3>2 DEF Shape, TypeOK
    <3>4. /\ off(n) \in Interface
          /\ \A f \in {"ifname", "ifindex", "running", "master", "learnRoutes", "dhcp"} :
                 off(n)[f] = interfaces[n][f]
      BY <3>3 DEF Interface, Mode
    <3> QED BY <3>1, <3>2, <3>4
  <2> QED BY <2>1, <2>2
<1>4. /\ reload.phase = "parse" /\ reload.todo = {}
      /\ reload' = [reload EXCEPT !.phase = IF interfaces = NoFile THEN "idle" ELSE "serve",
                                  !.todo = DOMAIN interfaces]
  BY DEF ReloadModes
<1>5. /\ reload'.phase \in {"idle", "serve"} /\ reload'.file = reload.file
      /\ reload'.phase = "idle" => interfaces = NoFile
      /\ reload'.todo = DOMAIN interfaces /\ reload'.inuse = reload.inuse
  BY <1>4, ShapeParts DEF ReloadType
<1>6. interfaces = NoFile => DOMAIN interfaces = {}
  BY DEF NoFile
<1>7. /\ UNCHANGED <<proxyNeigh, hostRoute, routeEvents, proxyARP, mirroredNeighs, abandoned>>
      /\ UNCHANGED <<links, used, linkEvents, changes, reconcileScheduled, reloads>>
  BY DEF ReloadModes, mirrorVars, linkVars
<1> HIDE DEF slaves, off
<1> QED BY <1>2, <1>3, <1>4, <1>5, <1>6, <1>7

\* Disabling the services for want of a slave keeps the shape.
LEMMA ModesShape == ASSUME Shape, ReloadModes PROVE Shape'
<1> USE ShapeParts
<1>1. LinkType' /\ KernelType'
  BY ModesTable DEF LinkType, KernelType, IndexedLinks
<1>2. reload' \in [phase : {"idle", "parse", "serve"}, file : Files \cup {NoFile},
                   todo : SUBSET Names, inuse : SUBSET Names]
  BY DEF ReloadModes, ReloadType, TableType
<1>3. ReloadType'
  BY <1>2, ModesTable DEF ReloadType
<1>4. TableType' /\ Phases'
  BY ModesTable DEF TableType, EntryType, Phases, Idle
<1> QED BY <1>1, <1>3, <1>4

\* A stated setting is a value, an unstated one leaves the old value.
LEMMA StatedValue ==
    ASSUME NEW S, NEW option \in Optional(S), NEW old
    PROVE  \/ option = {} /\ Stated(option, old) = old
           \/ option = {Stated(option, old)} /\ Stated(option, old) \in S
  BY DEF Optional, Stated

\* An entry that may still be waiting for its netdev's name.
Draft ==
    [ifname : Ifnames \cup {NoName}, ifindex : Ifindexes \cup {0}, running : BOOLEAN,
     master : BOOLEAN, learnRoutes : BOOLEAN, dhcpv4 : Mode, arp : Mode, dhcp : BOOLEAN]

\* A draft with a name is an entry.
LEMMA DraftEntry ==
    /\ NewInterface \in Draft /\ Interface \subseteq Draft
    /\ \A iface \in Draft : iface.ifname # NoName => iface \in Interface
  BY LifecycleAssumption DEF NewInterface, Interface, Draft, Mode

\* What parseInterfaceJSON makes of an entry it accepts, and of the rest of the
\* state in that case and in the other.
Bound(n, entry, iface) ==
    IF entry.ifname = {}
    THEN /\ iface.ifname # NoName /\ interfaces'[n].ifname = iface.ifname
         /\ interfaces'[n].ifindex = iface.ifindex /\ interfaces'[n].running = iface.running
    ELSE LET d == interfaces'[n].ifname IN
         /\ entry.ifname = {d} /\ d \in PresentNames
         /\ interfaces'[n].ifindex = links[d].index
         /\ interfaces'[n].running = (links[d].state = "running")

Taken(n, entry, iface) ==
    /\ reload'.inuse = reload.inuse \cup {n}
    /\ interfaces'[n] \in Interface /\ Bound(n, entry, iface)
    /\ interfaces'[n].master = Stated(entry.master, iface.master)
    /\ interfaces'[n].learnRoutes = Stated(entry.routing, iface.learnRoutes)
    /\ interfaces'[n].arp = iface.arp /\ interfaces'[n].dhcpv4 = iface.dhcpv4
    /\ abandoned' = IF interfaces'[n].learnRoutes THEN abandoned
                    ELSE abandoned \cup {interfaces'[n].ifindex}
    /\ IF /\ iface.ifindex # 0
          /\ <<interfaces'[n].ifname, interfaces'[n].ifindex>> # <<iface.ifname, iface.ifindex>>
       THEN proxyARP' = proxyARP \ {iface.ifname} /\ clearMirroredState(iface.ifindex)
       ELSE proxyARP' = proxyARP /\ KeepMirrors

Rejected(n, entry, iface) ==
    /\ reload'.inuse = reload.inuse /\ interfaces'[n] = iface
    /\ IF entry.ifname = {} THEN iface.ifname = NoName ELSE entry.ifname \cap PresentNames = {}
    /\ UNCHANGED <<abandoned, proxyARP>> /\ KeepMirrors

\* What parsing the file's entry n does to the table and to the reload.
LEMMA ParseTable ==
    ASSUME Shape, NEW n \in Names, parseInterfaceJSON(n)
    PROVE  LET iface == findOrCreateInterface(n)
               entry == reload.file[n]
           IN
           /\ DOMAIN interfaces' = DOMAIN interfaces \cup {n}
           /\ \A m \in DOMAIN interfaces : m # n => interfaces'[m] = interfaces[m]
           /\ reload.phase = "parse" /\ n \in reload.todo
           /\ n \in DOMAIN reload.file /\ reload.file \in Files
           /\ entry \in Entry /\ iface \in Draft /\ (iface \in Interface \/ iface = NewInterface)
           /\ reload'.phase = "parse" /\ reload'.file = reload.file
           /\ reload'.todo = reload.todo \ {n}
           /\ reload' \in [phase : {"idle", "parse", "serve"}, file : Files \cup {NoFile},
                           todo : SUBSET Names, inuse : SUBSET Names]
           /\ UNCHANGED <<links, used, linkEvents, changes, reconcileScheduled, reloads>>
           /\ Taken(n, entry, iface) \/ Rejected(n, entry, iface)
<1> DEFINE iface == findOrCreateInterface(n)
           entry == reload.file[n]
           d == Stated(entry.ifname, iface.ifname)
           fresh == IF entry.ifname = {} THEN iface
                    ELSE [iface EXCEPT !.ifname = d, !.ifindex = links[d].index,
                                       !.running = links[d].state = "running"]
           new == [fresh EXCEPT !.master = Stated(entry.master, iface.master),
                                !.learnRoutes = Stated(entry.routing, iface.learnRoutes)]
           ok == IF entry.ifname = {} THEN iface.ifname # NoName
                                      ELSE entry.ifname \subseteq PresentNames
           moved == /\ ok /\ iface.ifindex # 0
                    /\ <<new.ifname, new.ifindex>> # <<iface.ifname, iface.ifindex>>
<1> USE ShapeParts
<1>1. reload.phase = "parse" /\ n \in reload.todo /\ UNCHANGED <<links, used, linkEvents, changes, reconcileScheduled, reloads>>
  BY DEF parseInterfaceJSON, linkVars
<1>2. n \in DOMAIN reload.file
  BY <1>1 DEF Phases
<1>3. reload.file \in Files /\ entry \in Entry
  <2>1. DOMAIN NoFile = {}
    BY DEF NoFile
  <2>2. reload.file \in Files
    BY <1>2, <2>1 DEF ReloadType
  <2> QED BY <1>2, <2>2, LifecycleAssumption
<1>4. iface \in Draft /\ (iface \in Interface \/ iface = NewInterface)
  BY DraftEntry DEF findOrCreateInterface, TableType, EntryType
<1>5. /\ reload' = [reload EXCEPT !.todo = @ \ {n}, !.inuse = IF ok THEN @ \cup {n} ELSE @]
      /\ interfaces' = TableWith(n, IF moved THEN dhcpv4Setup(new, FALSE)
                                    ELSE IF ok THEN new ELSE iface)
      /\ proxyARP' = IF moved THEN arpSetup(proxyARP, iface, FALSE) ELSE proxyARP
      /\ IF moved THEN clearMirroredState(iface.ifindex) ELSE KeepMirrors
      /\ abandoned' = IF ok /\ ~new.learnRoutes THEN abandoned \cup {new.ifindex} ELSE abandoned
  BY DEF parseInterfaceJSON, Configured
<1> HIDE DEF iface, entry, new, ok, moved
<1>6. /\ reload'.phase = "parse" /\ reload'.file = reload.file
      /\ reload'.todo = reload.todo \ {n}
      /\ reload'.inuse = IF ok THEN reload.inuse \cup {n} ELSE reload.inuse
      /\ reload' \in [phase : {"idle", "parse", "serve"}, file : Files \cup {NoFile},
                      todo : SUBSET Names, inuse : SUBSET Names]
  <2>1. reload \in [phase : {"idle", "parse", "serve"}, file : Files \cup {NoFile},
                    todo : SUBSET Names, inuse : SUBSET Names]
    BY DEF ReloadType
  <2> QED BY <1>1, <1>5, <2>1
<1>7. /\ DOMAIN interfaces' = DOMAIN interfaces \cup {n}
      /\ \A m \in DOMAIN interfaces : m # n => interfaces'[m] = interfaces[m]
      /\ interfaces'[n] = IF moved THEN dhcpv4Setup(new, FALSE) ELSE IF ok THEN new ELSE iface
  BY <1>5 DEF TableWith
<1>8. CASE ok
  <2>1. /\ entry.ifname \in Optional(Ifnames) /\ entry.master \in Optional(BOOLEAN)
        /\ entry.routing \in Optional(BOOLEAN)
    BY <1>3 DEF Entry
  <2>2. PICK a : a = Stated(entry.master, iface.master)
    OBVIOUS
  <2>3. PICK r : r = Stated(entry.routing, iface.learnRoutes)
    OBVIOUS
  <2>4. a \in BOOLEAN /\ r \in BOOLEAN
    BY <1>4, <2>1, <2>2, <2>3, StatedValue DEF Draft
  <2>5. /\ fresh \in Interface
        /\ fresh.arp = iface.arp /\ fresh.dhcpv4 = iface.dhcpv4
        /\ IF entry.ifname = {}
           THEN /\ iface.ifname # NoName /\ fresh.ifname = iface.ifname
                /\ fresh.ifindex = iface.ifindex /\ fresh.running = iface.running
           ELSE /\ entry.ifname = {fresh.ifname} /\ fresh.ifname \in PresentNames
                /\ fresh.ifindex = links[fresh.ifname].index
                /\ fresh.running = (links[fresh.ifname].state = "running")
    <3>1. CASE entry.ifname = {}
      BY <1>4, <1>8, <3>1, DraftEntry DEF ok
    <3>2. CASE entry.ifname # {}
      <4>1. entry.ifname = {d} /\ d \in Ifnames
        BY <2>1, <3>2, StatedValue
      <4>2. d \in PresentNames
        BY <1>8, <3>2, <4>1 DEF ok
      <4>3. links[d] \in Link
        BY <4>1 DEF LinkType
      <4> HIDE DEF d
      <4>4. fresh = [iface EXCEPT !.ifname = d, !.ifindex = links[d].index,
                                  !.running = links[d].state = "running"]
        BY <3>2
      <4>5. /\ fresh \in Interface /\ fresh.ifname = d /\ fresh.ifindex = links[d].index
            /\ fresh.running = (links[d].state = "running")
            /\ fresh.arp = iface.arp /\ fresh.dhcpv4 = iface.dhcpv4
        BY <1>4, <4>1, <4>3, <4>4 DEF Draft, Interface, Link
      <4> QED BY <3>2, <4>1, <4>2, <4>5
    <3> QED BY <3>1, <3>2
  <2> HIDE DEF fresh
  <2>6. /\ new \in Interface /\ new.master = a /\ new.learnRoutes = r
        /\ \A f \in {"ifname", "ifindex", "running", "dhcpv4", "arp"} : new[f] = fresh[f]
    BY <2>2, <2>3, <2>4, <2>5 DEF new, Interface
  <2>7. /\ interfaces'[n] \in Interface
        /\ \A f \in {"ifname", "ifindex", "running", "master", "learnRoutes", "dhcpv4", "arp"} :
               interfaces'[n][f] = new[f]
    <3>1. CASE moved
      <4>1. PICK x \in Interface : x = new
        BY <2>6
      <4>2. interfaces'[n] = dhcpv4Setup(x, FALSE)
        BY <1>7, <3>1, <4>1
      <4>3. /\ dhcpv4Setup(x, FALSE) \in Interface
            /\ \A f \in {"ifname", "ifindex", "running", "master", "learnRoutes", "dhcpv4", "arp"} :
                   dhcpv4Setup(x, FALSE)[f] = x[f]
        BY StopType
      <4> QED BY <4>1, <4>2, <4>3
    <3>2. CASE ~moved
      BY <1>7, <1>8, <2>6, <3>2
    <3> QED BY <3>1, <3>2
  <2>8. Bound(n, entry, iface)
    BY <2>5, <2>6, <2>7 DEF Bound
  <2>9. proxyARP' = IF moved THEN proxyARP \ {iface.ifname} ELSE proxyARP
    BY <1>5 DEF arpSetup
  <2>10. abandoned' = IF interfaces'[n].learnRoutes THEN abandoned
                      ELSE abandoned \cup {interfaces'[n].ifindex}
    BY <1>5, <1>8, <2>7
  <2>11. moved <=> /\ iface.ifindex # 0
                   /\ <<interfaces'[n].ifname, interfaces'[n].ifindex>> # <<iface.ifname, iface.ifindex>>
    BY <1>8, <2>7 DEF moved
  <2>12. Taken(n, entry, iface)
    BY <1>5, <1>6, <1>8, <2>2, <2>3, <2>5, <2>6, <2>7, <2>8, <2>9, <2>10, <2>11 DEF Taken
  <2> QED BY <1>1, <1>2, <1>3, <1>4, <1>6, <1>7, <2>12 DEF iface, entry
<1>9. CASE ~ok
  <2>1. ~moved
    BY <1>9 DEF moved
  <2>2. IF entry.ifname = {} THEN iface.ifname = NoName ELSE entry.ifname \cap PresentNames = {}
    BY <1>3, <1>9 DEF ok, Entry, Optional
  <2>3. Rejected(n, entry, iface)
    BY <1>5, <1>6, <1>7, <1>9, <2>1, <2>2 DEF Rejected
  <2> QED BY <1>1, <1>2, <1>3, <1>4, <1>6, <1>7, <2>3 DEF iface, entry
<1> QED BY <1>8, <1>9

\* Parsing an entry keeps the shape.
LEMMA ParseShape == ASSUME Shape, NEW n \in Names, parseInterfaceJSON(n) PROVE Shape'
<1> USE ShapeParts
<1> DEFINE iface == findOrCreateInterface(n)
           entry == reload.file[n]
<1>0. /\ DOMAIN interfaces' = DOMAIN interfaces \cup {n}
      /\ \A m \in DOMAIN interfaces : m # n => interfaces'[m] = interfaces[m]
      /\ reload.phase = "parse" /\ n \in reload.todo /\ n \in DOMAIN reload.file
      /\ iface \in Interface \/ iface = NewInterface
      /\ reload'.phase = "parse" /\ reload'.file = reload.file
      /\ reload'.todo = reload.todo \ {n}
      /\ reload' \in [phase : {"idle", "parse", "serve"}, file : Files \cup {NoFile},
                      todo : SUBSET Names, inuse : SUBSET Names]
      /\ UNCHANGED <<links, used, linkEvents, changes, reconcileScheduled, reloads>>
      /\ Taken(n, entry, iface) \/ Rejected(n, entry, iface)
  BY ParseTable
<1> HIDE DEF iface, entry
<1>1. LinkType'
  BY <1>0 DEF LinkType, IndexedLinks
<1>2. proxyARP' \subseteq Ifnames /\ (KeepMirrors \/ \E i : clearMirroredState(i))
  BY <1>0 DEF Taken, Rejected, KernelType
<1>3. KernelType'
  BY <1>2, MirrorType
<1>4. reload'.inuse \in {reload.inuse, reload.inuse \cup {n}}
  BY <1>0 DEF Taken, Rejected
<1>5. ReloadType'
  BY <1>0, <1>4 DEF ReloadType
<1>6. TableType'
  <2>1. abandoned' \subseteq Ifindexes \cup {0}
    BY <1>0 DEF Taken, Rejected, TableType, Interface
  <2>2. interfaces'[n] \in Interface \/ interfaces'[n] = NewInterface
    BY <1>0 DEF Taken, Rejected
  <2> QED BY <1>0, <2>1, <2>2 DEF TableType, EntryType, Idle
<1>7. Phases'
  <2>1. reload'.inuse = reload.inuse \/ (reload'.inuse = reload.inuse \cup {n} /\ interfaces'[n] \in Interface)
    BY <1>0 DEF Taken, Rejected
  <2>2. n \notin reload.inuse
    BY <1>0 DEF Phases
  <2> QED BY <1>0, <2>1, <2>2 DEF Phases, Idle
<1> QED BY <1>1, <1>3, <1>5, <1>6, <1>7

\* ReloadServe applies the modes of an accepted entry and closes any other.
ServedNow(n) ==
    LET iface == interfaces[n] IN
    /\ n \in reload.inuse /\ DOMAIN interfaces' = DOMAIN interfaces
    /\ interfaces'[n] \in Interface /\ abandoned' = abandoned
    /\ \A f \in {"ifname", "ifindex", "running", "master", "learnRoutes", "dhcpv4", "arp"} :
           interfaces'[n][f] = iface[f]
    /\ interfaces'[n].dhcp = (iface.running /\ iface.dhcpv4 = "relay" /\ iface.ifname \in PresentNames)
    /\ proxyARP' = arpSetup(proxyARP, iface, iface.running)

Closed(n) ==
    /\ n \notin reload.inuse /\ DOMAIN interfaces' = DOMAIN interfaces \ {n}
    /\ proxyARP' = proxyARP \ {interfaces[n].ifname}
    /\ abandoned' = abandoned \cup {interfaces[n].ifindex}

\* What the last phase of a reload does to entry n: it serves or closes it.
LEMMA ServeTable ==
    ASSUME Shape, NEW n \in Names, ReloadServe(n)
    PROVE  /\ n \in DOMAIN interfaces /\ reload.phase = "serve" /\ n \in reload.todo
           /\ \A m \in DOMAIN interfaces : m # n => interfaces'[m] = interfaces[m]
           /\ reload'.phase = IF reload.todo = {n} THEN "idle" ELSE "serve"
           /\ reload'.file = reload.file /\ reload'.inuse = reload.inuse
           /\ reload'.todo = reload.todo \ {n}
           /\ reload' \in [phase : {"idle", "parse", "serve"}, file : Files \cup {NoFile},
                           todo : SUBSET Names, inuse : SUBSET Names]
           /\ UNCHANGED <<links, used, linkEvents, changes, reconcileScheduled, reloads>> /\ KeepMirrors
           /\ ServedNow(n) \/ Closed(n)
<1> USE ShapeParts
<1>1. /\ reload.phase = "serve" /\ n \in reload.todo
      /\ UNCHANGED <<links, used, linkEvents, changes, reconcileScheduled, reloads>> /\ KeepMirrors
      /\ reload' = [reload EXCEPT !.todo = @ \ {n},
                                  !.phase = IF reload.todo = {n} THEN "idle" ELSE "serve"]
  BY DEF ReloadServe, linkVars
<1>2. n \in DOMAIN interfaces
  BY <1>1 DEF Phases
<1>3. reload \in [phase : {"idle", "parse", "serve"}, file : Files \cup {NoFile},
                  todo : SUBSET Names, inuse : SUBSET Names]
  BY DEF ReloadType
<1>4. /\ reload'.phase = IF reload.todo = {n} THEN "idle" ELSE "serve"
      /\ reload'.file = reload.file /\ reload'.inuse = reload.inuse
      /\ reload'.todo = reload.todo \ {n}
      /\ reload' \in [phase : {"idle", "parse", "serve"}, file : Files \cup {NoFile},
                      todo : SUBSET Names, inuse : SUBSET Names]
  BY <1>1, <1>3
<1>5. CASE n \in reload.inuse /\ reloadServices(n, interfaces[n]) /\ UNCHANGED abandoned
  <2>1. interfaces[n] \in Interface /\ interfaces[n].running \in BOOLEAN
    BY <1>2, <1>5 DEF Phases, Interface
  <2>2. /\ interfaces' = [interfaces EXCEPT ![n] = dhcpv4Setup(interfaces[n], interfaces[n].running)]
        /\ proxyARP' = arpSetup(proxyARP, interfaces[n], interfaces[n].running)
    BY <1>5 DEF reloadServices
  <2>3. interfaces'[n] = dhcpv4Setup(interfaces[n], interfaces[n].running)
    BY <1>2, <2>2
  <2>4. interfaces'[n].dhcp = (/\ interfaces[n].running /\ interfaces[n].dhcpv4 = "relay"
                               /\ interfaces[n].ifname \in PresentNames)
    BY <2>1, <2>3 DEF dhcpv4Setup, Interface
  <2>5. PICK on \in BOOLEAN : on = interfaces[n].running
    BY <2>1
  <2>6. /\ interfaces'[n] \in Interface
        /\ \A f \in {"ifname", "ifindex", "running", "master", "learnRoutes", "dhcpv4", "arp"} :
               interfaces'[n][f] = interfaces[n][f]
    BY <2>1, <2>3, <2>5, SetupType
  <2>7. ServedNow(n)
    BY <1>5, <2>2, <2>4, <2>6 DEF ServedNow
  <2> QED BY <1>1, <1>2, <1>4, <2>2, <2>7
<1>6. CASE n \notin reload.inuse /\ closeInterface(n)
  <2>1. /\ interfaces' = [m \in DOMAIN interfaces \ {n} |-> interfaces[m]]
        /\ proxyARP' = proxyARP \ {interfaces[n].ifname}
        /\ abandoned' = abandoned \cup {interfaces[n].ifindex}
    BY <1>6 DEF closeInterface, Restrict, arpSetup
  <2>2. Closed(n)
    BY <1>6, <2>1 DEF Closed
  <2> QED BY <1>1, <1>2, <1>4, <2>1, <2>2
<1> QED BY <1>5, <1>6 DEF ReloadServe

\* Serving or closing an entry keeps the shape.
LEMMA ServeShape == ASSUME Shape, NEW n \in Names, ReloadServe(n) PROVE Shape'
<1> USE ShapeParts
<1>1. LinkType'
  BY ServeTable DEF LinkType, IndexedLinks
<1>2. proxyARP' \subseteq Ifnames
  <2>1. proxyARP \subseteq Ifnames /\ (ServedNow(n) \/ Closed(n))
    BY ServeTable DEF KernelType
  <2>2. CASE ServedNow(n)
    BY <2>1, <2>2, SysctlType DEF ServedNow
  <2>3. CASE Closed(n)
    BY <2>1, <2>3 DEF Closed
  <2> QED BY <2>1, <2>2, <2>3
<1>3. KernelType'
  BY <1>2, ServeTable, MirrorType
<1>4. ReloadType'
  BY ServeTable DEF ReloadType
<1>5. /\ n \in DOMAIN interfaces /\ reload.phase = "serve" /\ n \in reload.todo
      /\ \A m \in DOMAIN interfaces : m # n => interfaces'[m] = interfaces[m]
      /\ reload'.phase = IF reload.todo = {n} THEN "idle" ELSE "serve"
      /\ reload'.inuse = reload.inuse
      /\ reload'.todo = reload.todo \ {n}
  BY ServeTable
<1>6. CASE ServedNow(n)
  <2>1. Phases'
    BY <1>5, <1>6 DEF Phases, Idle, ServedNow
  <2>2. TableType'
    BY <1>5, <1>6, <2>1 DEF TableType, EntryType, Phases, Idle, ServedNow
  <2> QED BY <1>1, <1>3, <1>4, <2>1, <2>2
<1>7. CASE Closed(n)
  <2>1. Phases'
    BY <1>5, <1>7 DEF Phases, Idle, Closed
  <2>2. interfaces[n].ifindex \in Ifindexes \cup {0}
    BY <1>5 DEF TableType, EntryType, Interface, NewInterface
  <2>3. TableType'
    BY <1>5, <1>7, <2>1, <2>2 DEF TableType, EntryType, Phases, Idle, Closed
  <2> QED BY <1>1, <1>3, <1>4, <2>1, <2>3
<1> QED BY <1>6, <1>7, ServeTable

\* A step of nobody keeps the shape.
LEMMA StutterShape == ASSUME Shape, UNCHANGED vars PROVE Shape'
  BY DEF Shape, TypeOK, IndexedLinks, Phases, Idle, vars, mirrorVars, linkVars, reloadVars

\* Every step keeps the shape.
LEMMA NextShape == ASSUME Shape, [Next]_vars PROVE Shape'
  BY LinkShape, HandleShape, HostShape, StartShape, ParseShape, ServeShape, ModesShape,
     StutterShape DEF Next, HostStep

\* Every variable keeps its type, and the phases of a reload keep their books.
LEMMA ShapeAlways == Spec => []Shape
  BY InitShape, NextShape, PTL DEF Spec

\* An idle daemon has only complete entries in its table, with indexes the
\* kernel gave out, and tracks keys of such indexes only.
THEOREM LifecycleTypeCorrect == Spec => []TypeOK
<1>1. Shape => TypeOK
  BY DEF Shape
<1> QED BY <1>1, ShapeAlways, PTL

-----------------------------------------------------------------------------
(* The configuration in force.                                             *)

ConfigInv == Defaults /\ Accepted

\* The kernel's link operations leave the daemon's own state alone.
LEMMA LinkTable ==
    ASSUME NEW d \in Ifnames,
           LinkDelete(d) \/ LinkCreate(d) \/ \E s \in {"down", "nocarrier", "running"} : LinkSet(d, s)
    PROVE  UNCHANGED <<interfaces, reload, reloads, mirroredNeighs, routeEvents, abandoned>>
  BY DEF LinkDelete, LinkCreate, LinkSet, LinkChange, reloadVars

\* The steps of hosts and of the reconcile leave the table and a reload alone.
LEMMA HostTable ==
    ASSUME HostStep
    PROVE  UNCHANGED <<interfaces, links, used, linkEvents, changes, reload, reloads, abandoned>>
  BY DEF HostStep, Learn, Forget, reconcile, handleRouteEvent, linkVars, reloadVars

\* handleLinkEvent leaves the configuration of every entry alone.
LEMMA HandleConfig ==
    ASSUME Shape, handleLinkEvent
    PROVE  /\ UNCHANGED reload /\ DOMAIN interfaces' = DOMAIN interfaces
           /\ \A m \in DOMAIN interfaces : SameConfig(m)
<1>1. ASSUME NEW n \in DOMAIN interfaces, interfaces[n] \in Interface,
             NEW e \in LinkEvent, linkEvent(n, e)
      PROVE  /\ DOMAIN interfaces' = DOMAIN interfaces
             /\ \A m \in DOMAIN interfaces : SameConfig(m)
  BY <1>1, LinkEventTable DEF SameConfig
<1>2. UNCHANGED interfaces => \A m \in DOMAIN interfaces : SameConfig(m)
  BY DEF SameConfig
<1> QED BY <1>1, <1>2, HandledEvent

\* A step that leaves table and reload alone leaves the configuration in force.
LEMMA ConfigFrame ==
    ASSUME ConfigInv, UNCHANGED <<interfaces, reload>>
    PROVE  ConfigInv'
  BY DEF ConfigInv, Defaults, Accepted

\* Every step leaves the configuration in force.
LEMMA ConfigStep == ASSUME Shape, ConfigInv, [Next]_vars PROVE ConfigInv'
<1>1. CASE UNCHANGED vars
  BY <1>1, ConfigFrame DEF vars, reloadVars
<1>2. ASSUME NEW d \in Ifnames,
             LinkDelete(d) \/ LinkCreate(d) \/ \E s \in {"down", "nocarrier", "running"} : LinkSet(d, s)
      PROVE  ConfigInv'
  BY <1>2, LinkTable, ConfigFrame
<1>3. CASE handleLinkEvent
  <2>1. /\ UNCHANGED reload /\ DOMAIN interfaces' = DOMAIN interfaces
        /\ \A m \in DOMAIN interfaces : SameConfig(m)
    BY <1>3, HandleConfig
  <2>2. Defaults'
    BY <2>1 DEF SameConfig, ConfigInv, Defaults
  <2>3. Accepted'
    BY <2>1 DEF SameConfig, ConfigInv, Accepted
  <2> QED BY <2>2, <2>3 DEF ConfigInv
<1>4. CASE HostStep
  BY <1>4, HostTable, ConfigFrame
<1>5. ASSUME NEW file \in Files, ReloadStart(file) PROVE ConfigInv'
  BY <1>5, StartTable DEF ConfigInv, Defaults, Accepted
<1>6. ASSUME NEW n \in Names, parseInterfaceJSON(n) PROVE ConfigInv'
  <2> DEFINE iface == findOrCreateInterface(n)
             entry == reload.file[n]
  <2>1. /\ DOMAIN interfaces' = DOMAIN interfaces \cup {n}
        /\ \A m \in DOMAIN interfaces : m # n => interfaces'[m] = interfaces[m]
        /\ reload.phase = "parse" /\ n \in reload.todo
        /\ reload'.phase = "parse" /\ reload'.file = reload.file
        /\ Taken(n, entry, iface) \/ Rejected(n, entry, iface)
    BY <1>6, ParseTable
  <2>0. entry \in Entry
    BY <1>6, ParseTable
  <2>2. n \notin reload.inuse
    BY <2>1 DEF Shape, Phases
  <2>3. iface.arp = "relay" /\ iface.dhcpv4 = "relay" /\ iface.learnRoutes = TRUE
    BY <2>1, <2>2 DEF findOrCreateInterface, NewInterface, ConfigInv, Defaults
  <2>4. interfaces'[n].arp = "relay" /\ interfaces'[n].dhcpv4 = "relay"
    BY <2>1, <2>3 DEF Taken, Rejected
  <2> HIDE DEF iface
  <2>5. CASE Taken(n, entry, iface)
    <3>1. reload'.inuse = reload.inuse \cup {n}
      BY <2>5 DEF Taken
    <3>2. interfaces'[n].learnRoutes = Stated(entry.routing, TRUE)
      BY <2>3, <2>5 DEF Taken, Stated
    <3>3. entry.master \subseteq {interfaces'[n].master}
      <4>1. entry.master \in Optional(BOOLEAN)
        BY <2>0 DEF Entry
      <4> QED BY <2>5, <4>1, StatedValue DEF Taken
    <3>4. Defaults'
      BY <2>1, <2>4, <3>1 DEF ConfigInv, Defaults
    <3>5. Accepted'
      BY <2>1, <2>4, <3>1, <3>2, <3>3 DEF ConfigInv, Accepted
    <3> QED BY <3>4, <3>5 DEF ConfigInv
  <2>6. CASE Rejected(n, entry, iface)
    <3>1. reload'.inuse = reload.inuse /\ interfaces'[n].learnRoutes = TRUE
      BY <2>3, <2>6 DEF Rejected
    <3>2. Defaults'
      BY <2>1, <2>4, <3>1 DEF ConfigInv, Defaults
    <3>3. Accepted'
      BY <2>1, <2>2, <3>1 DEF ConfigInv, Accepted
    <3> QED BY <3>2, <3>3 DEF ConfigInv
  <2> QED BY <2>1, <2>5, <2>6
<1>7. CASE ReloadModes
  <2>1. Defaults'
    BY <1>7, ModesTable DEF Defaults
  <2>2. ASSUME NEW n \in (DOMAIN interfaces \cap reload.inuse)
        PROVE  /\ interfaces'[n].learnRoutes = Stated(reload'.file[n].routing, TRUE)
               /\ reload'.file[n].master \subseteq {interfaces'[n].master}
               /\ ~interfaces'[n].master => interfaces'[n].arp = "relay" /\ interfaces'[n].dhcpv4 = "relay"
    <3>1. /\ interfaces'[n].learnRoutes = interfaces[n].learnRoutes
          /\ interfaces'[n].master = interfaces[n].master
          /\ ~interfaces[n].master => interfaces'[n] = interfaces[n]
          /\ reload'.file = reload.file
      BY <1>7, ModesTable
    <3> QED BY <3>1 DEF ConfigInv, Accepted
  <2>3. Accepted'
    BY <1>7, <2>2, ModesTable DEF Accepted
  <2> QED BY <2>1, <2>3 DEF ConfigInv
<1>8. ASSUME NEW n \in Names, ReloadServe(n) PROVE ConfigInv'
  <2>1. /\ reload'.phase # "parse" /\ reload'.file = reload.file /\ reload'.inuse = reload.inuse
        /\ \A m \in DOMAIN interfaces : m # n => interfaces'[m] = interfaces[m]
        /\ n \in DOMAIN interfaces /\ (ServedNow(n) \/ Closed(n))
    BY <1>8, ServeTable
  <2>2. Defaults'
    BY <2>1 DEF Defaults
  <2>3. CASE ServedNow(n)
    <3>1. /\ DOMAIN interfaces' = DOMAIN interfaces
          /\ interfaces'[n].master = interfaces[n].master
          /\ interfaces'[n].learnRoutes = interfaces[n].learnRoutes
          /\ interfaces'[n].arp = interfaces[n].arp /\ interfaces'[n].dhcpv4 = interfaces[n].dhcpv4
      BY <2>3 DEF ServedNow
    <3>2. ASSUME NEW m \in (DOMAIN interfaces \cap reload.inuse)
          PROVE  /\ interfaces'[m].learnRoutes = Stated(reload'.file[m].routing, TRUE)
                 /\ reload'.file[m].master \subseteq {interfaces'[m].master}
                 /\ ~interfaces'[m].master =>
                        interfaces'[m].arp = "relay" /\ interfaces'[m].dhcpv4 = "relay"
      <4>1. CASE m = n
        BY <2>1, <3>1, <4>1 DEF ConfigInv, Accepted
      <4>2. CASE m # n
        BY <2>1, <4>2 DEF ConfigInv, Accepted
      <4> QED BY <4>1, <4>2
    <3>3. Accepted'
      BY <2>1, <3>1, <3>2 DEF Accepted
    <3> QED BY <2>2, <3>3 DEF ConfigInv
  <2>4. CASE Closed(n)
    BY <2>1, <2>2, <2>4 DEF Closed, ConfigInv, Accepted
  <2> QED BY <2>1, <2>3, <2>4
<1> QED BY <1>1, <1>2, <1>3, <1>4, <1>5, <1>6, <1>7, <1>8 DEF Next, HostStep

\* Every step keeps what the file lists, until a netdev changes.
LEMMA KeptStep == ASSUME Shape, Kept, [Next]_vars PROVE Kept'
<1>1. CASE UNCHANGED vars \/ HostStep
  BY <1>1, HostTable DEF Kept, Bindable, PresentNames, vars, linkVars, reloadVars
<1>2. ASSUME NEW d \in Ifnames,
             LinkDelete(d) \/ LinkCreate(d) \/ \E s \in {"down", "nocarrier", "running"} : LinkSet(d, s)
      PROVE  Kept'
  <2>1. changes \in Nat
    BY LifecycleAssumption DEF Shape, TypeOK
  <2>2. changes' = changes + 1
    BY <1>2 DEF LinkDelete, LinkCreate, LinkSet, LinkChange
  <2> QED BY <2>1, <2>2 DEF Kept
<1>3. CASE handleLinkEvent
  BY <1>3, HandleConfig, HandledEvent DEF Kept, Bindable, PresentNames
<1>4. ASSUME NEW file \in Files, ReloadStart(file) PROVE Kept'
  BY <1>4, StartTable DEF Kept, Bindable, PresentNames
<1>5. ASSUME NEW n \in Names, parseInterfaceJSON(n) PROVE Kept'
  <2> DEFINE iface == findOrCreateInterface(n)
             entry == reload.file[n]
  <2>1. /\ DOMAIN interfaces' = DOMAIN interfaces \cup {n}
        /\ reload.phase = "parse" /\ n \in reload.todo
        /\ reload'.phase = "parse" /\ reload'.file = reload.file
        /\ reload'.todo = reload.todo \ {n} /\ UNCHANGED <<links, changes>>
        /\ Taken(n, entry, iface) \/ Rejected(n, entry, iface)
    BY <1>5, ParseTable
  <2> HIDE DEF iface
  <2>2. CASE Taken(n, entry, iface)
    BY <2>1, <2>2 DEF Taken, Kept, Bindable, PresentNames
  <2>3. CASE Rejected(n, entry, iface)
    <3>1. ~Bindable(n)
      BY <2>3 DEF Rejected, Bindable
    <3> QED BY <2>1, <2>3, <3>1 DEF Rejected, Kept, Bindable, PresentNames
  <2> QED BY <2>1, <2>2, <2>3
<1>6. CASE ReloadModes
  BY <1>6, ModesTable DEF Kept, Bindable, PresentNames
<1>7. ASSUME NEW n \in Names, ReloadServe(n) PROVE Kept'
  <2>1. /\ reload.phase = "serve" /\ reload'.file = reload.file /\ reload'.inuse = reload.inuse
        /\ UNCHANGED <<links, changes>> /\ (ServedNow(n) \/ Closed(n))
    BY <1>7, ServeTable
  <2>2. reload.inuse \cap DOMAIN interfaces \subseteq DOMAIN interfaces'
    BY <2>1 DEF ServedNow, Closed
  <2> QED BY <2>1, <2>2 DEF Kept, Bindable, PresentNames
<1> QED BY <1>1, <1>2, <1>3, <1>4, <1>5, <1>6, <1>7 DEF Next, HostStep

\* Reload is torn into steps with link changes between them, and link events
\* are handled between reloads: with the daemon idle the table nonetheless holds
\* only what the last file lists, with the settings it states (`master`, when it
\* states none, as it was), and all of it while no netdev has changed.
THEOREM ConfigStaysInForce == Spec => []ConfigInForce
<1>1. Init => ConfigInv /\ Kept
  BY DEF Init, NoFile, ConfigInv, Defaults, Accepted, Kept
<1>2. Shape /\ ConfigInv /\ Kept => ConfigInForce
  <2> SUFFICES ASSUME Shape, ConfigInv, Kept, Idle PROVE ConfigInForce
    BY DEF ConfigInForce
  <2>1. /\ DOMAIN interfaces \subseteq reload.inuse
        /\ reload.inuse \subseteq DOMAIN reload.file /\ reload.phase = "idle"
    BY DEF Shape, TypeOK, Phases, Idle
  <2> QED BY <2>1 DEF ConfigInv, Accepted, Kept, ConfigInForce
<1> QED BY <1>1, <1>2, ConfigStep, KeptStep, ShapeAlways, PTL DEF Spec

-----------------------------------------------------------------------------
(* Nothing is stranded.                                                    *)

\* Entry m still stands for its index after the step, or the index is given up.
Holds(m) ==
    \/ interfaces[m].ifindex \in abandoned' \cup {0}
    \/ /\ m \in DOMAIN interfaces' /\ interfaces'[m].ifindex = interfaces[m].ifindex
       /\ interfaces[m].learnRoutes => interfaces'[m].learnRoutes

\* A mirror key is an address and a nonzero index.
LEMMA KeyPair == \A k \in Key : k = <<k[1], k[2]>> /\ k[1] \in Addrs /\ k[2] \in Ifindexes /\ k[2] # 0
  BY ArpAssumption DEF Key

\* A route of ours through i goes when the state of i is cleared.
LEMMA ClearedState ==
    ASSUME Shape, Tracked, NEW i, clearMirroredState(i)
    PROVE  /\ mirroredNeighs' = {k \in mirroredNeighs : k[2] # i}
           /\ \A a \in Addrs : hostRoute'[a] \in {NoRoute, hostRoute[a]}
           /\ \A a \in Addrs : hostRoute'[a] = i => i \in abandoned \cup {NoRoute}
<1> DEFINE D == {k \in KeysAt(i) : Routed(k) /\ hostRoute[k[1]] = k[2]}
<1>1. mirroredNeighs' = {k \in mirroredNeighs : k[2] # i}
  BY DEF clearMirroredState, KeysAt
<1>2. hostRoute' = [a \in Addrs |-> IF <<a, hostRoute[a]>> \in D THEN NoRoute ELSE hostRoute[a]]
  BY DEF clearMirroredState, Withdraw
<1>3. ASSUME NEW a \in Addrs, hostRoute[a] = i, i \notin abandoned \cup {NoRoute}
      PROVE  <<a, hostRoute[a]>> \in D
  BY <1>3 DEF Tracked, KeysAt
<1> HIDE DEF D
<1> QED BY <1>1, <1>2, <1>3

\* Dropping the keys and routes of the indexes I, and no other, strands nothing.
LEMMA TrackedChange ==
    ASSUME Shape, Shape', Tracked, abandoned \subseteq abandoned', NEW I,
           \A k \in mirroredNeighs : k \in mirroredNeighs' \/ k[2] \in I,
           mirroredNeighs' \subseteq {k \in mirroredNeighs : k[2] \notin I},
           \A a \in Addrs : hostRoute'[a] \in {NoRoute, hostRoute[a]},
           \A a \in Addrs : hostRoute'[a] \in I => hostRoute'[a] \in abandoned \cup {NoRoute},
           \A m \in DOMAIN interfaces : Holds(m) \/ interfaces[m].ifindex \in I
    PROVE  Tracked'
<1>1. ASSUME NEW k \in mirroredNeighs' PROVE k[2] \in abandoned' \/ IfacesAt(k[2])' # {}
  <2>1. k \in mirroredNeighs /\ k[2] \notin I /\ k[2] # 0
    BY KeyPair DEF Shape, TypeOK
  <2>2. CASE k[2] \in abandoned
    BY <2>2
  <2>3. CASE k[2] \notin abandoned
    <3>1. PICK m \in DOMAIN interfaces : interfaces[m].ifindex = k[2]
      BY <2>1, <2>3 DEF Tracked, IfacesAt
    <3> QED BY <2>1, <3>1 DEF Holds, IfacesAt
  <2> QED BY <2>2, <2>3
<1>2. ASSUME NEW a \in Addrs, hostRoute'[a] \notin abandoned' \cup {NoRoute}
      PROVE  <<a, hostRoute'[a]>> \in mirroredNeighs' /\ Routed(<<a, hostRoute[a]>>)'
  <2>1. hostRoute'[a] = hostRoute[a] /\ hostRoute[a] \notin abandoned \cup {NoRoute} /\ hostRoute[a] \notin I
    BY <1>2
  <2>2. PICK j : j = hostRoute[a]
    OBVIOUS
  <2>3. <<a, j>> \in mirroredNeighs /\ Routed(<<a, j>>)
    BY <2>1, <2>2 DEF Tracked
  <2>4. <<a, j>> \in mirroredNeighs'
    BY <2>1, <2>2, <2>3
  <2>5. a \notin LinkLocal
    BY <2>3 DEF Routed
  <2>6. PICK m \in DOMAIN interfaces : interfaces[m].ifindex = j /\ interfaces[m].learnRoutes
    BY <2>3 DEF Routed, IfacesAt
  <2>7. m \in DOMAIN interfaces' /\ interfaces'[m].ifindex = j /\ interfaces'[m].learnRoutes
    BY <1>2, <2>1, <2>2, <2>6 DEF Holds, NoRoute
  <2>8. Routed(<<a, j>>)'
    BY <2>5, <2>7 DEF Routed, IfacesAt
  <2> QED BY <2>1, <2>2, <2>4, <2>8
<1> QED BY <1>1, <1>2 DEF Tracked

\* The table may change where every entry holds on to its index, or where the
\* state of the index it lets go is cleared.
LEMMA TrackedKeep ==
    ASSUME Shape, Shape', Tracked, abandoned \subseteq abandoned', KeepMirrors,
           \A m \in DOMAIN interfaces : Holds(m)
    PROVE  Tracked'
<1>1. mirroredNeighs' = mirroredNeighs /\ hostRoute' = hostRoute
  BY DEF KeepMirrors
<1>2. PICK I : I = {}
  OBVIOUS
<1> QED BY <1>1, <1>2, TrackedChange

\* Clearing one index's state strands nothing.
LEMMA TrackedClear ==
    ASSUME Shape, Shape', Tracked, abandoned \subseteq abandoned', NEW i, clearMirroredState(i),
           \A m \in DOMAIN interfaces : Holds(m) \/ interfaces[m].ifindex = i
    PROVE  Tracked'
<1>1. PICK I : I = {i}
  OBVIOUS
<1> QED BY <1>1, ClearedState, TrackedChange

\* Installing tracked keys makes routes of tracked keys only.
LEMMA TrackedInstall ==
    ASSUME Shape, Tracked, NEW K, NEW N, Install(K, N), K \subseteq mirroredNeighs',
           mirroredNeighs \subseteq mirroredNeighs', UNCHANGED <<interfaces, abandoned>>,
           \A k \in mirroredNeighs' : k[2] \in abandoned \/ IfacesAt(k[2]) # {}
    PROVE  Tracked'
<1>1. PICK U : U = {k \in K : Up(k[2])}
  OBVIOUS
<1>2. hostRoute' \in RoutesAfterReplace(U) /\ U \subseteq mirroredNeighs'
  BY <1>1 DEF Install
<1>3. ASSUME NEW a \in Addrs, hostRoute'[a] \notin abandoned' \cup {NoRoute}
      PROVE  <<a, hostRoute'[a]>> \in mirroredNeighs' /\ Routed(<<a, hostRoute[a]>>)'
  <2>1. PICK j : j = hostRoute'[a]
    OBVIOUS
  <2>2. j = hostRoute[a] \/ (<<a, j>> \in U /\ Routed(<<a, j>>))
    BY <1>2, <2>1 DEF RoutesAfterReplace
  <2>3. <<a, j>> \in mirroredNeighs' /\ Routed(<<a, j>>)
    BY <1>2, <1>3, <2>1, <2>2 DEF Tracked
  <2>4. Routed(<<a, j>>)'
    BY <2>3 DEF Routed, IfacesAt
  <2> QED BY <2>1, <2>3, <2>4
<1>4. \A k \in mirroredNeighs' : k[2] \in abandoned' \/ IfacesAt(k[2])' # {}
  BY DEF IfacesAt
<1> QED BY <1>3, <1>4 DEF Tracked

\* Learning, forgetting and reconciling strand nothing.
LEMMA TrackedHost ==
    ASSUME Shape, Tracked, HostStep
    PROVE  Tracked'
<1>0. UNCHANGED <<interfaces, abandoned>>
  BY HostTable
<1>1. ASSUME NEW a \in Addrs, NEW n \in DOMAIN interfaces, Learn(a, n) PROVE Tracked'
  <2>1. PICK i : i = interfaces[n].ifindex
    OBVIOUS
  <2>2. PICK K : K = {<<a, i>>}
    OBVIOUS
  <2>3. /\ mirroredNeighs' = mirroredNeighs \cup K
        /\ \E N : Install(K, N)
    BY <1>1, <2>1, <2>2 DEF Learn
  <2>4. \A k \in mirroredNeighs' : k[2] \in abandoned \/ IfacesAt(k[2]) # {}
    BY <2>1, <2>2, <2>3 DEF Tracked, IfacesAt
  <2> QED BY <1>0, <2>3, <2>4, TrackedInstall
<1>2. ASSUME NEW a \in Addrs, NEW n \in DOMAIN interfaces, Forget(a, n) PROVE Tracked'
  <2>1. PICK i : i = interfaces[n].ifindex
    OBVIOUS
  <2>2. PICK K : K = {<<a, i>>}
    OBVIOUS
  <2>3. mirroredNeighs' = mirroredNeighs \ K /\ Withdraw(K)
    BY <1>2, <2>1, <2>2 DEF Forget, RemoveMirror
  <2> DEFINE D == {k \in K : Routed(k) /\ hostRoute[k[1]] = k[2]}
  <2>4. hostRoute' = [b \in Addrs |-> IF <<b, hostRoute[b]>> \in D THEN NoRoute ELSE hostRoute[b]]
    BY <2>3 DEF Withdraw
  <2>5. \A b \in Addrs : <<b, hostRoute[b]>> \in D <=> <<b, hostRoute[b]>> \in K /\ Routed(<<b, hostRoute[b]>>)
    OBVIOUS
  <2> HIDE DEF D
  <2>6. ASSUME NEW b \in Addrs, hostRoute'[b] \notin abandoned' \cup {NoRoute}
        PROVE  <<b, hostRoute'[b]>> \in mirroredNeighs' /\ Routed(<<b, hostRoute[b]>>)'
    <3>1. hostRoute'[b] = hostRoute[b] /\ <<b, hostRoute[b]>> \notin D
      BY <2>4, <2>6
    <3>2. PICK j : j = hostRoute[b]
      OBVIOUS
    <3>3. <<b, j>> \in mirroredNeighs /\ Routed(<<b, j>>)
      BY <1>0, <2>6, <3>1, <3>2 DEF Tracked
    <3>4. <<b, j>> \in mirroredNeighs'
      BY <2>3, <2>5, <3>1, <3>2, <3>3
    <3>5. Routed(<<b, j>>)'
      BY <1>0, <3>3 DEF Routed, IfacesAt
    <3> QED BY <3>1, <3>2, <3>4, <3>5
  <2>7. \A k \in mirroredNeighs' : k[2] \in abandoned' \/ IfacesAt(k[2])' # {}
    BY <1>0, <2>3 DEF Tracked, IfacesAt
  <2> QED BY <2>6, <2>7 DEF Tracked
<1>3. ASSUME reconcile PROVE Tracked'
  <2>1. mirroredNeighs' = mirroredNeighs
    BY <1>3 DEF reconcile
  <2>2. PICK K, N : Install(K, N) /\ K \subseteq mirroredNeighs
    BY <1>3 DEF reconcile
  <2> QED BY <1>0, <2>1, <2>2, TrackedInstall DEF Tracked
<1>4. ASSUME NEW i \in Ifindexes, handleRouteEvent(i) PROVE Tracked'
  BY <1>0, <1>4 DEF handleRouteEvent, Tracked, Routed, IfacesAt
<1> QED BY <1>1, <1>2, <1>3, <1>4 DEF HostStep

\* A link operation strands nothing.
LEMMA TrackedLink ==
    ASSUME Shape, Tracked, NEW d \in Ifnames,
           LinkDelete(d) \/ LinkCreate(d) \/ \E s \in {"down", "nocarrier", "running"} : LinkSet(d, s)
    PROVE  Tracked'
<1>1. UNCHANGED <<interfaces, mirroredNeighs, abandoned>>
  BY LinkTable
<1>2. \A a \in Addrs : hostRoute'[a] \in {NoRoute, hostRoute[a]}
  BY DEF LinkDelete, LinkCreate, LinkSet, LinkChange
<1>3. ASSUME NEW a \in Addrs, hostRoute'[a] \notin abandoned' \cup {NoRoute}
      PROVE  <<a, hostRoute'[a]>> \in mirroredNeighs' /\ Routed(<<a, hostRoute[a]>>)'
  <2>1. PICK j : j = hostRoute[a]
    OBVIOUS
  <2>2. j = hostRoute'[a] /\ <<a, j>> \in mirroredNeighs /\ Routed(<<a, j>>)
    BY <1>1, <1>2, <1>3, <2>1 DEF Tracked
  <2>3. Routed(<<a, j>>)'
    BY <1>1, <2>2 DEF Routed, IfacesAt
  <2> QED BY <1>1, <2>2, <2>3
<1>4. \A k \in mirroredNeighs' : k[2] \in abandoned' \/ IfacesAt(k[2])' # {}
  BY <1>1 DEF Tracked, IfacesAt
<1> QED BY <1>3, <1>4 DEF Tracked

\* Handling a link event strands nothing.
LEMMA TrackedHandle == ASSUME Shape, Shape', Tracked, handleLinkEvent PROVE Tracked'
<1>1. abandoned' = abandoned
  BY HandledEvent
<1>2. CASE UNCHANGED interfaces /\ KeepMirrors
  <2>1. \A m \in DOMAIN interfaces : Holds(m)
    BY <1>2 DEF Holds
  <2> QED BY <1>1, <1>2, <2>1, TrackedKeep
<1>3. ASSUME NEW n \in DOMAIN interfaces, interfaces[n] \in Interface,
             NEW e \in LinkEvent, linkEvent(n, e)
      PROVE  Tracked'
  <2>1. /\ DOMAIN interfaces' = DOMAIN interfaces
        /\ \A m \in DOMAIN interfaces : m # n => interfaces'[m] = interfaces[m]
        /\ Vanished(n, e) \/ Refreshed(n, e) \/ Ignored(n, e)
        /\ interfaces'[n].learnRoutes = interfaces[n].learnRoutes
    BY <1>3, LinkEventTable DEF SameConfig
  <2>2. \A m \in DOMAIN interfaces : m # n => Holds(m)
    BY <2>1 DEF Holds
  <2>3. \/ clearMirroredState(interfaces[n].ifindex)
        \/ KeepMirrors /\ interfaces'[n].ifindex = interfaces[n].ifindex
    BY <2>1 DEF Vanished, Refreshed, Ignored
  <2>4. PICK i : i = interfaces[n].ifindex
    OBVIOUS
  <2>5. CASE clearMirroredState(i)
    <3>1. \A m \in DOMAIN interfaces : Holds(m) \/ interfaces[m].ifindex = i
      BY <2>2, <2>4
    <3> QED BY <1>1, <2>5, <3>1, TrackedClear
  <2>6. CASE KeepMirrors /\ interfaces'[n].ifindex = i
    <3>1. Holds(n)
      BY <2>1, <2>4, <2>6 DEF Holds
    <3> QED BY <1>1, <2>2, <2>6, <3>1, TrackedKeep
  <2> QED BY <2>3, <2>4, <2>5, <2>6
<1> QED BY <1>2, <1>3, HandledEvent

\* Rebinding an entry strands nothing.
LEMMA TrackedParse ==
    ASSUME Shape, Shape', Tracked, NEW n \in Names, parseInterfaceJSON(n)
    PROVE  Tracked'
<1> DEFINE iface == findOrCreateInterface(n)
           entry == reload.file[n]
<1>1. /\ DOMAIN interfaces' = DOMAIN interfaces \cup {n}
      /\ \A m \in DOMAIN interfaces : m # n => interfaces'[m] = interfaces[m]
      /\ Taken(n, entry, iface) \/ Rejected(n, entry, iface)
  BY ParseTable
<1>2. \A m \in DOMAIN interfaces : m # n => Holds(m)
  BY <1>1 DEF Holds
<1>3. n \in DOMAIN interfaces => iface = interfaces[n]
  BY DEF findOrCreateInterface
<1> HIDE DEF iface
<1>4. CASE Rejected(n, entry, iface)
  <2>1. n \in DOMAIN interfaces => Holds(n)
    BY <1>1, <1>3, <1>4 DEF Rejected, Holds
  <2>2. abandoned' = abandoned /\ KeepMirrors
    BY <1>4 DEF Rejected
  <2> QED BY <1>2, <2>1, <2>2, TrackedKeep
<1>5. CASE Taken(n, entry, iface)
  <2>1. /\ abandoned \subseteq abandoned'
        /\ interfaces'[n].learnRoutes \/ interfaces'[n].ifindex \in abandoned'
    BY <1>5 DEF Taken
  <2>2. \/ clearMirroredState(iface.ifindex)
        \/ KeepMirrors /\ (iface.ifindex = 0 \/ interfaces'[n].ifindex = iface.ifindex)
    BY <1>5 DEF Taken
  <2>3. PICK i : i = iface.ifindex
    OBVIOUS
  <2>4. CASE clearMirroredState(i)
    <3>1. \A m \in DOMAIN interfaces : Holds(m) \/ interfaces[m].ifindex = i
      BY <1>2, <1>3, <2>3
    <3> QED BY <2>1, <2>4, <3>1, TrackedClear
  <2>5. CASE KeepMirrors /\ (i = 0 \/ interfaces'[n].ifindex = i)
    <3>1. n \in DOMAIN interfaces => Holds(n)
      BY <1>1, <1>3, <2>1, <2>3, <2>5 DEF Holds
    <3> QED BY <1>2, <2>1, <2>5, <3>1, TrackedKeep
  <2> QED BY <2>2, <2>3, <2>4, <2>5
<1> QED BY <1>1, <1>4, <1>5

\* Closing an entry strands nothing.
LEMMA TrackedServe ==
    ASSUME Shape, Shape', Tracked, NEW n \in Names, ReloadServe(n)
    PROVE  Tracked'
<1>1. /\ n \in DOMAIN interfaces /\ KeepMirrors
      /\ \A m \in DOMAIN interfaces : m # n => interfaces'[m] = interfaces[m]
      /\ ServedNow(n) \/ Closed(n)
  BY ServeTable
<1>2. CASE ServedNow(n)
  <2>1. /\ DOMAIN interfaces' = DOMAIN interfaces /\ abandoned' = abandoned
        /\ interfaces'[n].ifindex = interfaces[n].ifindex
        /\ interfaces'[n].learnRoutes = interfaces[n].learnRoutes
    BY <1>2 DEF ServedNow
  <2>2. \A m \in DOMAIN interfaces : Holds(m)
    BY <1>1, <2>1 DEF Holds
  <2> QED BY <1>1, <2>1, <2>2, TrackedKeep
<1>3. CASE Closed(n)
  <2>1. abandoned \subseteq abandoned' /\ \A m \in DOMAIN interfaces : Holds(m)
    BY <1>1, <1>3 DEF Closed, Holds
  <2> QED BY <1>1, <2>1, TrackedKeep
<1> QED BY <1>1, <1>2, <1>3

\* No step strands anything.
LEMMA TrackedStep == ASSUME Shape, Shape', Tracked, [Next]_vars PROVE Tracked'
<1>1. CASE UNCHANGED vars
  BY <1>1 DEF vars, mirrorVars, Tracked, IfacesAt, Routed
<1>2. ASSUME NEW file \in Files, ReloadStart(file) PROVE Tracked'
  <2>1. KeepMirrors /\ abandoned' = abandoned
    BY <1>2, StartTable DEF KeepMirrors
  <2>2. \A m \in DOMAIN interfaces : Holds(m)
    BY <1>2, StartTable DEF Holds
  <2> QED BY <2>1, <2>2, TrackedKeep
<1>3. CASE ReloadModes
  <2>1. KeepMirrors /\ abandoned' = abandoned
    BY <1>3, ModesTable DEF KeepMirrors
  <2>2. \A m \in DOMAIN interfaces : Holds(m)
    BY <1>3, ModesTable DEF Holds
  <2> QED BY <2>1, <2>2, TrackedKeep
<1> QED BY <1>1, <1>2, <1>3, TrackedLink, TrackedHandle, TrackedHost, TrackedParse, TrackedServe
        DEF Next, HostStep

\* Nothing is stranded at any moment.
LEMMA TrackedAlways == Spec => []Tracked
<1>1. Init => Tracked
  BY DEF Init, Tracked, NoRoute
<1> QED BY <1>1, TrackedStep, ShapeAlways, PTL DEF Spec

\* However link events, reloads and hosts interleave, outside the indexes a
\* reload gave up every tracked key has its interface and every host route its
\* tracked key: clearMirroredState runs while Routed still sees the old index.
THEOREM LeavesNothingStranded == Spec => []NothingStranded
<1>1. Tracked => NothingStranded
  BY DEF Tracked, NothingStranded
<1> QED BY <1>1, TrackedAlways, PTL

-----------------------------------------------------------------------------
(* A reload is not felt where nothing changed.                             *)

\* An entry is bound to an index only as an earlier entry, a link or an event
\* was; one with index 0 does not run.
EntryFrom(n) ==
    /\ \/ n \in DOMAIN interfaces /\ interfaces'[n].ifname = interfaces[n].ifname
          /\ interfaces'[n].ifindex = interfaces[n].ifindex
       \/ interfaces'[n].ifindex \notin Ifindexes
       \/ Claims(interfaces'[n].ifindex, interfaces'[n].ifname)
    /\ interfaces'[n].ifindex = 0 => ~interfaces'[n].running

\* Every step binds entries as EntryFrom says.
LEMMA EntriesFrom ==
    ASSUME Shape, Shape', GoneStopped, NEW n \in DOMAIN interfaces', [Next]_vars
    PROVE  EntryFrom(n)
<1>1. CASE UNCHANGED interfaces
  BY <1>1 DEF EntryFrom, GoneStopped
<1>2. CASE handleLinkEvent
  <2>1. ASSUME NEW m \in IfacesNamed(Head(linkEvents).ifname), m \in DOMAIN interfaces,
               interfaces[m] \in Interface, linkEvent(m, Head(linkEvents))
        PROVE  EntryFrom(n)
    <3>0. PICK e \in LinkEvent : e = Head(linkEvents)
      BY <1>2, HandledEvent
    <3>1. linkEvent(m, e) /\ interfaces[m].ifname = e.ifname /\ e.index # 0
      BY <2>1, <3>0, ArpAssumption DEF IfacesNamed, LinkEvent
    <3>2. /\ DOMAIN interfaces' = DOMAIN interfaces
          /\ \A k \in DOMAIN interfaces : k # m => interfaces'[k] = interfaces[k]
          /\ Vanished(m, e) \/ Refreshed(m, e) \/ Ignored(m, e)
          /\ interfaces'[m].ifname = interfaces[m].ifname
      BY <2>1, <3>1, LinkEventTable DEF SameConfig
    <3>3. CASE n # m \/ Ignored(m, e)
      BY <3>2, <3>3 DEF Ignored, EntryFrom, GoneStopped
    <3>4. CASE n = m /\ Vanished(m, e)
      BY <3>4, ArpAssumption DEF Vanished, EntryFrom
    <3>5. CASE n = m /\ Refreshed(m, e)
      <4>1. Len(linkEvents) \in Nat /\ Len(linkEvents) >= 1 /\ e = linkEvents[1]
        BY <1>2, <3>0, HandledEvent DEF Shape, TypeOK
      <4>2. Claims(e.index, e.ifname)
        BY <4>1 DEF Claims
      <4> QED BY <3>1, <3>2, <3>5, <4>2 DEF Refreshed, EntryFrom
    <3> QED BY <3>2, <3>3, <3>4, <3>5
  <2> QED BY <1>1, <1>2, <2>1, HandledEvent
<1>3. ASSUME NEW file \in Files, ReloadStart(file) PROVE EntryFrom(n)
  BY <1>3, StartTable DEF EntryFrom, GoneStopped
<1>4. CASE ReloadModes
  BY <1>4, ModesTable DEF EntryFrom, GoneStopped
<1>5. ASSUME NEW m \in Names, parseInterfaceJSON(m) PROVE EntryFrom(n)
  <2> DEFINE iface == findOrCreateInterface(m)
             entry == reload.file[m]
  <2>1. /\ DOMAIN interfaces' = DOMAIN interfaces \cup {m}
        /\ \A k \in DOMAIN interfaces : k # m => interfaces'[k] = interfaces[k]
        /\ Taken(m, entry, iface) \/ Rejected(m, entry, iface)
    BY <1>5, ParseTable
  <2>2. (m \in DOMAIN interfaces /\ iface = interfaces[m]) \/ (iface.ifindex = 0 /\ iface.running = FALSE /\ iface.ifname = NoName)
    BY DEF findOrCreateInterface, NewInterface
  <2> HIDE DEF iface
  <2>3. CASE n # m
    BY <2>1, <2>3 DEF EntryFrom, GoneStopped
  <2>4. CASE n = m /\ interfaces'[m].ifname = iface.ifname /\ interfaces'[m].ifindex = iface.ifindex
             /\ interfaces'[m].running = iface.running
    BY <2>2, <2>4, ArpAssumption DEF EntryFrom, GoneStopped
  <2>5. CASE n = m /\ Taken(m, entry, iface) /\ entry.ifname # {}
    <3>1. PICK d \in PresentNames : d = interfaces'[m].ifname
      BY <2>5 DEF Taken, Bound
    <3>2. interfaces'[m].ifindex = links[d].index /\ links[d].index # 0
      BY <2>5, <3>1 DEF Taken, Bound, Shape, IndexedLinks, PresentNames
    <3>3. Claims(links[d].index, d)
      BY DEF Claims
    <3> QED BY <2>5, <3>1, <3>2, <3>3 DEF EntryFrom
  <2> QED BY <2>1, <2>3, <2>4, <2>5 DEF Taken, Bound, Rejected
<1>6. ASSUME NEW m \in Names, ReloadServe(m) PROVE EntryFrom(n)
  <2>1. /\ m \in DOMAIN interfaces /\ (ServedNow(m) \/ Closed(m))
        /\ \A k \in DOMAIN interfaces : k # m => interfaces'[k] = interfaces[k]
    BY <1>6, ServeTable
  <2>2. CASE n # m
    BY <2>1, <2>2 DEF ServedNow, Closed, EntryFrom, GoneStopped
  <2>3. CASE n = m
    <3>1. /\ n \in DOMAIN interfaces /\ interfaces'[n].ifname = interfaces[n].ifname
          /\ interfaces'[n].ifindex = interfaces[n].ifindex
          /\ interfaces'[n].running = interfaces[n].running
      BY <2>1, <2>3 DEF ServedNow, Closed
    <3> QED BY <3>1 DEF EntryFrom, GoneStopped
  <2> QED BY <2>2, <2>3
<1> QED BY <1>1, <1>2, <1>3, <1>4, <1>5, <1>6, LinkTable, HostTable DEF Next, HostStep, vars

\* Every step keeps an entry without a netdev stopped.
LEMMA GoneStep == ASSUME Shape, Shape', GoneStopped, [Next]_vars PROVE GoneStopped'
  BY EntriesFrom DEF EntryFrom, GoneStopped

\* What a link change does to links and events.
LEMMA LinkClaims ==
    ASSUME Shape, NEW d \in Ifnames,
           LinkDelete(d) \/ LinkCreate(d) \/ \E s \in {"down", "nocarrier", "running"} : LinkSet(d, s)
    PROVE  \E i \in Ifindexes, e \in LinkEvent :
             /\ linkEvents' = Append(linkEvents, e) /\ e.ifname = d /\ e.index = i
             /\ \A c \in Ifnames : c # d => links'[c] = links[c]
             /\ links'[d].index \in {0, i}
             /\ \/ links[d].index = i /\ used' = used
                \/ i \notin used /\ used' = used \cup {i}
<1>1. links[d] \in Link /\ (links[d].index = 0 <=> links[d].state = "absent")
      /\ links \in [Ifnames -> Link] /\ linkEvents \in Seq(LinkEvent)
  BY DEF Shape, TypeOK, IndexedLinks
<1>2. ASSUME NEW i \in Ifindexes, NEW j \in {0, i}, NEW s, NEW type \in {"NEW", "DEL"},
             LinkChange(d, j, s, type),
             type = "DEL" => links[d].index = i, type = "NEW" => j = i,
             \/ links[d].index = i /\ used' = used
             \/ i \notin used /\ used' = used \cup {i}
      PROVE  \E k \in Ifindexes, e \in LinkEvent :
               /\ linkEvents' = Append(linkEvents, e) /\ e.ifname = d /\ e.index = k
               /\ \A c \in Ifnames : c # d => links'[c] = links[c]
               /\ links'[d].index \in {0, k}
               /\ \/ links[d].index = k /\ used' = used
                  \/ k \notin used /\ used' = used \cup {k}
  <2> DEFINE e == [type |-> type, ifname |-> d, index |-> IF type = "DEL" THEN links[d].index ELSE j,
                   running |-> s = "running"]
  <2>1. e \in LinkEvent /\ e.ifname = d /\ e.index = i
    BY <1>2 DEF LinkEvent
  <2>2. linkEvents' = Append(linkEvents, e) /\ links' = [links EXCEPT ![d] = [index |-> j, state |-> s]]
    BY <1>2 DEF LinkChange
  <2> HIDE DEF e
  <2>3. links'[d].index \in {0, i} /\ \A c \in Ifnames : c # d => links'[c] = links[c]
    BY <1>1, <2>2
  <2> QED BY <1>2, <2>1, <2>2, <2>3
<1>3. CASE LinkDelete(d)
  <2>1. PICK i \in Ifindexes : i = links[d].index
    BY <1>1, <1>3 DEF LinkDelete, PresentNames, Link
  <2>2. LinkChange(d, 0, "absent", "DEL") /\ used' = used
    BY <1>3 DEF LinkDelete
  <2> QED BY <1>2, <2>1, <2>2
<1>4. CASE LinkCreate(d)
  <2>1. PICK i \in Ifindexes \ used : LinkChange(d, i, "running", "NEW") /\ used' = used \cup {i}
    BY <1>4 DEF LinkCreate
  <2> QED BY <1>2, <2>1
<1>5. ASSUME NEW s \in {"down", "nocarrier", "running"}, LinkSet(d, s)
      PROVE  \E i \in Ifindexes, e \in LinkEvent :
             /\ linkEvents' = Append(linkEvents, e) /\ e.ifname = d /\ e.index = i
             /\ \A c \in Ifnames : c # d => links'[c] = links[c]
             /\ links'[d].index \in {0, i}
             /\ \/ links[d].index = i /\ used' = used
                \/ i \notin used /\ used' = used \cup {i}
  <2>1. PICK i \in Ifindexes : i = links[d].index
    BY <1>1, <1>5 DEF LinkSet, PresentNames, Link
  <2>2. LinkChange(d, i, s, "NEW") /\ used' = used
    BY <1>5, <2>1 DEF LinkSet
  <2> QED BY <1>2, <2>1, <2>2
<1> QED BY <1>3, <1>4, <1>5

\* Every step keeps an index with the netdev it was first given to.
LEMMA OwnerStep == ASSUME Shape, Shape', GoneStopped, OneOwner, [Next]_vars PROVE OneOwner'
<1>1. \A n \in DOMAIN interfaces' : EntryFrom(n)
  BY EntriesFrom
<1>2. linkEvents \in Seq(LinkEvent) /\ Len(linkEvents) \in Nat
  BY DEF Shape, TypeOK
<1>3. ASSUME NEW i \in Ifindexes, NEW d \in Ifnames,
             NEW n \in DOMAIN interfaces', interfaces'[n].ifindex = i, interfaces'[n].ifname = d
      PROVE  Claims(i, d)
  BY <1>1, <1>3 DEF EntryFrom, Claims
<1>4. ASSUME used' = used, \A d \in Ifnames : links'[d] = links[d],
             linkEvents' \in {linkEvents, Tail(linkEvents)}, linkEvents' = linkEvents \/ linkEvents # <<>>
      PROVE  OneOwner'
  <2>1. ASSUME NEW i \in Ifindexes, NEW d \in Ifnames, Claims(i, d)' PROVE Claims(i, d)
    <3>1. CASE \E p \in 1 .. Len(linkEvents') : linkEvents'[p].index = i /\ linkEvents'[p].ifname = d
      <4>1. PICK p \in 1 .. Len(linkEvents') : linkEvents'[p].index = i /\ linkEvents'[p].ifname = d
        BY <3>1
      <4>2. CASE linkEvents' = linkEvents
        BY <4>1, <4>2 DEF Claims
      <4>3. CASE linkEvents' = Tail(linkEvents) /\ linkEvents # <<>>
        <5>1. p + 1 \in 1 .. Len(linkEvents) /\ linkEvents'[p] = linkEvents[p + 1]
          BY <1>2, <4>1, <4>3
        <5> QED BY <4>1, <5>1 DEF Claims
      <4> QED BY <1>4, <4>2, <4>3
    <3> QED BY <1>3, <1>4, <2>1, <3>1 DEF Claims
  <2> QED BY <1>4, <2>1 DEF OneOwner
<1>5. ASSUME NEW d \in Ifnames,
             LinkDelete(d) \/ LinkCreate(d) \/ \E s \in {"down", "nocarrier", "running"} : LinkSet(d, s)
      PROVE  OneOwner'
  <2>1. PICK i \in Ifindexes, e \in LinkEvent :
             /\ linkEvents' = Append(linkEvents, e) /\ e.ifname = d /\ e.index = i
             /\ \A c \in Ifnames : c # d => links'[c] = links[c]
             /\ links'[d].index \in {0, i}
             /\ \/ links[d].index = i /\ used' = used
                \/ i \notin used /\ used' = used \cup {i}
    BY <1>5, LinkClaims
  <2>2. \A p \in 1 .. Len(linkEvents') :
            (p \in 1 .. Len(linkEvents) /\ linkEvents'[p] = linkEvents[p]) \/ linkEvents'[p] = e
    BY <1>2, <2>1
  <2>3. ASSUME NEW j \in Ifindexes, NEW c \in Ifnames, Claims(j, c)'
        PROVE  Claims(j, c) \/ (j = i /\ c = d)
    <3>1. CASE links'[c].index = j
      BY <2>1, <3>1, ArpAssumption DEF Claims
    <3>2. CASE \E p \in 1 .. Len(linkEvents') : linkEvents'[p].index = j /\ linkEvents'[p].ifname = c
      BY <2>1, <2>2, <3>2 DEF Claims
    <3> QED BY <1>3, <2>3, <3>1, <3>2 DEF Claims
  <2>4. Claims(i, d) \/ (i \notin used /\ used' = used \cup {i})
    BY <2>1 DEF Claims
  <2>5. used \subseteq used' /\ i \in used'
    BY <2>1, <2>4 DEF OneOwner
  <2> QED BY <2>3, <2>4, <2>5 DEF OneOwner
<1>6. CASE handleLinkEvent
  BY <1>4, <1>6, HandledEvent
<1>7. CASE UNCHANGED <<links, used, linkEvents>>
  BY <1>4, <1>7
<1> QED BY <1>5, <1>6, <1>7, HostTable, StartTable, ModesTable, ParseTable, ServeTable
        DEF Next, HostStep, vars, linkVars

\* Every step keeps what is known of entries a reload passed over.
LEMMA PassedStep ==
    ASSUME Shape, Shape', GoneStopped, OneOwner, PassedOver, [Next]_vars
    PROVE  PassedOver'
<1>1. CASE UNCHANGED <<interfaces, reload, links>>
  BY <1>1 DEF PassedOver, Idle
<1>2. ASSUME NEW d \in Ifnames,
             LinkDelete(d) \/ LinkCreate(d) \/ \E s \in {"down", "nocarrier", "running"} : LinkSet(d, s)
      PROVE  PassedOver'
  <2>1. UNCHANGED <<interfaces, reload>>
    BY <1>2, LinkTable
  <2>2. PICK i \in Ifindexes :
             /\ \A c \in Ifnames : c # d => links'[c] = links[c]
             /\ links'[d].index \in {0, i}
             /\ links[d].index = i \/ i \notin used
    BY <1>2, LinkClaims
  <2>3. ASSUME NEW n \in DOMAIN interfaces, interfaces[n].ifindex # 0,
               links[interfaces[n].ifname].index # interfaces[n].ifindex
        PROVE  links'[interfaces[n].ifname].index # interfaces[n].ifindex
    <3>1. interfaces[n].ifindex \in Ifindexes /\ interfaces[n].ifname \in Ifnames
      BY <2>3 DEF Shape, TypeOK, Interface, NewInterface
    <3>2. interfaces[n].ifindex \in used
      BY <3>1 DEF OneOwner, Claims
    <3> QED BY <2>2, <2>3, <3>1, <3>2
  <2> QED BY <2>1, <2>3 DEF PassedOver, Idle
<1>3. CASE handleLinkEvent
  <2>1. Idle /\ reload' = reload
    BY <1>3, HandledEvent
  <2> QED BY <2>1 DEF PassedOver, Idle
<1>4. ASSUME NEW file \in Files, ReloadStart(file) PROVE PassedOver'
  BY <1>4, StartTable DEF PassedOver
<1>5. ASSUME NEW n \in Names, parseInterfaceJSON(n) PROVE PassedOver'
  <2> DEFINE iface == findOrCreateInterface(n)
             entry == reload.file[n]
  <2>1. /\ DOMAIN interfaces' = DOMAIN interfaces \cup {n}
        /\ \A k \in DOMAIN interfaces : k # n => interfaces'[k] = interfaces[k]
        /\ Taken(n, entry, iface) \/ Rejected(n, entry, iface)
        /\ reload.phase = "parse" /\ reload'.phase = "parse" /\ reload'.file = reload.file
        /\ reload'.todo = reload.todo \ {n} /\ links' = links
    BY <1>5, ParseTable
  <2> HIDE DEF iface
  <2>2. ASSUME NEW m \in DOMAIN interfaces, m # n, m \in DOMAIN reload.file, m \notin reload'.inuse,
               m \notin reload'.todo, reload.file[m].ifname = {interfaces[m].ifname}
        PROVE  interfaces[m].ifindex = 0 \/ links[interfaces[m].ifname].index # interfaces[m].ifindex
    BY <2>1, <2>2 DEF Taken, Rejected, PassedOver, Idle
  <2>3. ASSUME n \notin reload'.inuse, entry.ifname = {interfaces'[n].ifname}
        PROVE  interfaces'[n].ifindex = 0 \/ links[interfaces'[n].ifname].index # interfaces'[n].ifindex
    <3>1. Rejected(n, entry, iface)
      BY <2>1, <2>3 DEF Taken
    <3>2. interfaces'[n].ifname \notin PresentNames
      BY <2>3, <3>1 DEF Rejected
    <3>3. interfaces'[n].ifindex = 0 \/ interfaces'[n].ifname \in Ifnames
      BY <2>1 DEF Shape, TypeOK, Interface, NewInterface
    <3> QED BY <3>2, <3>3 DEF PresentNames, Shape, IndexedLinks
  <2> QED BY <2>1, <2>2, <2>3 DEF PassedOver
<1>6. CASE ReloadModes
  <2>1. \A n \in DOMAIN interfaces : interfaces'[n].ifname = interfaces[n].ifname
                                     /\ interfaces'[n].ifindex = interfaces[n].ifindex
    BY <1>6, ModesTable
  <2>2. /\ DOMAIN interfaces' = DOMAIN interfaces /\ links' = links
        /\ reload.phase = "parse" /\ reload.todo = {}
        /\ reload'.file = reload.file /\ reload'.inuse = reload.inuse
    BY <1>6, ModesTable
  <2> QED BY <2>1, <2>2 DEF PassedOver, Idle
<1>7. ASSUME NEW n \in Names, ReloadServe(n) PROVE PassedOver'
  <2>1. /\ n \in DOMAIN interfaces /\ (ServedNow(n) \/ Closed(n))
        /\ \A k \in DOMAIN interfaces : k # n => interfaces'[k] = interfaces[k]
        /\ reload.phase = "serve" /\ reload'.phase # "parse" /\ links' = links
        /\ reload'.file = reload.file /\ reload'.inuse = reload.inuse
    BY <1>7, ServeTable
  <2>2. \A k \in DOMAIN interfaces' : k \in DOMAIN interfaces /\ (k # n \/ k \in reload.inuse)
    BY <2>1 DEF ServedNow, Closed
  <2> QED BY <2>1, <2>2 DEF PassedOver, Idle
<1> QED BY <1>1, <1>2, <1>3, <1>4, <1>5, <1>6, <1>7, HostTable DEF Next, HostStep, vars, linkVars, reloadVars

\* Indexes have one owner at every moment.
LEMMA OwnersAlways == Spec => [](GoneStopped /\ OneOwner /\ PassedOver)
<1>1. ASSUME Init PROVE GoneStopped /\ OneOwner /\ PassedOver
  <2>1. DOMAIN interfaces = {} /\ Len(linkEvents) = 0 /\ reload.phase = "idle"
    BY <1>1 DEF Init, NoFile
  <2>2. links \in Netdevs /\ used = {links[d].index : d \in Ifnames} \ {0}
    BY <1>1, LifecycleAssumption DEF Init
  <2>3. \A i, d : Claims(i, d) => links[d].index = i
    BY <2>1 DEF Claims
  <2>4. OneOwner
    BY <2>2, <2>3, ArpAssumption DEF OneOwner, Netdevs
  <2> QED BY <2>1, <2>4 DEF GoneStopped, PassedOver, Idle
<1> QED BY <1>1, GoneStep, OwnerStep, PassedStep, ShapeAlways, PTL DEF Spec

\* A reload that meets an interface it finds as it was clears none of its keys
\* and never switches its proxy_arp off on the way, however it is ordered among
\* other entries and however links change meanwhile.
THEOREM ReloadsUnfelt == Spec => NonDisruptive
<1>1. ASSUME Shape, GoneStopped, OneOwner, PassedOver, [Next]_vars
      PROVE  [~Idle => \A n \in DOMAIN interfaces \cap DOMAIN reload.file : Unfelt(n)]_vars
  <2> SUFFICES ASSUME Next, ~Idle, NEW n \in DOMAIN interfaces, n \in DOMAIN reload.file,
                      reload.file[n].ifname = {interfaces[n].ifname},
                      IfacesNamed(interfaces[n].ifname) = {n},
                      links[interfaces[n].ifname].index = interfaces[n].ifindex
               PROVE  /\ KeysAt(interfaces[n].ifindex) \subseteq mirroredNeighs'
                      /\ /\ interfaces[n].running /\ interfaces[n].arp = "relay"
                         /\ links' = links /\ interfaces[n].ifname \in proxyARP
                         => interfaces[n].ifname \in proxyARP'
    BY <1>1 DEF Unfelt
  <2> USE <1>1
  <2>1. \A m \in DOMAIN interfaces : m # n => interfaces[m].ifname # interfaces[n].ifname
    BY DEF IfacesNamed
  <2>2. ASSUME NEW d \in Ifnames,
               LinkDelete(d) \/ LinkCreate(d) \/ \E s \in {"down", "nocarrier", "running"} : LinkSet(d, s)
        PROVE  mirroredNeighs' = mirroredNeighs /\ (proxyARP' = proxyARP \/ links' # links)
    <3>1. mirroredNeighs' = mirroredNeighs
      BY <2>2, LinkTable
    <3>2. CASE LinkDelete(d)
      <4>1. links[d].state # "absent" /\ links' = [links EXCEPT ![d] = [index |-> 0, state |-> "absent"]]
        BY <3>2 DEF LinkDelete, LinkChange, PresentNames
      <4>2. links'[d].state = "absent"
        BY <4>1 DEF Shape, TypeOK
      <4> QED BY <3>1, <4>1, <4>2
    <3>3. CASE ~LinkDelete(d)
      BY <2>2, <3>1, <3>3 DEF LinkCreate, LinkSet, LinkChange
    <3> QED BY <3>2, <3>3
  <2>3. ASSUME NEW m \in Names, parseInterfaceJSON(m)
        PROVE  /\ KeysAt(interfaces[n].ifindex) \subseteq mirroredNeighs'
               /\ interfaces[n].ifname \in proxyARP => interfaces[n].ifname \in proxyARP'
    <3> DEFINE iface == findOrCreateInterface(m)
               entry == reload.file[m]
    <3>1. Taken(m, entry, iface) \/ Rejected(m, entry, iface)
      BY <2>3, ParseTable
    <3>2. iface = IF m \in DOMAIN interfaces THEN interfaces[m] ELSE NewInterface
      BY DEF findOrCreateInterface
    <3> HIDE DEF iface
    <3>3. CASE mirroredNeighs' = mirroredNeighs /\ proxyARP' = proxyARP
      BY <3>3 DEF KeysAt
    <3>4. CASE /\ Taken(m, entry, iface) /\ iface.ifindex # 0
               /\ <<interfaces'[m].ifname, interfaces'[m].ifindex>> # <<iface.ifname, iface.ifindex>>
      <4>1. m \in DOMAIN interfaces /\ iface = interfaces[m]
        BY <3>2, <3>4 DEF NewInterface
      <4>2. m # n
        <5>1. CASE m = n
          <6>1. interfaces'[n].ifname = interfaces[n].ifname /\ interfaces'[n].ifindex = interfaces[n].ifindex
            BY <3>4, <4>1, <5>1 DEF Taken, Bound
          <6> QED BY <3>4, <4>1, <5>1, <6>1
        <5> QED BY <5>1
      <4>3. interfaces[m].ifname # interfaces[n].ifname
        BY <2>1, <4>1, <4>2
      <4>4. proxyARP' = proxyARP \ {interfaces[m].ifname}
            /\ mirroredNeighs' = mirroredNeighs \ KeysAt(interfaces[m].ifindex)
        BY <3>4, <4>1 DEF Taken, clearMirroredState
      <4>5. interfaces[m].ifindex # interfaces[n].ifindex
        <5>1. interfaces[m].ifindex \in Ifindexes /\ interfaces[m].ifname \in Ifnames
          BY <3>4, <4>1 DEF Shape, TypeOK, Interface, NewInterface
        <5>2. CASE interfaces[n].ifindex \in Ifindexes
          <6>1. interfaces[n].ifname \in Ifnames
            BY <5>2, ArpAssumption DEF Shape, TypeOK, Interface, NewInterface
          <6> QED BY <4>1, <4>3, <5>1, <5>2, <6>1 DEF OneOwner, Claims
        <5> QED BY <5>1, <5>2
      <4> QED BY <4>3, <4>4, <4>5 DEF KeysAt
    <3> QED BY <3>1, <3>3, <3>4 DEF Taken, Rejected, KeepMirrors
  <2>4. ASSUME NEW m \in Names, ReloadServe(m)
        PROVE  /\ KeysAt(interfaces[n].ifindex) \subseteq mirroredNeighs'
               /\ /\ interfaces[n].running /\ interfaces[n].arp = "relay"
                  /\ interfaces[n].ifname \in proxyARP
                  => interfaces[n].ifname \in proxyARP'
    <3>1. /\ mirroredNeighs' = mirroredNeighs /\ m \in DOMAIN interfaces
          /\ reload.phase = "serve" /\ (ServedNow(m) \/ Closed(m))
      BY <2>4, ServeTable DEF KeepMirrors
    <3>2. CASE m # n
      <4>1. interfaces[m].ifname # interfaces[n].ifname
        BY <2>1, <3>1, <3>2
      <4>2. proxyARP \ {interfaces[m].ifname} \subseteq proxyARP'
        BY <3>1 DEF ServedNow, Closed, arpSetup
      <4> QED BY <3>1, <4>1, <4>2 DEF KeysAt
    <3>3. CASE m = n /\ ServedNow(n)
      BY <3>1, <3>3 DEF KeysAt, ServedNow, arpSetup
    <3>4. CASE m = n /\ Closed(n)
      <4>1. ~interfaces[n].running
        BY <3>1, <3>4 DEF Closed, PassedOver, GoneStopped
      <4> QED BY <3>1, <4>1 DEF KeysAt
    <3> QED BY <3>1, <3>2, <3>3, <3>4
  <2>5. CASE ReloadModes
    BY <2>5, ModesTable DEF KeysAt
  <2>6. /\ ~handleLinkEvent /\ ~reconcile
        /\ \A i \in Ifindexes : ~handleRouteEvent(i)
        /\ \A a \in Addrs, m \in DOMAIN interfaces : ~Learn(a, m) /\ ~Forget(a, m)
        /\ \A file \in Files : ~ReloadStart(file)
    BY DEF handleLinkEvent, reconcile, handleRouteEvent, Learn, Forget, ReloadStart
  <2>7. KeysAt(interfaces[n].ifindex) \subseteq mirroredNeighs
    BY DEF KeysAt
  <2>8. \/ \E d \in Ifnames : \/ LinkDelete(d) \/ LinkCreate(d)
                              \/ \E s \in {"down", "nocarrier", "running"} : LinkSet(d, s)
        \/ \E m \in Names : parseInterfaceJSON(m) \/ ReloadServe(m)
        \/ ReloadModes
    BY <2>6 DEF Next, HostStep
  <2> HIDE <1>1
  <2> QED BY <2>2, <2>3, <2>4, <2>5, <2>7, <2>8
<1> QED BY <1>1, OwnersAlways, ShapeAlways, PTL DEF Spec, NonDisruptive

=============================================================================
