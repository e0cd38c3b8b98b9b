------------------------------ MODULE Lifecycle ------------------------------
(***************************************************************************)
(* The life of an interface: configuration reloads (internal/relay/        *)
(* config.go), link events (handleLinkEvent in netlink.go) and the         *)
(* services both switch on and off, against netdevs that go down, come up, *)
(* vanish and return under a new index.                                    *)
(*                                                                         *)
(* Every handler is one closure on the engine goroutine.  Reload is split, *)
(* because it visits interfaces in Go's map order and reads each netdev    *)
(* from the kernel as it goes.  How a neighbor comes to be mirrored or     *)
(* reaped is NeighMirror's subject: here any host may be at any moment.    *)
(***************************************************************************)
EXTENDS Arp, Functions

CONSTANTS
    Home,        \* the netdev each host is behind
    Files,       \* the configuration files a reload may find
    FirstLinks,  \* the netdevs there may be when the daemon starts
    MaxReloads,  \* bound: number of reloads
    MaxChanges   \* bound: number of link changes

\* A file gives config keys their entries (jsonIface); an optional JSON value is
\* a set of at most one element.
Optional(S) == {{}} \cup {{v} : v \in S}
Entry == [ifname : Optional(Ifnames), master : Optional(BOOLEAN), routing : Optional(BOOLEAN)]

\* down: not IFF_UP; nocarrier: up, not IFF_RUNNING.
Link == [index : Ifindexes \cup {0}, state : {"absent", "down", "nocarrier", "running"}]

\* Netdevs as the kernel keeps them: no index is shared, index 0 is none.
Netdevs ==
    {l \in [Ifnames -> Link] :
        /\ \A d \in Ifnames : l[d].index = 0 <=> l[d].state = "absent"
        /\ \A c, d \in Ifnames : l[c].index = l[d].index => c = d \/ l[c].index = 0}

NoName == ""

ASSUME LifecycleAssumption ==
    /\ Home \in [Addrs -> Ifnames] /\ NoName \notin Ifnames
    /\ \A f \in Files : DOMAIN f \subseteq Names /\ \A n \in DOMAIN f : f[n] \in Entry
    /\ FirstLinks \subseteq Netdevs
    /\ MaxReloads \in Nat /\ MaxChanges \in Nat

VARIABLES
    links,           \* kernel: index and state of each netdev
    used,            \* kernel: indexes given out so far
    linkEvents,      \* kernel: RTM_NEWLINK/RTM_DELLINK snapshots not yet handled
    changes,         \* number of link changes so far
    mirroredNeighs,  \* keys the daemon believes mirrored
    reconcileScheduled,  \* a debounce timer for reconcile runs
    reload,          \* the running Reload: phase, file, interfaces to do, Inuse
    reloads,         \* number of reloads so far
    abandoned        \* history: indexes closed, or with routing switched off

linkVars == <<links, used, linkEvents, changes>>
reloadVars == <<reload, reloads>>
vars == <<interfaces, mirrorVars, linkVars, mirroredNeighs, reconcileScheduled, reloadVars,
          abandoned>>

NoFile == [n \in {} |-> {}]
Idle == reload.phase = "idle"

-----------------------------------------------------------------------------
(* Netdevs.                                                                *)

Present(i) == \E d \in Ifnames : links[d].index = i /\ links[d].state # "absent"
Up(i) == \E d \in Ifnames : links[d].index = i /\ links[d].state \in {"nocarrier", "running"}
PresentNames == {d \in Ifnames : links[d].state # "absent"}

\* A netdev that goes down loses its routes and NTF_PROXY entries, without an
\* RTM_DELROUTE; one that is deleted loses its sysctl too.
LinkChange(d, i, s, type) ==
    LET old == links[d].index
        lost == s \in {"down", "absent"}
    IN
    /\ changes < MaxChanges
    /\ changes' = changes + 1
    /\ links' = [links EXCEPT ![d] = [index |-> i, state |-> s]]
    /\ linkEvents' = Append(linkEvents,
           [type |-> type, ifname |-> d, index |-> IF type = "DEL" THEN old ELSE i,
            running |-> s = "running"])
    /\ proxyNeigh' = {p \in proxyNeigh : ~(lost /\ p[2] = old)}
    /\ hostRoute' = [a \in Addrs |-> IF lost /\ hostRoute[a] = old THEN NoRoute ELSE hostRoute[a]]
    /\ proxyARP' = IF s = "absent" THEN proxyARP \ {d} ELSE proxyARP
    /\ UNCHANGED <<interfaces, routeEvents, mirroredNeighs, reconcileScheduled, reloadVars,
                   abandoned>>

LinkSet(d, s) ==
    /\ d \in PresentNames /\ links[d].state # s
    /\ LinkChange(d, links[d].index, s, "NEW")
    /\ UNCHANGED used

LinkDelete(d) ==
    /\ d \in PresentNames
    /\ LinkChange(d, 0, "absent", "DEL")
    /\ UNCHANGED used

\* Indexes are given out in order and never reused.
LinkCreate(d) ==
    /\ d \notin PresentNames
    /\ \E i \in Ifindexes \ used : /\ \A j \in Ifindexes \ used : i <= j
                                   /\ LinkChange(d, i, "running", "NEW")
                                   /\ used' = used \cup {i}

-----------------------------------------------------------------------------
(* Services.                                                               *)

\* arpSetup(iface, on): the sysctl is found by name, if the netdev exists.
arpSetup(sysctl, iface, on) ==
    IF on /\ iface.arp = "relay" THEN sysctl \cup ({iface.ifname} \cap PresentNames)
                                 ELSE sysctl \ {iface.ifname}

\* dhcpv4Setup(iface, on): sockets are closed, and opened if the netdev exists.
dhcpv4Setup(iface, on) ==
    [iface EXCEPT !.dhcp = on /\ iface.dhcpv4 = "relay" /\ iface.ifname \in PresentNames]

\* Mutant: a change of link state is recorded, the services are not touched.
RecordOnly(n, iface) ==
    /\ interfaces' = [interfaces EXCEPT ![n] = iface]
    /\ UNCHANGED proxyARP

\* reloadServices on the entry of n, updated to iface.  Where the code calls
\* disableServices first, on the same netdev, this undoes it.
reloadServices(n, iface) ==
    /\ interfaces' = [interfaces EXCEPT ![n] = dhcpv4Setup(iface, iface.running)]
    /\ proxyARP' = arpSetup(proxyARP, iface, iface.running)

disableServices(n, iface) ==
    /\ interfaces' = [interfaces EXCEPT ![n] = dhcpv4Setup(iface, FALSE)]
    /\ proxyARP' = arpSetup(proxyARP, interfaces[n], FALSE)

KeysAt(i) == {k \in mirroredNeighs : k[2] = i}

\* Mutant: the kernel entries are withdrawn, the keys are kept.
KeepKeys(i) == Withdraw(KeysAt(i)) /\ UNCHANGED mirroredNeighs

\* clearMirroredState(iface), while the table still holds the old index.
clearMirroredState(i) ==
    /\ Withdraw(KeysAt(i))
    /\ mirroredNeighs' = mirroredNeighs \ KeysAt(i)

KeepMirrors == UNCHANGED <<proxyNeigh, hostRoute, routeEvents, mirroredNeighs>>

-----------------------------------------------------------------------------
(* handleLinkEvent.                                                        *)

\* ifaceByIfname: Go picks any of the entries with that name.
IfacesNamed(d) == {n \in DOMAIN interfaces : interfaces[n].ifname = d}

\* The event e for the table entry n it is about.
linkEvent(n, e) ==
    LET iface == interfaces[n]
        now == [iface EXCEPT !.ifindex = e.index, !.running = e.running]
    IN
    \/ /\ e.type = "DEL" /\ iface.ifindex = e.index
       /\ disableServices(n, [now EXCEPT !.ifindex = 0, !.running = FALSE])
       /\ clearMirroredState(iface.ifindex)
    \/ /\ e.type = "NEW" /\ iface.ifindex = e.index /\ iface.running # e.running
       /\ reloadServices(n, now)
       /\ KeepMirrors
    \/ /\ e.type = "NEW" /\ iface.ifindex # e.index
       /\ reloadServices(n, now)
       /\ clearMirroredState(iface.ifindex)
    \/ /\ \/ e.type = "DEL" /\ iface.ifindex # e.index
          \/ e.type = "NEW" /\ iface.ifindex = e.index /\ iface.running = e.running
       /\ UNCHANGED <<interfaces, proxyARP>> /\ KeepMirrors

handleLinkEvent ==
    /\ Idle /\ linkEvents # <<>>
    /\ linkEvents' = Tail(linkEvents)
    /\ LET e == Head(linkEvents) IN
       IF IfacesNamed(e.ifname) = {}
       THEN UNCHANGED <<interfaces, proxyARP>> /\ KeepMirrors
       ELSE \E n \in IfacesNamed(e.ifname) : linkEvent(n, e)
    /\ UNCHANGED <<links, used, changes, reconcileScheduled, reloadVars, abandoned>>

-----------------------------------------------------------------------------
(* Hosts, and the self-healing of handleRouteEvent.                        *)

\* arpMirrorAddr(..., true) for the keys of K: requests that name a netdev that
\* is gone, and routes through one that is down, fail.
Install(K, masters) ==
    /\ proxyARP' = proxyARP \cup ({interfaces[n].ifname : n \in masters} \cap PresentNames)
    /\ proxyNeigh' = proxyNeigh \cup {p \in Proxies(K) : Present(p[2])}
    /\ hostRoute' \in RoutesAfterReplace({k \in K : Up(k[2])})

Relaying(n) == interfaces[n].arp = "relay"

\* A host behind n's netdev resolves, or gets a lease.
Learn(a, n) ==
    LET k == <<a, interfaces[n].ifindex>> IN
    /\ Idle /\ Relaying(n)
    /\ interfaces[n].ifname = Home[a] /\ k[2] # 0 /\ k \notin mirroredNeighs
    /\ mirroredNeighs' = mirroredNeighs \cup {k}
    /\ Install({k}, MirrorTargets(k[2]))
    /\ UNCHANGED <<interfaces, routeEvents, linkVars, reconcileScheduled, reloadVars, abandoned>>

\* It fails, releases its lease, or is swept (which finds leftover routes too).
Forget(a, n) ==
    LET k == <<a, interfaces[n].ifindex>> IN
    /\ Idle /\ Relaying(n)
    /\ k \in mirroredNeighs \/ (k[2] # 0 /\ hostRoute[a] = k[2])
    /\ mirroredNeighs' = mirroredNeighs \ {k}
    /\ RemoveMirror({k})
    /\ UNCHANGED <<interfaces, linkVars, reconcileScheduled, reloadVars, abandoned>>

\* An RTM_DELROUTE of ours: the last one for its index, or one of several.
handleRouteEvent(i) ==
    /\ Idle /\ i \in routeEvents
    /\ routeEvents' \in {routeEvents, routeEvents \ {i}}
    /\ reconcileScheduled' = (reconcileScheduled \/ \E n \in IfacesAt(i) : Relaying(n))
    /\ UNCHANGED <<interfaces, proxyARP, proxyNeigh, hostRoute, mirroredNeighs, linkVars,
                   reloadVars, abandoned>>

\* The closure of scheduleReconcile's timer, with reconcileKernelState.
reconcile ==
    /\ Idle /\ reconcileScheduled
    /\ reconcileScheduled' = FALSE
    /\ Install({k \in mirroredNeighs : IfacesAt(k[2]) # {}},
               {n \in DOMAIN interfaces : Relaying(n)})
    /\ UNCHANGED <<interfaces, routeEvents, mirroredNeighs, linkVars, reloadVars, abandoned>>

-----------------------------------------------------------------------------
(* Reload.                                                                 *)

\* Mutant: arpproxy_routing keeps its last value.
ServiceDefaults(iface) == [iface EXCEPT !.dhcpv4 = "relay", !.arp = "relay"]

setInterfaceDefaults(iface) ==
    [iface EXCEPT !.dhcpv4 = "relay", !.arp = "relay", !.learnRoutes = TRUE]

NewInterface ==
    [ifname |-> NoName, ifindex |-> 0, running |-> FALSE, master |-> FALSE,
     learnRoutes |-> TRUE, dhcpv4 |-> "relay", arp |-> "relay", dhcp |-> FALSE]

\* The file is read after the defaults are set; one that cannot be read or
\* parsed has no entries.
ReloadStart(file) ==
    /\ Idle /\ reloads < MaxReloads
    /\ reloads' = reloads + 1
    /\ reload' = [phase |-> "parse", file |-> file, todo |-> DOMAIN file, inuse |-> {}]
    /\ interfaces' = [n \in DOMAIN interfaces |-> setInterfaceDefaults(interfaces[n])]
    /\ UNCHANGED <<mirrorVars, linkVars, mirroredNeighs, reconcileScheduled, abandoned>>

\* The value of an optional setting, old if it is not stated.
Stated(option, old) == IF option = {} THEN old ELSE CHOOSE v \in option : TRUE

findOrCreateInterface(n) == IF n \in DOMAIN interfaces THEN interfaces[n] ELSE NewInterface

\* The table with iface as the entry of n.
TableWith(n, iface) ==
    [m \in DOMAIN interfaces \cup {n} |-> IF m = n THEN iface ELSE interfaces[m]]

\* What the entry makes of iface, with the netdev's present index and state.
Configured(iface, entry) ==
    LET d == Stated(entry.ifname, iface.ifname)
        fresh == IF entry.ifname = {} THEN iface
                 ELSE [iface EXCEPT !.ifname = d, !.ifindex = links[d].index,
                                    !.running = links[d].state = "running"]
    IN  [fresh EXCEPT !.master = Stated(entry.master, iface.master),
                      !.learnRoutes = Stated(entry.routing, iface.learnRoutes)]

\* Mutant: every reload starts the interface over.
RestartInterface(n) ==
    LET iface == findOrCreateInterface(n)
        entry == reload.file[n]
    IN
    /\ reload.phase = "parse" /\ n \in reload.todo
    /\ entry.ifname # {} /\ entry.ifname \subseteq PresentNames
    /\ reload' = [reload EXCEPT !.todo = @ \ {n}, !.inuse = @ \cup {n}]
    /\ interfaces' = TableWith(n, dhcpv4Setup(Configured(iface, entry), FALSE))
    /\ proxyARP' = arpSetup(proxyARP, iface, FALSE)
    /\ clearMirroredState(iface.ifindex)
    /\ UNCHANGED <<linkVars, reconcileScheduled, reloads, abandoned>>

\* parseInterfaceJSON for config key n.
parseInterfaceJSON(n) ==
    LET iface == findOrCreateInterface(n)
        entry == reload.file[n]
        new == Configured(iface, entry)
        ok == IF entry.ifname = {} THEN iface.ifname # NoName
                                   ELSE entry.ifname \subseteq PresentNames
        moved == /\ ok /\ iface.ifindex # 0
                 /\ <<new.ifname, new.ifindex>> # <<iface.ifname, iface.ifindex>>
    IN
    /\ reload.phase = "parse" /\ n \in reload.todo
    /\ reload' = [reload EXCEPT !.todo = @ \ {n}, !.inuse = IF ok THEN @ \cup {n} ELSE @]
    /\ interfaces' = TableWith(n, IF moved THEN dhcpv4Setup(new, FALSE)
                                 ELSE IF ok THEN new ELSE iface)
    /\ proxyARP' = IF moved THEN arpSetup(proxyARP, iface, FALSE) ELSE proxyARP
    /\ IF moved THEN clearMirroredState(iface.ifindex) ELSE KeepMirrors
    /\ abandoned' = IF ok /\ ~new.learnRoutes THEN abandoned \cup {new.ifindex} ELSE abandoned
    /\ UNCHANGED <<linkVars, reconcileScheduled, reloads>>

\* "Disable master relay if there is no slave": every entry of the table counts,
\* also one this reload is about to close.
ReloadModes ==
    LET slaves == {n \in DOMAIN interfaces : ~interfaces[n].master} IN
    /\ reload.phase = "parse" /\ reload.todo = {}
    /\ reload' = [reload EXCEPT !.phase = IF interfaces = NoFile THEN "idle" ELSE "serve",
                                !.todo = DOMAIN interfaces]
    /\ interfaces' = IF slaves # {} THEN interfaces
                     ELSE [n \in DOMAIN interfaces |->
                              [interfaces[n] EXCEPT !.dhcpv4 = "disabled", !.arp = "disabled"]]
    /\ UNCHANGED <<mirrorVars, linkVars, mirroredNeighs, reconcileScheduled, reloads, abandoned>>

\* Mutant: the services are stopped, the entry stays in the table.
StopInterface(n) ==
    /\ interfaces' = [interfaces EXCEPT ![n].dhcp = FALSE]
    /\ proxyARP' = arpSetup(proxyARP, interfaces[n], FALSE)
    /\ UNCHANGED abandoned

closeInterface(n) ==
    /\ interfaces' = Restrict(interfaces, DOMAIN interfaces \ {n})
    /\ proxyARP' = arpSetup(proxyARP, interfaces[n], FALSE)
    /\ abandoned' = abandoned \cup {interfaces[n].ifindex}

ReloadServe(n) ==
    /\ reload.phase = "serve" /\ n \in reload.todo
    /\ reload' = [reload EXCEPT !.todo = @ \ {n},
                                !.phase = IF reload.todo = {n} THEN "idle" ELSE "serve"]
    /\ \/ n \in reload.inuse /\ reloadServices(n, interfaces[n]) /\ UNCHANGED abandoned
       \/ n \notin reload.inuse /\ closeInterface(n)
    /\ KeepMirrors
    /\ UNCHANGED <<linkVars, reconcileScheduled, reloads>>

-----------------------------------------------------------------------------
Init ==
    /\ interfaces = NoFile
    /\ links \in FirstLinks
    /\ used = {links[d].index : d \in Ifnames} \ {0}
    /\ linkEvents = <<>> /\ changes = 0
    /\ proxyNeigh = {} /\ routeEvents = {} /\ proxyARP = {}
    /\ hostRoute = [a \in Addrs |-> NoRoute]
    /\ mirroredNeighs = {} /\ reconcileScheduled = FALSE
    /\ reload = [phase |-> "idle", file |-> NoFile, todo |-> {}, inuse |-> {}]
    /\ reloads = 0
    /\ abandoned = {}

Next ==
    \/ \E d \in Ifnames : \/ LinkDelete(d) \/ LinkCreate(d)
                          \/ \E s \in {"down", "nocarrier", "running"} : LinkSet(d, s)
    \/ handleLinkEvent
    \/ \E a \in Addrs, n \in DOMAIN interfaces : Learn(a, n) \/ Forget(a, n)
    \/ reconcile
    \/ \E i \in Ifindexes : handleRouteEvent(i)
    \/ \E file \in Files : ReloadStart(file)
    \/ \E n \in Names : parseInterfaceJSON(n) \/ ReloadServe(n)
    \/ ReloadModes

Spec == Init /\ [][Next]_vars

-----------------------------------------------------------------------------
(* Properties.                                                             *)

LinkEvent == [type : {"NEW", "DEL"}, ifname : Ifnames, index : Ifindexes, running : BOOLEAN]

TypeOK ==
    /\ DOMAIN interfaces \subseteq Names
    /\ \A n \in DOMAIN interfaces :
           interfaces[n] \in Interface \/ (~Idle /\ interfaces[n] = NewInterface)
    /\ links \in [Ifnames -> Link] /\ used \subseteq Ifindexes
    /\ linkEvents \in Seq(LinkEvent) /\ changes \in 0 .. MaxChanges
    /\ proxyNeigh \subseteq Key
    /\ hostRoute \in [Addrs -> Ifindexes \cup {NoRoute}]
    /\ routeEvents \subseteq Ifindexes /\ proxyARP \subseteq Ifnames
    /\ mirroredNeighs \subseteq Key /\ reconcileScheduled \in BOOLEAN
    /\ reload \in [phase : {"idle", "parse", "serve"}, file : Files \cup {NoFile},
                  todo : SUBSET Names, inuse : SUBSET Names]
    /\ reload.inuse \subseteq DOMAIN reload.file
    /\ reloads \in 0 .. MaxReloads /\ abandoned \subseteq Ifindexes \cup {0}

Quiescent == Idle /\ linkEvents = <<>>

\* No two config keys ever name one netdev.  A link event is applied to one of
\* the entries with its name, and closing an entry turns off the proxy_arp of
\* its netdev, so without this the table need not settle.
DistinctNetdevs ==
    \A f, g \in Files : \A m \in DOMAIN f, n \in DOMAIN g :
        m # n => f[m].ifname \cap g[n].ifname = {}

\* Once every link event is handled the table agrees with the kernel, and a
\* running interface has the services its modes ask for, however reloads and
\* link changes (a re-created netdev included) were interleaved.
Settled ==
    Quiescent => \A n \in DOMAIN interfaces :
        LET iface == interfaces[n]
            link == links[iface.ifname]
        IN
        /\ iface.ifindex = link.index
        /\ iface.running = (link.state = "running")
        /\ iface.dhcp = (iface.running /\ iface.dhcpv4 = "relay")
        /\ iface.running /\ iface.arp = "relay" => iface.ifname \in proxyARP

\* Outside the indexes a reload abandoned, every key the daemon tracks belongs
\* to an interface it still has and every host route belongs to a tracked key:
\* a netdev that vanished or was replaced leaves nothing behind.
NothingStranded ==
    Quiescent =>
        /\ \A k \in mirroredNeighs : k[2] \in abandoned \/ IfacesAt(k[2]) # {}
        /\ \A a \in Addrs : \/ hostRoute[a] \in abandoned \cup {NoRoute}
                            \/ <<a, hostRoute[a]>> \in mirroredNeighs

\* The entry n of the file names a netdev that exists.
Bindable(n) == reload.file[n].ifname # {} /\ reload.file[n].ifname \subseteq PresentNames

\* The last file is in force whatever link events and reloads came before: with
\* the daemon idle the table holds nothing the file does not list, a setting it
\* states has that value, and one it leaves out has its default, except `master`,
\* which then keeps its last value (config.go:112-114).  While no netdev has
\* changed, nothing it lists is missing either: a file that could not be read,
\* which empties the table, costs nothing once a good one is loaded.
ConfigInForce ==
    Idle =>
        /\ \A n \in DOMAIN interfaces :
               /\ n \in DOMAIN reload.file
               /\ interfaces[n].learnRoutes = Stated(reload.file[n].routing, TRUE)
               /\ reload.file[n].master \subseteq {interfaces[n].master}
               /\ ~interfaces[n].master =>
                      interfaces[n].arp = "relay" /\ interfaces[n].dhcpv4 = "relay"
        /\ changes = 0 => {n \in DOMAIN reload.file : Bindable(n)} \subseteq DOMAIN interfaces

\* A reload is not felt where nothing changed: a key of an interface that is
\* configured as before, on the netdev it was learned on, stays mirrored and the
\* proxy_arp of a running interface stays on.
Unfelt(n) ==
    LET iface == interfaces[n]
        same == /\ reload.file[n].ifname = {iface.ifname}
                /\ IfacesNamed(iface.ifname) = {n}
                /\ links[iface.ifname].index = iface.ifindex
        served == /\ iface.running /\ iface.arp = "relay" /\ links' = links
                  /\ iface.ifname \in proxyARP
    IN  same => /\ KeysAt(iface.ifindex) \subseteq mirroredNeighs'
                /\ served => iface.ifname \in proxyARP'

NonDisruptive == [][~Idle => \A n \in DOMAIN interfaces \cap DOMAIN reload.file : Unfelt(n)]_vars

-----------------------------------------------------------------------------
(* What comments of the code say of it, and the code does not do.          *)

\* Reload: "Only drop interfaces that are no longer present in the reloaded
\* config at all" (config.go:225-227), so that a later link event finds them.
StaysRegistered == Idle => DOMAIN reload.file \subseteq DOMAIN interfaces

\* arpSetup: "on master interfaces the NTF_PROXY entries installed per mirrored
\* client [...] make the box answer upstream ARP requests for relayed client
\* addresses" (arp.go:44-46): with all events handled they are there.
MastersAnswer ==
    Quiescent /\ routeEvents = {} /\ ~reconcileScheduled =>
        {p \in Proxies(mirroredNeighs) : Up(p[2])} \subseteq proxyNeigh

=============================================================================
