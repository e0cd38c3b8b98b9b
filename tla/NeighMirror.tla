----------------------------- MODULE NeighMirror -----------------------------
(***************************************************************************)
(* The neighbor-mirroring core of ipv4-relay: the engine's handlers that   *)
(* keep proxy-ARP entries and /32 host routes in step with the kernel's    *)
(* neighbor cache and with DHCP leases (internal/relay/netlink.go, arp.go, *)
(* dhcpv4.go), run against a kernel whose tables other programs and other  *)
(* hosts change at any moment.                                             *)
(*                                                                         *)
(* Each handler is one closure on the single engine goroutine, hence one   *)
(* action; only the periodic sweep is split, because it acts on a list of  *)
(* neighbors the kernel may have changed since it was read.                *)
(***************************************************************************)
EXTENDS NeighCache

CONSTANTS
    Configs,     \* the interface tables Reload may have built
    Locations,   \* the keys at which a host can live
    Echo82,      \* do servers return option 82, as RFC 3046 asks?
    Overheard,   \* do a master's sockets hear replies to upstream's own clients?
    MaxPending,  \* bound: unhandled snapshots per key before the kernel waits
    MaxFlushes   \* bound: number of external flushes

\* Reload always sets a slave's services to relay (setInterfaceDefaults at
\* config.go:188-191; only masters are disabled, config.go:213-223).
ASSUME MirrorAssumption ==
    /\ \A c \in Configs :
          /\ DOMAIN c \subseteq Names
          /\ \A n \in DOMAIN c :
                /\ c[n] \in Interface
                /\ c[n].ifindex # 0
                /\ ~c[n].master => c[n].arp = "relay" /\ c[n].dhcpv4 = "relay"
          /\ \A m, n \in DOMAIN c : c[m].ifindex = c[n].ifindex => m = n
    /\ Locations \subseteq Key
    /\ Echo82 \in BOOLEAN /\ Overheard \in BOOLEAN
    /\ MaxPending \in Nat /\ MaxFlushes \in Nat

VARIABLES
    at,                  \* which interface each host is really behind, 0: none
    flushes,             \* number of external flushes so far
    mirroredNeighs,      \* keys the daemon believes mirrored
    reconcileScheduled,  \* a reconcile timer or closure is outstanding
    sweepTodo,           \* interfaces the running sweep has not finished
    sweepCur,            \* {n}: n's neighbors are listed, not yet acted upon
    sweepSeen            \* that list: state of each address, "none" if absent

engineVars == <<mirroredNeighs, reconcileScheduled>>
sweepVars == <<sweepTodo, sweepCur, sweepSeen>>
worldVars == <<interfaces, at, flushes>>
vars == <<kernelVars, engineVars, sweepVars, worldVars>>

Nowhere == 0
NoCircuit == -1
NothingSeen == [a \in Addrs |-> "none"]

\* A sweep occupies the engine goroutine until it has done every interface.
EngineIdle == sweepTodo = {}

RelayNames == {n \in DOMAIN interfaces : interfaces[n].arp = "relay"}

\* The keys handleNeighEvent does not turn away.
Tracked(k) == k[1] \notin LinkLocal /\ IfacesAt(k[2]) \cap RelayNames # {}

-----------------------------------------------------------------------------
(* The world outside the daemon.                                           *)

HostMove(a, i) ==
    /\ <<a, i>> \in Locations /\ at[a] # i
    /\ at' = [at EXCEPT ![a] = i]
    /\ UNCHANGED <<kernelVars, engineVars, sweepVars, interfaces, flushes>>

HostLeave(a) ==
    /\ at[a] # Nowhere
    /\ at' = [at EXCEPT ![a] = Nowhere]
    /\ UNCHANGED <<kernelVars, engineVars, sweepVars, interfaces, flushes>>

\* The kernel moves the entry of k from one of the states in from to s.
KernelDrives(k, from, s) ==
    /\ neigh[k] \in from
    /\ Len(neighEvents[k]) < MaxPending
    /\ Drive([neigh EXCEPT ![k] = s], neighEvents)
    /\ UNCHANGED <<mirrorVars, engineVars, sweepVars, worldVars>>

KernelConfirm(k) == at[k[1]] = k[2] /\ KernelDrives(k, NUD \ {"reachable"}, "reachable")
KernelAge(k) == KernelDrives(k, {"reachable"}, "stale")
KernelProbe(k) == KernelDrives(k, {"stale"}, "probe")
KernelFail(k) == KernelDrives(k, {"incomplete", "probe"}, "failed")

\* Traffic for an unresolved address, and garbage collection of an idle entry:
\* neither produces an RTM_NEWNEIGH.
KernelSilent(k, from, s) ==
    /\ neigh[k] \in from
    /\ neigh' = [neigh EXCEPT ![k] = s]
    /\ UNCHANGED <<neighEvents, mirrorVars, engineVars, sweepVars, worldVars>>

KernelSolicit(k) == KernelSilent(k, {"none", "failed"}, "incomplete")
KernelCollect(k) == KernelSilent(k, {"stale", "failed"}, "none")

\* `netplan apply`: our routes through the interfaces in S are flushed and
\* their proxy_arp is reset, in one pass (the comment at netlink.go:270-276).
ExternalFlush(S) ==
    LET idx == {interfaces[n].ifindex : n \in S} IN
    /\ flushes < MaxFlushes
    /\ flushes' = flushes + 1
    /\ hostRoute' = [a \in Addrs |-> IF hostRoute[a] \in idx THEN NoRoute ELSE hostRoute[a]]
    /\ routeEvents' = routeEvents \cup {i \in idx : \E a \in Addrs : hostRoute[a] = i}
    /\ proxyARP' = proxyARP \ {interfaces[n].ifname : n \in S}
    /\ UNCHANGED <<neigh, neighEvents, proxyNeigh, engineVars, sweepVars, interfaces, at>>

-----------------------------------------------------------------------------
(* Engine closures.                                                        *)

\* One pending snapshot of k.  Snapshots of one key arrive in order; nothing is
\* assumed about the order between keys.
handleNeighEvent(k) ==
    LET s == Head(neighEvents[k])
        rest == [neighEvents EXCEPT ![k] = Tail(neighEvents[k])]
    IN
    /\ EngineIdle
    /\ neighEvents[k] # <<>>
    /\ \/ /\ Tracked(k) /\ s \in Resolved /\ k \notin mirroredNeighs
          /\ mirroredNeighs' = mirroredNeighs \cup {k}
          /\ InstallMirror({k})
          /\ neighEvents' = rest
          /\ UNCHANGED neigh
       \/ /\ Tracked(k) /\ s = "failed"
          /\ mirroredNeighs' = mirroredNeighs \ {k}
          /\ RemoveMirror({k} \cap mirroredNeighs)
          /\ deleteNeigh4({k}, rest)
       \/ /\ ~Tracked(k) \/ (s \in Resolved /\ k \in mirroredNeighs)
          /\ neighEvents' = rest
          /\ UNCHANGED <<neigh, mirroredNeighs, mirrorVars>>
    /\ UNCHANGED <<reconcileScheduled, sweepVars, worldVars>>

\* Mutant: the loss of a route on a slave is not taken for a reason to reconcile.
MasterRouteEvent(i) ==
    /\ EngineIdle
    /\ i \in routeEvents
    /\ routeEvents' \in {routeEvents, routeEvents \ {i}}
    /\ reconcileScheduled' =
          (reconcileScheduled \/ \E n \in IfacesAt(i) \cap RelayNames : interfaces[n].master)
    /\ UNCHANGED <<neigh, neighEvents, proxyNeigh, hostRoute, proxyARP,
                   mirroredNeighs, sweepVars, worldVars>>

\* An RTM_DELROUTE of ours on interface i; the flush that caused it may have
\* sent more of them.
handleRouteEvent(i) ==
    /\ EngineIdle
    /\ i \in routeEvents
    /\ routeEvents' \in {routeEvents, routeEvents \ {i}}
    /\ reconcileScheduled' =
          (reconcileScheduled \/ IfacesAt(i) \cap RelayNames # {})
    /\ UNCHANGED <<neigh, neighEvents, proxyNeigh, hostRoute, proxyARP,
                   mirroredNeighs, sweepVars, worldVars>>

\* The keys whose interface is (still) registered, as ifaceByIndex finds it.
Registered == {k \in mirroredNeighs : IfacesAt(k[2]) # {}}

\* Mutant: the sysctl is restored but the mirrors are not re-asserted.
SysctlOnlyReconcile ==
    /\ proxyARP' = setProxyARP(RelayNames)
    /\ UNCHANGED <<proxyNeigh, hostRoute, routeEvents>>

\* Mutant: only the masters of mirrored hosts get proxy_arp back.
MirrorOnlyReconcile == InstallMirror(Registered)

\* reconcileKernelState: re-assert the sysctl everywhere, then every mirror.
reconcileKernelState ==
    /\ proxyARP' = setProxyARP(RelayNames)
    /\ proxyNeigh' = proxyNeigh \cup Proxies(Registered)
    /\ hostRoute' \in RoutesAfterReplace(Registered)
    /\ UNCHANGED routeEvents

\* The closure posted by scheduleReconcile's timer.
reconcile ==
    /\ EngineIdle
    /\ reconcileScheduled
    /\ reconcileScheduled' = FALSE
    /\ reconcileKernelState
    /\ UNCHANGED <<neigh, neighEvents, mirroredNeighs, sweepVars, worldVars>>

\* sweepFailedAndOrphans, posted by startMirrorSweep's timer.
SweepStart ==
    /\ EngineIdle
    /\ RelayNames # {}
    /\ sweepTodo' = RelayNames
    /\ UNCHANGED <<kernelVars, engineVars, sweepCur, sweepSeen, worldVars>>

\* sweepIfaceFailedAndOrphans(n): NeighList.
SweepList(n) ==
    /\ sweepCur = {} /\ n \in sweepTodo
    /\ sweepCur' = {n}
    /\ sweepSeen' = [a \in Addrs |-> neigh[<<a, interfaces[n].ifindex>>]]
    /\ UNCHANGED <<kernelVars, engineVars, sweepTodo, worldVars>>

\* The sweep's live map: listed, not FAILED (so INCOMPLETE is live).
Live == {a \in Addrs \ LinkLocal : sweepSeen[a] \notin {"none", "failed"}}

\* Mutant: only what this run of the daemon has mirrored is looked at.
SweptTracked(i) == {a \in Addrs : sweepSeen[a] \notin Resolved /\ <<a, i>> \in mirroredNeighs}

\* The addresses whose mirror on interface index i the sweep tears down.
Swept(i) == {a \in Addrs : \/ sweepSeen[a] = "failed" /\ <<a, i>> \in mirroredNeighs
                           \/ a \notin Live /\ hostRoute[a] = i}

\* Mutant: STALE entries are left alone.
ProbeNothing(i) == {}

\* probeNeighbor has an effect only on an entry that is still resolved.
Probed(i) == {<<a, i>> : a \in {a \in Live : /\ sweepSeen[a] = "stale"
                                             /\ neigh[<<a, i>>] \in Resolved}}

\* sweepIfaceFailedAndOrphans(n): reap, probe, then RouteList and orphans.
SweepAct(n) ==
    LET i == interfaces[n].ifindex
        gone == {<<a, i>> : a \in Swept(i)}
        failed == {<<a, i>> : a \in {a \in Addrs : sweepSeen[a] = "failed"}}
    IN
    /\ sweepCur = {n}
    /\ mirroredNeighs' = mirroredNeighs \ gone
    /\ RemoveMirror(gone)
    /\ Drive([k \in Key |-> IF k \in failed THEN "none"
                            ELSE IF k \in Probed(i) THEN "probe"
                            ELSE neigh[k]], neighEvents)
    /\ sweepTodo' = sweepTodo \ {n}
    /\ sweepCur' = {}
    /\ sweepSeen' = NothingSeen
    /\ UNCHANGED <<reconcileScheduled, worldVars>>

-----------------------------------------------------------------------------
(* DHCP messages that touch the mirrors, read by the engine from sockets.  *)

DHCPSlaves == {n \in DOMAIN interfaces : /\ ~interfaces[n].master
                                         /\ interfaces[n].dhcpv4 = "relay"
                                         /\ interfaces[n].dhcp}

\* relayServerResponse's targets for circuit-id cid: the slave it names, else
\* every slave with an open socket.
Targets(cid) ==
    LET named == {n \in IfacesAt(cid) : ~interfaces[n].master}
    IN  IF named # {} THEN named ELSE DHCPSlaves

\* The circuit-ids an ACK for a can carry: the slave our relayed request came in
\* by, if the server echoes it; none in a reply to a client we did not relay.
Circuits(a) ==
    LET own == {i \in Ifindexes : /\ <<a, i>> \in Locations
                                  /\ \E n \in IfacesAt(i) : ~interfaces[n].master}
        others == {i \in Ifindexes : <<a, i>> \in Locations /\ Overheard} \ own
    IN  {IF Echo82 THEN i ELSE NoCircuit : i \in own} \cup {NoCircuit : i \in others}

\* A DHCPACK for a: mirror it behind every target, then seed its ARP entry.
relayServerResponse(a, cid) ==
    LET keys == {<<a, interfaces[t].ifindex>> : t \in Targets(cid)}
        fresh == keys \ mirroredNeighs
    IN
    /\ EngineIdle
    /\ at[a] # Nowhere /\ a \notin LinkLocal
    /\ cid \in Circuits(a)
    /\ \A k \in keys : Len(neighEvents[k]) < MaxPending
    /\ \E n \in DOMAIN interfaces : interfaces[n].master /\ interfaces[n].dhcp
    /\ mirroredNeighs' = mirroredNeighs \cup keys
    /\ InstallMirror(fresh)
    /\ seedNeighbor4(keys)
    /\ UNCHANGED <<reconcileScheduled, sweepVars, worldVars>>

\* Mutant: the ARP cache entry is not deleted with the mirror.
KeepEntryUnmirror(a, n) ==
    LET k == <<a, interfaces[n].ifindex>> IN
    /\ EngineIdle
    /\ n \in DHCPSlaves /\ k \in mirroredNeighs
    /\ mirroredNeighs' = mirroredNeighs \ {k}
    /\ RemoveMirror({k})
    /\ UNCHANGED <<neigh, neighEvents, reconcileScheduled, sweepVars, worldVars>>

\* A DHCPRELEASE or DHCPDECLINE of a received on slave n.
unmirrorClient(a, n) ==
    LET k == <<a, interfaces[n].ifindex>> IN
    /\ EngineIdle
    /\ n \in DHCPSlaves /\ k \in mirroredNeighs
    /\ mirroredNeighs' = mirroredNeighs \ {k}
    /\ RemoveMirror({k})
    /\ deleteNeigh4({k}, neighEvents)
    /\ UNCHANGED <<reconcileScheduled, sweepVars, worldVars>>

-----------------------------------------------------------------------------
Init ==
    /\ interfaces \in Configs
    /\ neigh = [k \in Key |-> "none"]
    /\ neighEvents = [k \in Key |-> <<>>]
    /\ proxyNeigh = {}
    /\ hostRoute = [a \in Addrs |-> NoRoute]
    /\ routeEvents = {}
    /\ proxyARP = {interfaces[n].ifname : n \in RelayNames}
    /\ at = [a \in Addrs |-> Nowhere]
    /\ flushes = 0
    /\ mirroredNeighs = {}
    /\ reconcileScheduled = FALSE
    /\ sweepTodo = {} /\ sweepCur = {} /\ sweepSeen = NothingSeen

World ==
    \/ \E a \in Addrs, i \in Ifindexes : HostMove(a, i)
    \/ \E a \in Addrs : HostLeave(a)
    \/ \E k \in Locations : KernelConfirm(k)
    \/ \E k \in Key : \/ KernelAge(k) \/ KernelProbe(k) \/ KernelFail(k)
                      \/ KernelCollect(k)
    \/ \E k \in Locations : KernelSolicit(k)
    \/ \E S \in SUBSET DOMAIN interfaces : ExternalFlush(S)

Engine ==
    \/ \E k \in Key : handleNeighEvent(k)
    \/ \E i \in Ifindexes : handleRouteEvent(i)
    \/ reconcile
    \/ SweepStart
    \/ \E n \in Names : SweepList(n)
    \/ \E n \in Names : SweepAct(n)
    \/ \E a \in Addrs, cid \in Ifindexes \cup {NoCircuit} : relayServerResponse(a, cid)
    \/ \E a \in Addrs, n \in DOMAIN interfaces : unmirrorClient(a, n)

Next == World \/ Engine

\* The engine loop never stops and its channel is FIFO, so what is posted is
\* eventually run even if sweeps keep coming: strong fairness of each handler.
\* The sweep timer always re-arms; a sweep never blocks.  The kernel's timers
\* age an entry its host no longer confirms and end a probe one way or another.
EngineFairness ==
    /\ \A k \in Key : SF_vars(handleNeighEvent(k))
    /\ \A i \in Ifindexes : SF_vars(handleRouteEvent(i) /\ i \notin routeEvents')
    /\ SF_vars(reconcile)
    /\ SF_vars(SweepStart)
    /\ \A n \in Names : WF_vars(SweepList(n)) /\ WF_vars(SweepAct(n))

KernelFairness ==
    \A k \in Key : /\ WF_vars(at[k[1]] # k[2] /\ KernelAge(k))
                   /\ WF_vars(KernelFail(k))

Spec == Init /\ [][Next]_vars
FairSpec == Spec /\ EngineFairness /\ KernelFairness

-----------------------------------------------------------------------------
(* Properties.                                                             *)

\* Every address lives behind one interface and DHCP replies find it.
SingleHomed ==
    /\ Echo82 /\ ~Overheard
    /\ \A k, l \in Locations : k[1] = l[1] => k = l

TypeOK ==
    /\ interfaces \in Configs
    /\ neigh \in [Key -> NUD]
    /\ neighEvents \in [Key -> Seq(Resolved \cup {"failed"})]
    /\ proxyNeigh \subseteq Key
    /\ hostRoute \in [Addrs -> Ifindexes \cup {NoRoute}]
    /\ routeEvents \subseteq Ifindexes
    /\ proxyARP \subseteq Ifnames
    /\ at \in [Addrs -> Ifindexes \cup {Nowhere}]
    /\ flushes \in 0 .. MaxFlushes
    /\ mirroredNeighs \subseteq Key
    /\ reconcileScheduled \in BOOLEAN
    /\ sweepTodo \subseteq RelayNames /\ sweepCur \subseteq sweepTodo
    /\ \A m, n \in sweepCur : m = n
    /\ sweepSeen \in [Addrs -> NUD]

\* A snapshot that will make handleNeighEvent mirror k is pending.
Announcement(k) == \E j \in 1 .. Len(neighEvents[k]) : neighEvents[k][j] \in Resolved

\* No resolved host is forgotten: whatever order events, leases, releases and
\* sweeps come in, a neighbor the kernel holds as resolved is mirrored or its
\* announcement is still on the way to handleNeighEvent.
ResolvedTracked ==
    \A k \in Key : Tracked(k) /\ neigh[k] \in Resolved =>
                       k \in mirroredNeighs \/ Announcement(k)

\* Nothing is left behind in the kernel: every host route and every proxy-ARP
\* entry the daemon has installed belongs to a key it still knows as mirrored.
NothingLeaked ==
    /\ \A a \in Addrs : hostRoute[a] # NoRoute =>
           <<a, hostRoute[a]>> \in mirroredNeighs /\ Routed(<<a, hostRoute[a]>>)
    /\ proxyNeigh \subseteq Proxies(mirroredNeighs)

\* When an address lives behind one interface and servers echo option 82, what
\* mirroredNeighs promises is in the kernel, or a flush is about to be noticed.
MirrorInstalled ==
    SingleHomed =>
        /\ Proxies(mirroredNeighs) \subseteq proxyNeigh
        /\ \A k \in mirroredNeighs : Routed(k) =>
               \/ hostRoute[k[1]] = k[2]
               \/ k[2] \in routeEvents
               \/ reconcileScheduled

\* A mirror is complete if its route and all its proxy-ARP entries are there; a
\* repair is owed while a reconcile or the deletion that causes one is pending.
Healing == INSTANCE HealingMirror WITH
    Keys <- Key,
    wanted <- mirroredNeighs,
    installed <- {k \in mirroredNeighs : /\ Proxies({k}) \subseteq proxyNeigh
                                         /\ Routed(k) => hostRoute[k[1]] = k[2]},
    owed <- reconcileScheduled \/ \E i \in routeEvents : IfacesAt(i) \cap RelayNames # {}

\* The mechanism keeps the promise of HealingMirror: with single-homed addresses
\* every step of the daemon, the kernel and a flushing network manager makes
\* hosts appear or vanish, damages mirrors while leaving a repair owed, or
\* repairs all of them (handleRouteEvent, reconcileKernelState).
HealsItself == Healing!HealSpec

\* After an external flush, routes and proxy_arp of every interface come back
\* together for the hosts that are still mirrored.
FlushHealed ==
    \A k \in Locations :
        (k \in mirroredNeighs /\ Routed(k) /\ hostRoute[k[1]] = NoRoute) ~>
            \/ k \notin mirroredNeighs
            \/ /\ hostRoute[k[1]] # NoRoute
               /\ {interfaces[n].ifname : n \in RelayNames} \subseteq proxyARP

-----------------------------------------------------------------------------
(* What comments of the code say of it, and the code does not do.          *)

\* handleNeighEvent: "only an explicit NUD_FAILED reaps that mirror again"
\* (netlink.go:410-411): an event on one interface leaves the proxy entries of
\* a host mirrored behind another one alone.
MirrorStaysInstalled ==
    [][\A l \in Key : handleNeighEvent(l) =>
          \A k \in mirroredNeighs \cap mirroredNeighs' :
              Proxies({k}) \subseteq proxyNeigh => Proxies({k}) \subseteq proxyNeigh']_vars

\* No mirror of a is left, in the kernel or in the daemon.
NoTrace(a) == /\ \A k \in mirroredNeighs : k[1] # a
              /\ \A k \in proxyNeigh : k[1] # a
              /\ hostRoute[a] = NoRoute

\* staleClientSweepInterval: the sweep exists to catch "an owned /32 host route /
\* proxy-ARP entry whose neighbor-cache entry has since disappeared from the
\* kernel entirely" (netlink.go:124-127): a client that is gone is reaped, unless
\* it comes back first.
DeadClientReaped == \A a \in Addrs : (at[a] = Nowhere) ~> (at[a] # Nowhere \/ NoTrace(a))

=============================================================================
