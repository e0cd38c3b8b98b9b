--------------------------------- MODULE Arp ---------------------------------
(***************************************************************************)
(* The proxy-ARP side of the relay (internal/relay/arp.go, with the        *)
(* interface table of iface.go) and the kernel tables it writes.           *)
(*                                                                         *)
(* A downstream host is "mirrored" by a proxy-ARP entry on every other     *)
(* master interface plus a /32 host route to the interface it lives        *)
(* behind.  The operators below say what installing and removing mirrors   *)
(* does to the kernel tables; the modules that extend this one say when.   *)
(***************************************************************************)
EXTENDS Integers, Sequences

CONSTANTS
    Names,       \* config keys of the interfaces ("lan", "wan")
    Ifnames,     \* netdev names
    Ifindexes,   \* kernel interface indexes
    Addrs,       \* IPv4 addresses of hosts (loopback and multicast left out)
    LinkLocal    \* the members of Addrs in 169.254/16

ASSUME ArpAssumption ==
    /\ Ifindexes \subseteq Nat \ {0}
    /\ LinkLocal \subseteq Addrs

VARIABLES
    interfaces,   \* the daemon's interface table: config key -> Interface
    proxyNeigh,   \* kernel: NTF_PROXY entries, as keys
    hostRoute,    \* kernel: our metric-1024 /32 route of each address
    routeEvents,  \* kernel: interfaces with an unhandled RTM_DELROUTE of ours
    proxyARP      \* kernel: netdevs whose proxy_arp sysctl is 1

mirrorVars == <<proxyNeigh, hostRoute, routeEvents, proxyARP>>

-----------------------------------------------------------------------------
(* State.                                                                  *)

Mode == {"disabled", "relay"}

\* ifindex 0 is a netdev that is gone; dhcp: at least one DHCP socket is open.
Interface ==
    [ifname : Ifnames, ifindex : Ifindexes \cup {0}, running : BOOLEAN, master : BOOLEAN,
     learnRoutes : BOOLEAN, dhcpv4 : Mode, arp : Mode, dhcp : BOOLEAN]

\* mirroredNeighKey: an address on an interface index.
Key == Addrs \X Ifindexes

NoRoute == 0

\* ifaceByIndex: Go picks any of the table's entries with that index.
IfacesAt(i) == {n \in DOMAIN interfaces : interfaces[n].ifindex = i}

-----------------------------------------------------------------------------
(* arpMirrorAddr, for a set of keys at once.                               *)

\* setProxyARP(ifname, true) for the interfaces in N: the sysctl set afterwards.
setProxyARP(N) == proxyARP \cup {interfaces[n].ifname : n \in N}

MirrorTargets(i) ==
    {c \in DOMAIN interfaces : /\ interfaces[c].ifindex # i
                               /\ interfaces[c].master
                               /\ interfaces[c].arp = "relay"}

\* Mutant: the request's LinkIndex is left unset.
UnboundProxies(K) == {<<k[1], 0>> : k \in K}

\* The NTF_PROXY entries setupProxyNeigh4 is called for.
Proxies(K) ==
    {p \in Addrs \X (Ifindexes \cup {0}) :
        \E k \in K : /\ k[1] = p[1]
                     /\ \E c \in MirrorTargets(k[2]) : interfaces[c].ifindex = p[2]}

\* setupRoute4 is called only for learned, non-link-local addresses.
Routed(k) ==
    /\ k[1] \notin LinkLocal
    /\ \E n \in IfacesAt(k[2]) : interfaces[n].learnRoutes

\* RouteReplace keeps one route per address and metric: of the keys of K that
\* share an address the last one written wins, and Go's map order is arbitrary.
RoutesAfterReplace(K) ==
    {r \in [Addrs -> Ifindexes \cup {NoRoute}] :
        \A a \in Addrs :
            LET via == {i \in Ifindexes : <<a, i>> \in K /\ Routed(<<a, i>>)}
            IN  r[a] \in IF via = {} THEN {hostRoute[a]} ELSE via}

\* arpMirrorAddr(addr, iface, true) for every key of K.
InstallMirror(K) ==
    /\ proxyARP' = setProxyARP(UNION {MirrorTargets(k[2]) : k \in K})
    /\ proxyNeigh' = proxyNeigh \cup Proxies(K)
    /\ hostRoute' \in RoutesAfterReplace(K)
    /\ UNCHANGED routeEvents

\* Mutant: the kernel tables are left as they are.
KeepMirror(K) == UNCHANGED <<proxyARP, proxyNeigh, hostRoute, routeEvents>>

\* The entries and routes that go with the keys of K.  RouteDel names the
\* interface, so it only matches a route through it (otherwise ESRCH, ignored);
\* the kernel announces our own deletions too.
Withdraw(K) ==
    LET deleted == {k \in K : Routed(k) /\ hostRoute[k[1]] = k[2]} IN
    /\ proxyNeigh' = proxyNeigh \ Proxies(K)
    /\ hostRoute' = [a \in Addrs |-> IF <<a, hostRoute[a]>> \in deleted
                                     THEN NoRoute ELSE hostRoute[a]]
    /\ routeEvents' = routeEvents \cup {k[2] : k \in deleted}

\* arpMirrorAddr(addr, iface, false) for every key of K.
RemoveMirror(K) == Withdraw(K) /\ UNCHANGED proxyARP

=============================================================================
