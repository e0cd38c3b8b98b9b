-------------------------- MODULE NeighMirrorProofs --------------------------
(***************************************************************************)
(* Proofs about NeighMirror, for every set of addresses, interfaces,       *)
(* locations and interface tables.                                         *)
(***************************************************************************)
EXTENDS NeighMirror, TLAPS

\* What handleNeighEvent can find in a pending snapshot.
Snapshots == Seq(Resolved \cup {"failed"})

-----------------------------------------------------------------------------
(* Lemmas about the kernel operators of Arp.                               *)

\* Every interface of a table Reload builds has a real interface index.
LEMMA TableType ==
    ASSUME interfaces \in Configs
    PROVE  \A n \in DOMAIN interfaces :
               /\ n \in Names
               /\ interfaces[n] \in Interface
               /\ interfaces[n].ifindex \in Ifindexes
               /\ interfaces[n].ifname \in Ifnames
BY MirrorAssumption DEF Interface

\* Driving neighbors to new states keeps the neighbor tables well typed.
LEMMA DriveType ==
    ASSUME neigh \in [Key -> NUD],
           NEW new \in [Key -> NUD], NEW q \in [Key -> Snapshots],
           \A k \in Key : new[k] = "incomplete" => neigh[k] = "incomplete",
           Drive(new, q)
    PROVE  neigh' \in [Key -> NUD] /\ neighEvents' \in [Key -> Snapshots]
<1>1. \A k \in Key : Announced(neigh[k], new[k]) =>
          (IF new[k] = "none" THEN "failed" ELSE new[k]) \in Resolved \cup {"failed"}
  BY DEF Announced, NUD, Resolved
<1>2. \A k \in Key, s \in Resolved \cup {"failed"} : Append(q[k], s) \in Snapshots
  BY DEF Snapshots
<1> QED BY <1>1, <1>2 DEF Drive

\* The proxy-ARP entries of well-formed keys are keys themselves.
LEMMA ProxiesType ==
    ASSUME interfaces \in Configs, NEW K
    PROVE  Proxies(K) \subseteq Key
BY TableType DEF Proxies, MirrorTargets, Key

\* Installing mirrors keeps the tables it writes well typed.
LEMMA InstallType ==
    ASSUME TypeOK, NEW K \in SUBSET Key, InstallMirror(K)
    PROVE  /\ proxyNeigh' \subseteq Key
           /\ hostRoute' \in [Addrs -> Ifindexes \cup {NoRoute}]
           /\ routeEvents' \subseteq Ifindexes
           /\ proxyARP' \subseteq Ifnames
<1>1. setProxyARP(UNION {MirrorTargets(k[2]) : k \in K}) \subseteq Ifnames
  BY TableType DEF TypeOK, MirrorTargets, setProxyARP
<1> QED BY <1>1, ProxiesType DEF TypeOK, InstallMirror, RoutesAfterReplace

\* So does removing them.
LEMMA RemoveType ==
    ASSUME TypeOK, NEW K \in SUBSET Key, RemoveMirror(K)
    PROVE  /\ proxyNeigh' \subseteq Key
           /\ hostRoute' \in [Addrs -> Ifindexes \cup {NoRoute}]
           /\ routeEvents' \subseteq Ifindexes
           /\ proxyARP' \subseteq Ifnames
BY DEF TypeOK, RemoveMirror, Withdraw, Key

-----------------------------------------------------------------------------
(* Type correctness.                                                       *)

\* The initial state is well typed.
LEMMA InitType == Init => TypeOK
<1> SUFFICES ASSUME Init PROVE TypeOK
  OBVIOUS
<1>1. proxyARP \subseteq Ifnames
  BY TableType DEF Init, RelayNames
<1>2. 0 \in 0 .. MaxFlushes
  BY MirrorAssumption
<1>3. \A k \in Key : <<>> \in Snapshots
  BY DEF Snapshots
<1> QED BY <1>1, <1>2, <1>3
    DEF Init, TypeOK, NUD, NothingSeen, Nowhere, NoRoute, Snapshots

\* A step of the kernel, of a host or of an external flush keeps the types.
LEMMA WorldType == TypeOK /\ World => TypeOK'
<1> SUFFICES ASSUME TypeOK, World PROVE TypeOK'
  OBVIOUS
<1> USE DEF TypeOK, Nowhere, NoRoute
<1>1. ASSUME NEW a \in Addrs, NEW i \in Ifindexes, HostMove(a, i) PROVE TypeOK'
  BY <1>1 DEF HostMove, kernelVars, engineVars, sweepVars, RelayNames
<1>2. ASSUME NEW a \in Addrs, HostLeave(a) PROVE TypeOK'
  BY <1>2 DEF HostLeave, kernelVars, engineVars, sweepVars, RelayNames
<1>3. ASSUME NEW k \in Key, NEW from, NEW s \in NUD \ {"incomplete"}, KernelDrives(k, from, s)
      PROVE  TypeOK'
  <2>1. neigh' \in [Key -> NUD] /\ neighEvents' \in [Key -> Snapshots]
    <3>1. [neigh EXCEPT ![k] = s] \in [Key -> NUD]
      OBVIOUS
    <3>2. \A l \in Key : [neigh EXCEPT ![k] = s][l] = "incomplete" => neigh[l] = "incomplete"
      OBVIOUS
    <3> QED BY <1>3, <3>1, <3>2, DriveType DEF KernelDrives, Snapshots
  <2> QED BY <1>3, <2>1 DEF KernelDrives, Snapshots, mirrorVars, engineVars, sweepVars,
                            worldVars, RelayNames
<1>4. ASSUME NEW k \in Key, NEW from, NEW s \in NUD, KernelSilent(k, from, s)
      PROVE  TypeOK'
  BY <1>4 DEF KernelSilent, mirrorVars, engineVars, sweepVars, worldVars, RelayNames
<1>5. ASSUME NEW S \in SUBSET DOMAIN interfaces, ExternalFlush(S) PROVE TypeOK'
  <2>1. routeEvents' \subseteq Ifindexes
    BY <1>5, TableType DEF ExternalFlush
  <2>2. flushes' \in 0 .. MaxFlushes
    BY <1>5, MirrorAssumption DEF ExternalFlush
  <2>3. hostRoute' \in [Addrs -> Ifindexes \cup {NoRoute}] /\ proxyARP' \subseteq Ifnames
    BY <1>5 DEF ExternalFlush
  <2> QED BY <1>5, <2>1, <2>2, <2>3 DEF ExternalFlush, engineVars, sweepVars, RelayNames
<1> QED
  BY <1>1, <1>2, <1>3, <1>4, <1>5, MirrorAssumption
  DEF World, KernelConfirm, KernelAge, KernelProbe, KernelFail, KernelSolicit, KernelCollect, NUD

\* A circuit-id names registered interfaces, all of them slaves.
LEMMA TargetsType ==
    ASSUME interfaces \in Configs, NEW a \in Addrs, NEW cid
    PROVE  {<<a, interfaces[t].ifindex>> : t \in Targets(cid)} \subseteq Key
BY TableType DEF Targets, IfacesAt, DHCPSlaves, Key

\* An engine closure keeps the types.
LEMMA EngineType == TypeOK /\ Engine => TypeOK'
<1> SUFFICES ASSUME TypeOK, Engine PROVE TypeOK'
  OBVIOUS
<1>t. /\ interfaces \in Configs /\ neigh \in [Key -> NUD]
      /\ neighEvents \in [Key -> Snapshots] /\ mirroredNeighs \subseteq Key
  BY DEF TypeOK, Snapshots
<1>1. ASSUME NEW k \in Key, handleNeighEvent(k) PROVE TypeOK'
  <2> DEFINE rest == [neighEvents EXCEPT ![k] = Tail(neighEvents[k])]
  <2>1. rest \in [Key -> Snapshots]
    BY <1>1, <1>t DEF handleNeighEvent, Snapshots
  <2>2. /\ neigh' \in [Key -> NUD] /\ neighEvents' \in [Key -> Snapshots]
        /\ mirroredNeighs' \subseteq Key
    <3>1. CASE neighEvents' = rest /\ UNCHANGED neigh
      BY <1>1, <1>t, <2>1, <3>1 DEF handleNeighEvent
    <3>2. CASE deleteNeigh4({k}, rest)
      <4> DEFINE new == [l \in Key |-> IF l \in {k} THEN "none" ELSE neigh[l]]
      <4>1. new \in [Key -> NUD] /\ \A l \in Key : new[l] = "incomplete" => neigh[l] = "incomplete"
        BY <1>t DEF NUD
      <4>2. Drive(new, rest)
        BY <3>2 DEF deleteNeigh4
      <4>3. neigh' \in [Key -> NUD] /\ neighEvents' \in [Key -> Snapshots]
        <5> HIDE DEF new, rest
        <5> QED BY <1>t, <2>1, <4>1, <4>2, DriveType
      <4> QED BY <1>1, <1>t, <4>3 DEF handleNeighEvent
    <3> QED BY <1>1, <3>1, <3>2 DEF handleNeighEvent
  <2>3. /\ proxyNeigh' \subseteq Key /\ hostRoute' \in [Addrs -> Ifindexes \cup {NoRoute}]
        /\ routeEvents' \subseteq Ifindexes /\ proxyARP' \subseteq Ifnames
    <3>1. CASE InstallMirror({k})
      BY <3>1, InstallType
    <3>2. CASE RemoveMirror({k} \cap mirroredNeighs)
      BY <3>2, RemoveType
    <3>3. CASE UNCHANGED mirrorVars
      BY <3>3 DEF TypeOK, mirrorVars
    <3> QED BY <1>1, <3>1, <3>2, <3>3 DEF handleNeighEvent
  <2> QED BY <1>1, <2>2, <2>3
      DEF handleNeighEvent, TypeOK, Snapshots, sweepVars, worldVars, RelayNames
<1>2. ASSUME NEW i \in Ifindexes, handleRouteEvent(i) PROVE TypeOK'
  BY <1>2 DEF handleRouteEvent, TypeOK, sweepVars, worldVars, RelayNames
<1>3. ASSUME reconcile PROVE TypeOK'
  <2>1. proxyARP' \subseteq Ifnames
    BY <1>3, <1>t, TableType DEF reconcile, reconcileKernelState, setProxyARP, RelayNames, TypeOK
  <2>2. proxyNeigh' \subseteq Key
    BY <1>3, <1>t, ProxiesType DEF reconcile, reconcileKernelState, TypeOK
  <2>3. hostRoute' \in [Addrs -> Ifindexes \cup {NoRoute}]
    BY <1>3 DEF reconcile, reconcileKernelState, RoutesAfterReplace
  <2> QED BY <1>3, <2>1, <2>2, <2>3
      DEF reconcile, reconcileKernelState, TypeOK, sweepVars, worldVars, RelayNames
<1>4. ASSUME SweepStart PROVE TypeOK'
  BY <1>4 DEF SweepStart, EngineIdle, TypeOK, kernelVars, engineVars, worldVars, RelayNames
<1>5. ASSUME NEW n \in Names, SweepList(n) PROVE TypeOK'
  <2>1. n \in DOMAIN interfaces /\ interfaces[n].ifindex \in Ifindexes
    BY <1>5, <1>t, TableType DEF SweepList, TypeOK, RelayNames
  <2>2. sweepSeen' \in [Addrs -> NUD]
    BY <1>5, <1>t, <2>1 DEF SweepList, Key
  <2> QED BY <1>5, <2>2 DEF SweepList, TypeOK, kernelVars, engineVars, worldVars, RelayNames
<1>6. ASSUME NEW n \in Names, SweepAct(n) PROVE TypeOK'
  <2> DEFINE i == interfaces[n].ifindex
             gone == {<<a, i>> : a \in Swept(i)}
             failed == {<<a, i>> : a \in {a \in Addrs : sweepSeen[a] = "failed"}}
             new == [k \in Key |-> IF k \in failed THEN "none"
                                   ELSE IF k \in Probed(i) THEN "probe" ELSE neigh[k]]
  <2>1. i \in Ifindexes
    BY <1>6, <1>t, TableType DEF SweepAct, TypeOK, RelayNames
  <2>2. gone \in SUBSET Key
    <3>1. Swept(i) \subseteq Addrs
      BY DEF Swept
    <3> HIDE DEF i
    <3> QED BY <2>1, <3>1 DEF Key
  <2>3. RemoveMirror(gone) /\ Drive(new, neighEvents)
    BY <1>6 DEF SweepAct
  <2>4. new \in [Key -> NUD] /\ \A k \in Key : new[k] = "incomplete" => neigh[k] = "incomplete"
    BY <1>t DEF NUD
  <2>5. neigh' \in [Key -> NUD] /\ neighEvents' \in [Key -> Snapshots]
    <3> HIDE DEF new
    <3> QED BY <1>t, <2>3, <2>4, DriveType
  <2>6. /\ proxyNeigh' \subseteq Key /\ hostRoute' \in [Addrs -> Ifindexes \cup {NoRoute}]
        /\ routeEvents' \subseteq Ifindexes /\ proxyARP' \subseteq Ifnames
    <3> HIDE DEF gone
    <3> QED BY <2>2, <2>3, RemoveType
  <2>7. sweepSeen' \in [Addrs -> NUD]
    BY <1>6 DEF SweepAct, NothingSeen, NUD
  <2> QED BY <1>6, <2>5, <2>6, <2>7 DEF SweepAct, TypeOK, Snapshots, worldVars, RelayNames
<1>7. ASSUME NEW a \in Addrs, NEW cid, relayServerResponse(a, cid) PROVE TypeOK'
  <2> DEFINE keys == {<<a, interfaces[t].ifindex>> : t \in Targets(cid)}
             new == [k \in Key |-> IF k \in keys THEN "reachable" ELSE neigh[k]]
  <2>1. keys \subseteq Key
    BY <1>t, TargetsType
  <2>2. /\ InstallMirror(keys \ mirroredNeighs) /\ Drive(new, neighEvents)
        /\ mirroredNeighs' = mirroredNeighs \cup keys
    BY <1>7 DEF relayServerResponse, seedNeighbor4
  <2>3. new \in [Key -> NUD] /\ \A k \in Key : new[k] = "incomplete" => neigh[k] = "incomplete"
    BY <1>t DEF NUD
  <2>4. neigh' \in [Key -> NUD] /\ neighEvents' \in [Key -> Snapshots]
    <3> HIDE DEF new
    <3> QED BY <1>t, <2>2, <2>3, DriveType
  <2>5. /\ proxyNeigh' \subseteq Key /\ hostRoute' \in [Addrs -> Ifindexes \cup {NoRoute}]
        /\ routeEvents' \subseteq Ifindexes /\ proxyARP' \subseteq Ifnames
    <3> HIDE DEF keys
    <3> QED BY <2>1, <2>2, InstallType
  <2>6. mirroredNeighs' \subseteq Key
    <3> HIDE DEF keys
    <3> QED BY <1>t, <2>1, <2>2
  <2> QED BY <1>7, <2>4, <2>5, <2>6
      DEF relayServerResponse, TypeOK, Snapshots, sweepVars, worldVars, RelayNames
<1>8. ASSUME NEW a \in Addrs, NEW n \in DOMAIN interfaces, unmirrorClient(a, n) PROVE TypeOK'
  <2> DEFINE k == <<a, interfaces[n].ifindex>>
             new == [l \in Key |-> IF l \in {k} THEN "none" ELSE neigh[l]]
  <2>1. /\ RemoveMirror({k}) /\ Drive(new, neighEvents) /\ k \in Key
        /\ mirroredNeighs' \subseteq Key
    BY <1>8, <1>t DEF unmirrorClient, deleteNeigh4
  <2>2. new \in [Key -> NUD] /\ \A l \in Key : new[l] = "incomplete" => neigh[l] = "incomplete"
    BY <1>t DEF NUD
  <2>3. neigh' \in [Key -> NUD] /\ neighEvents' \in [Key -> Snapshots]
    <3> HIDE DEF new
    <3> QED BY <1>t, <2>1, <2>2, DriveType
  <2>4. /\ proxyNeigh' \subseteq Key /\ hostRoute' \in [Addrs -> Ifindexes \cup {NoRoute}]
        /\ routeEvents' \subseteq Ifindexes /\ proxyARP' \subseteq Ifnames
    <3> HIDE DEF k
    <3> QED BY <2>1, RemoveType
  <2> QED BY <1>8, <2>1, <2>3, <2>4
      DEF unmirrorClient, TypeOK, Snapshots, sweepVars, worldVars, RelayNames
<1> QED BY <1>1, <1>2, <1>3, <1>4, <1>5, <1>6, <1>7, <1>8 DEF Engine

\* In every reachable state the interface table is one Reload built, every
\* mirror, route, proxy-ARP entry and pending snapshot belongs to a real
\* address and interface, and a sweep works on one relay interface at a time.
THEOREM TypeCorrect == Spec => []TypeOK
<1>1. TypeOK /\ UNCHANGED vars => TypeOK'
  BY DEF TypeOK, vars, kernelVars, engineVars, sweepVars, worldVars, RelayNames
<1>2. TypeOK /\ [Next]_vars => TypeOK'
  BY <1>1, WorldType, EngineType DEF Next
<1> QED BY InitType, <1>2, PTL DEF Spec

-----------------------------------------------------------------------------
(* Nothing is left behind in the kernel.                                   *)

\* What InstallMirror writes belongs to the keys it is given.
LEMMA InstallLeaksNothing ==
    ASSUME TypeOK, NothingLeaked, UNCHANGED interfaces,
           NEW K, InstallMirror(K),
           K \subseteq mirroredNeighs', mirroredNeighs \subseteq mirroredNeighs'
    PROVE  NothingLeaked'
<1>1. ASSUME NEW a \in Addrs, hostRoute'[a] # NoRoute
      PROVE  (<<a, hostRoute[a]>> \in mirroredNeighs /\ Routed(<<a, hostRoute[a]>>))'
  <2> DEFINE via == {i \in Ifindexes : <<a, i>> \in K /\ Routed(<<a, i>>)}
  <2>1. hostRoute'[a] \in IF via = {} THEN {hostRoute[a]} ELSE via
    BY DEF InstallMirror, RoutesAfterReplace
  <2> QED BY <1>1, <2>1 DEF NothingLeaked, Routed, IfacesAt
<1>2. proxyNeigh' \subseteq Proxies(mirroredNeighs)'
  <2> SUFFICES ASSUME NEW p \in proxyNeigh' PROVE p \in Proxies(mirroredNeighs)'
    OBVIOUS
  <2>1. p \in Proxies(mirroredNeighs) \/ p \in Proxies(K)
    BY DEF InstallMirror, NothingLeaked
  <2> QED BY <2>1 DEF Proxies, MirrorTargets
<1> QED BY <1>1, <1>2 DEF NothingLeaked

\* RemoveMirror takes away everything that only the removed keys explain.
LEMMA RemoveLeaksNothing ==
    ASSUME TypeOK, NothingLeaked, UNCHANGED interfaces,
           NEW K, RemoveMirror(K), mirroredNeighs' = mirroredNeighs \ K
    PROVE  NothingLeaked'
<1>1. ASSUME NEW a \in Addrs, hostRoute'[a] # NoRoute
      PROVE  (<<a, hostRoute[a]>> \in mirroredNeighs /\ Routed(<<a, hostRoute[a]>>))'
  <2>1. /\ hostRoute'[a] = hostRoute[a]
        /\ <<a, hostRoute[a]>> \notin {k \in K : Routed(k) /\ hostRoute[k[1]] = k[2]}
    BY <1>1 DEF RemoveMirror, Withdraw
  <2>2. <<a, hostRoute[a]>> \in mirroredNeighs /\ Routed(<<a, hostRoute[a]>>)
    BY <1>1, <2>1 DEF NothingLeaked
  <2> QED BY <2>1, <2>2 DEF Routed, IfacesAt
<1>2. proxyNeigh' \subseteq Proxies(mirroredNeighs)'
  <2> SUFFICES ASSUME NEW p \in proxyNeigh' PROVE p \in Proxies(mirroredNeighs)'
    OBVIOUS
  <2>1. p \in Proxies(mirroredNeighs) /\ p \notin Proxies(K)
    BY DEF RemoveMirror, Withdraw, NothingLeaked
  <2> QED BY <2>1 DEF Proxies, MirrorTargets
<1> QED BY <1>1, <1>2 DEF NothingLeaked

\* A step that touches neither mirrors nor kernel routes and proxies leaks nothing.
LEMMA StutterLeaksNothing ==
    ASSUME NothingLeaked, UNCHANGED <<interfaces, mirroredNeighs, proxyNeigh, hostRoute>>
    PROVE  NothingLeaked'
BY DEF NothingLeaked, Routed, IfacesAt, Proxies, MirrorTargets

\* The periodic sweep, DHCP acknowledgements and releases, neighbor events and
\* external flushes, in any order, never leave a host route or a proxy-ARP
\* entry in the kernel whose key the daemon has forgotten.
THEOREM NothingIsLeaked == Spec => []NothingLeaked
<1>1. Init => NothingLeaked
  BY DEF Init, NothingLeaked
<1>2. TypeOK /\ NothingLeaked /\ [Next]_vars => NothingLeaked'
  <2> SUFFICES ASSUME TypeOK, NothingLeaked, [Next]_vars PROVE NothingLeaked'
    OBVIOUS
  <2>1. ASSUME World PROVE NothingLeaked'
    <3>1. ASSUME NEW S \in SUBSET DOMAIN interfaces, ExternalFlush(S) PROVE NothingLeaked'
      <4>1. /\ UNCHANGED <<interfaces, mirroredNeighs, proxyNeigh>>
            /\ \A a \in Addrs : hostRoute'[a] # NoRoute => hostRoute'[a] = hostRoute[a]
        BY <3>1 DEF ExternalFlush, engineVars
      <4> QED BY <4>1 DEF NothingLeaked, Routed, IfacesAt, Proxies, MirrorTargets
    <3>2. CASE UNCHANGED <<interfaces, mirroredNeighs, proxyNeigh, hostRoute>>
      BY <3>2, StutterLeaksNothing
    <3> QED BY <2>1, <3>1, <3>2
        DEF World, HostMove, HostLeave, KernelConfirm, KernelAge, KernelProbe, KernelFail,
            KernelSolicit, KernelCollect, KernelDrives, KernelSilent,
            kernelVars, engineVars, mirrorVars, worldVars
  <2>2. ASSUME NEW k \in Key, handleNeighEvent(k) PROVE NothingLeaked'
    <3>1. CASE mirroredNeighs' = mirroredNeighs \cup {k} /\ InstallMirror({k})
      BY <2>2, <3>1, InstallLeaksNothing DEF handleNeighEvent, worldVars
    <3>2. CASE mirroredNeighs' = mirroredNeighs \ {k} /\ RemoveMirror({k} \cap mirroredNeighs)
      <4>1. mirroredNeighs' = mirroredNeighs \ ({k} \cap mirroredNeighs)
        BY <3>2
      <4> QED BY <2>2, <3>2, <4>1, RemoveLeaksNothing DEF handleNeighEvent, worldVars
    <3>3. CASE UNCHANGED <<mirroredNeighs, mirrorVars>>
      BY <2>2, <3>3, StutterLeaksNothing DEF handleNeighEvent, mirrorVars, worldVars
    <3> QED BY <2>2, <3>1, <3>2, <3>3 DEF handleNeighEvent
  <2>3. ASSUME reconcile PROVE NothingLeaked'
    <3>1. \A a \in Addrs : LET via == {i \in Ifindexes : <<a, i>> \in Registered /\ Routed(<<a, i>>)}
                          IN  hostRoute'[a] \in IF via = {} THEN {hostRoute[a]} ELSE via
      BY <2>3 DEF reconcile, reconcileKernelState, RoutesAfterReplace
    <3>2. /\ UNCHANGED <<interfaces, mirroredNeighs>>
          /\ proxyNeigh' = proxyNeigh \cup Proxies(Registered)
      BY <2>3 DEF reconcile, reconcileKernelState, worldVars
    <3>3. Proxies(mirroredNeighs)' = Proxies(mirroredNeighs) /\ Proxies(Registered) \subseteq Proxies(mirroredNeighs)
      BY <3>2 DEF Proxies, MirrorTargets, Registered
    <3>4. ASSUME NEW a \in Addrs, hostRoute'[a] # NoRoute
          PROVE  (<<a, hostRoute[a]>> \in mirroredNeighs /\ Routed(<<a, hostRoute[a]>>))'
      BY <3>1, <3>2, <3>4 DEF NothingLeaked, Registered, Routed, IfacesAt
    <3> QED BY <3>2, <3>3, <3>4 DEF NothingLeaked
  <2>4. ASSUME NEW n \in Names, SweepAct(n) PROVE NothingLeaked'
    <3> DEFINE gone == {<<a, interfaces[n].ifindex>> : a \in Swept(interfaces[n].ifindex)}
    <3>1. RemoveMirror(gone) /\ mirroredNeighs' = mirroredNeighs \ gone /\ UNCHANGED interfaces
      BY <2>4 DEF SweepAct, worldVars
    <3> HIDE DEF gone
    <3> QED BY <3>1, RemoveLeaksNothing
  <2>5. ASSUME NEW a \in Addrs, NEW cid, relayServerResponse(a, cid) PROVE NothingLeaked'
    <3> DEFINE keys == {<<a, interfaces[t].ifindex>> : t \in Targets(cid)}
    <3>1. /\ InstallMirror(keys \ mirroredNeighs) /\ mirroredNeighs' = mirroredNeighs \cup keys
          /\ UNCHANGED interfaces
      BY <2>5 DEF relayServerResponse, worldVars
    <3> HIDE DEF keys
    <3> QED BY <3>1, InstallLeaksNothing
  <2>6. ASSUME NEW a \in Addrs, NEW n \in DOMAIN interfaces, unmirrorClient(a, n)
        PROVE  NothingLeaked'
    BY <2>6, RemoveLeaksNothing DEF unmirrorClient, worldVars
  <2>7. CASE UNCHANGED <<interfaces, mirroredNeighs, proxyNeigh, hostRoute>>
    BY <2>7, StutterLeaksNothing
  <2> QED BY <2>1, <2>2, <2>3, <2>4, <2>5, <2>6, <2>7
      DEF Next, Engine, handleRouteEvent, SweepStart, SweepList,
          vars, kernelVars, engineVars, worldVars
<1> QED BY <1>1, <1>2, TypeCorrect, PTL DEF Spec

-----------------------------------------------------------------------------
(* No resolved host is forgotten.                                          *)

\* A queue of snapshots that still holds a resolved one.
Resolving(q) == \E j \in 1 .. Len(q) : q[j] \in Resolved

\* ResolvedTracked is not inductive: a sweep forgets the key of an address it
\* did not list.  What saves it is that an address that was resolved after the
\* list was taken has been announced, and the engine is still busy sweeping.
SweepSound ==
    \A n \in sweepCur, a \in Addrs :
        LET k == <<a, interfaces[n].ifindex>> IN
        /\ a \notin LinkLocal
        /\ sweepSeen[a] \in {"none", "failed"}
        /\ neigh[k] \in Resolved
        => Announcement(k)

TrackingInv == TypeOK /\ ResolvedTracked /\ SweepSound

\* Appending a snapshot keeps the resolved ones and may be one.
LEMMA AppendResolving ==
    ASSUME NEW q \in Snapshots, NEW s
    PROVE  /\ Resolving(q) => Resolving(Append(q, s))
           /\ s \in Resolved => Resolving(Append(q, s))
<1>1. /\ Len(Append(q, s)) = Len(q) + 1 /\ Len(q) \in Nat
      /\ Append(q, s)[Len(q) + 1] = s
      /\ \A j \in 1 .. Len(q) : Append(q, s)[j] = q[j]
  BY DEF Snapshots
<1> QED BY <1>1 DEF Resolving

\* Handling a NUD_FAILED snapshot keeps the resolved ones behind it.
LEMMA TailResolving ==
    ASSUME NEW q \in Snapshots, q # <<>>, Resolving(q), Head(q) \notin Resolved
    PROVE  Resolving(Tail(q))
<1>1. PICK j \in 1 .. Len(q) : q[j] \in Resolved
  BY DEF Resolving
<1>2. j # 1 /\ Len(Tail(q)) = Len(q) - 1 /\ Len(q) \in Nat
  BY <1>1 DEF Snapshots
<1>3. j - 1 \in 1 .. Len(Tail(q)) /\ Tail(q)[j - 1] = q[j]
  BY <1>1, <1>2 DEF Snapshots
<1> QED BY <1>1, <1>3 DEF Resolving

\* The kernel announces every neighbor it newly holds as resolved.
LEMMA DriveAnnounces ==
    ASSUME neigh \in [Key -> NUD],
           NEW new \in [Key -> NUD], NEW q \in [Key -> Snapshots],
           Drive(new, q), NEW k \in Key
    PROVE  /\ Resolving(q[k]) => Resolving(neighEvents'[k])
           /\ neigh'[k] \in Resolved => neigh[k] = neigh'[k] \/ Resolving(neighEvents'[k])
           /\ neigh'[k] = new[k]
<1>1. neighEvents'[k] = IF Announced(neigh[k], new[k])
                        THEN Append(q[k], IF new[k] = "none" THEN "failed" ELSE new[k])
                        ELSE q[k]
  BY DEF Drive
<1>2. new[k] \in Resolved => new[k] # "none"
  BY DEF Resolved
<1>3. neigh' = new /\ q[k] \in Snapshots
  BY DEF Drive
<1> QED BY <1>1, <1>2, <1>3, AppendResolving DEF Announced

\* A step that drives neighbors and forgets no key keeps tracking the hosts.
LEMMA DriveTracks ==
    ASSUME TrackingInv, UNCHANGED <<interfaces, sweepCur, sweepSeen>>,
           NEW new \in [Key -> NUD], Drive(new, neighEvents),
           mirroredNeighs \subseteq mirroredNeighs'
    PROVE  ResolvedTracked' /\ SweepSound'
<1>1. neigh \in [Key -> NUD] /\ neighEvents \in [Key -> Snapshots]
  BY DEF TrackingInv, TypeOK, Snapshots
<1>2. \A k \in Key :
        /\ Resolving(neighEvents[k]) => Resolving(neighEvents'[k])
        /\ neigh'[k] \in Resolved => neigh[k] = neigh'[k] \/ Resolving(neighEvents'[k])
  BY <1>1, DriveAnnounces
<1>3. ResolvedTracked'
  BY <1>2 DEF TrackingInv, ResolvedTracked, Tracked, IfacesAt, RelayNames, Announcement, Resolving
<1>4. \A n \in sweepCur, a \in Addrs : <<a, interfaces[n].ifindex>> \in Key
  BY TableType DEF TrackingInv, TypeOK, RelayNames, Key
<1>5. SweepSound'
  <2> SUFFICES ASSUME NEW n \in sweepCur, NEW a \in Addrs, a \notin LinkLocal,
                      sweepSeen[a] \in {"none", "failed"},
                      neigh'[<<a, interfaces[n].ifindex>>] \in Resolved
               PROVE  Resolving(neighEvents'[<<a, interfaces[n].ifindex>>])
    BY DEF SweepSound, Announcement, Resolving
  <2> QED BY <1>2, <1>4 DEF TrackingInv, SweepSound, Announcement, Resolving
<1> QED BY <1>3, <1>5

\* So does a step after which no neighbor is newly resolved.
LEMMA SilentTracks ==
    ASSUME TrackingInv, UNCHANGED <<interfaces, neighEvents, mirroredNeighs>>,
           \A k \in Key : neigh'[k] \in Resolved => neigh[k] \in Resolved,
           UNCHANGED <<sweepCur, sweepSeen>>
    PROVE  ResolvedTracked' /\ SweepSound'
<1>1. \A n \in sweepCur, a \in Addrs : <<a, interfaces[n].ifindex>> \in Key
  BY TableType DEF TrackingInv, TypeOK, RelayNames, Key
<1>2. SweepSound'
  BY <1>1 DEF TrackingInv, SweepSound, Announcement
<1>3. ResolvedTracked'
  BY DEF TrackingInv, ResolvedTracked, Tracked, IfacesAt, RelayNames, Announcement
<1> QED BY <1>2, <1>3

\* While no sweep is running there is nothing for SweepSound to say.
LEMMA IdleSweepSound ==
    ASSUME TypeOK, EngineIdle, UNCHANGED <<sweepTodo, sweepCur>>
    PROVE  SweepSound'
<1>1. sweepCur' = {}
  BY DEF TypeOK, EngineIdle
<1> QED BY <1>1 DEF SweepSound

\* handleNeighEvent consumes the announcement of k only as it mirrors k.
LEMMA NeighEventTracks ==
    ASSUME TrackingInv, NEW k \in Key, handleNeighEvent(k)
    PROVE  ResolvedTracked' /\ SweepSound'
<1> DEFINE rest == [neighEvents EXCEPT ![k] = Tail(neighEvents[k])]
<1>1. /\ neigh \in [Key -> NUD] /\ neighEvents \in [Key -> Snapshots]
      /\ UNCHANGED interfaces /\ neighEvents[k] # <<>>
  BY DEF TrackingInv, TypeOK, Snapshots, handleNeighEvent, worldVars
<1>2. SweepSound'
  BY IdleSweepSound DEF TrackingInv, handleNeighEvent, sweepVars
<1>3. \A l \in Key \ {k} : l \in mirroredNeighs' <=> l \in mirroredNeighs
  BY DEF handleNeighEvent
<1>4. rest \in [Key -> Snapshots] /\ \A l \in Key \ {k} : rest[l] = neighEvents[l]
  BY <1>1 DEF Snapshots
<1>5. CASE UNCHANGED neigh /\ neighEvents' = rest /\ (k \in mirroredNeighs' \/ ~Tracked(k))
  <2>1. \A l \in Key \ {k} : Announcement(l)' <=> Announcement(l)
    BY <1>4, <1>5 DEF Announcement
  <2> QED BY <1>1, <1>2, <1>3, <1>5, <2>1
      DEF TrackingInv, ResolvedTracked, Tracked, IfacesAt, RelayNames
<1>6. CASE deleteNeigh4({k}, rest)
  <2> DEFINE new == [l \in Key |-> IF l \in {k} THEN "none" ELSE neigh[l]]
  <2>1. new \in [Key -> NUD] /\ Drive(new, rest)
    BY <1>1, <1>6 DEF deleteNeigh4, NUD
  <2>2. ASSUME NEW l \in Key
        PROVE  /\ Resolving(rest[l]) => Resolving(neighEvents'[l])
               /\ neigh'[l] \in Resolved => neigh[l] = neigh'[l] \/ Resolving(neighEvents'[l])
               /\ neigh'[l] = new[l]
    <3> HIDE DEF new, rest
    <3> QED BY <1>1, <1>4, <2>1, DriveAnnounces
  <2>3. neigh'[k] \notin Resolved
    BY <2>2 DEF Resolved
  <2>4. ASSUME NEW l \in Key \ {k}, Tracked(l), neigh'[l] \in Resolved
        PROVE  l \in mirroredNeighs' \/ Resolving(neighEvents'[l])
    <3>1. Resolving(neighEvents[l]) => Resolving(neighEvents'[l])
      BY <1>4, <2>2
    <3>2. neigh[l] \in Resolved \/ Resolving(neighEvents'[l])
      BY <2>2, <2>4
    <3> QED BY <1>3, <2>4, <3>1, <3>2
        DEF TrackingInv, ResolvedTracked, Announcement, Resolving
  <2> QED BY <1>1, <1>2, <2>3, <2>4
      DEF ResolvedTracked, Tracked, IfacesAt, RelayNames, Announcement, Resolving
<1> QED BY <1>5, <1>6 DEF handleNeighEvent

\* A sweep forgets only keys that are unresolved or announced again.
LEMMA SweepActTracks ==
    ASSUME TrackingInv, NEW n \in Names, SweepAct(n)
    PROVE  ResolvedTracked' /\ SweepSound'
<1> DEFINE i == interfaces[n].ifindex
           gone == {<<a, i>> : a \in Swept(i)}
           failed == {<<a, i>> : a \in {a \in Addrs : sweepSeen[a] = "failed"}}
           new == [k \in Key |-> IF k \in failed THEN "none"
                                 ELSE IF k \in Probed(i) THEN "probe" ELSE neigh[k]]
<1>1. /\ neigh \in [Key -> NUD] /\ neighEvents \in [Key -> Snapshots]
      /\ UNCHANGED interfaces /\ sweepCur = {n} /\ sweepCur' = {}
      /\ mirroredNeighs' = mirroredNeighs \ gone
      /\ sweepSeen \in [Addrs -> NUD]
  BY DEF TrackingInv, TypeOK, Snapshots, SweepAct, worldVars
<1>2. SweepSound'
  BY <1>1 DEF SweepSound
<1>3. new \in [Key -> NUD] /\ Drive(new, neighEvents)
  BY <1>1 DEF SweepAct, NUD
<1>4. ASSUME NEW k \in Key
      PROVE  /\ Resolving(neighEvents[k]) => Resolving(neighEvents'[k])
             /\ neigh'[k] \in Resolved => neigh[k] = neigh'[k] \/ Resolving(neighEvents'[k])
             /\ neigh'[k] = new[k]
  <2> HIDE DEF new
  <2> QED BY <1>1, <1>3, DriveAnnounces
<1>5. ASSUME NEW k \in Key, Tracked(k), neigh'[k] \in Resolved
      PROVE  k \in mirroredNeighs' \/ Resolving(neighEvents'[k])
  <2>1. CASE k \notin gone
    BY <1>1, <1>4, <1>5, <2>1 DEF TrackingInv, ResolvedTracked, Announcement, Resolving
  <2>2. CASE k \in gone
    <3>1. PICK a \in Swept(i) : k = <<a, i>>
      BY <2>2
    <3>2. a \in Addrs /\ a \notin LinkLocal
      BY <1>5, <3>1 DEF Swept, Tracked
    <3>3. sweepSeen[a] \in {"none", "failed"}
      BY <3>1, <3>2 DEF Swept, Live
    <3>4. neigh[k] \in Resolved => Resolving(neighEvents[k])
      BY <1>1, <3>1, <3>2, <3>3 DEF TrackingInv, SweepSound, Announcement, Resolving
    <3> QED BY <1>4, <1>5, <3>4
  <2> QED BY <2>1, <2>2
<1> QED BY <1>1, <1>2, <1>5 DEF ResolvedTracked, Tracked, IfacesAt, RelayNames, Announcement, Resolving

\* A release deletes the neighbor entry together with the mirror.
LEMMA UnmirrorTracks ==
    ASSUME TrackingInv, NEW a \in Addrs, NEW n \in DOMAIN interfaces, unmirrorClient(a, n)
    PROVE  ResolvedTracked' /\ SweepSound'
<1> DEFINE k == <<a, interfaces[n].ifindex>>
           new == [l \in Key |-> IF l \in {k} THEN "none" ELSE neigh[l]]
<1>1. /\ neigh \in [Key -> NUD] /\ neighEvents \in [Key -> Snapshots]
      /\ UNCHANGED interfaces /\ mirroredNeighs' = mirroredNeighs \ {k}
  BY DEF TrackingInv, TypeOK, Snapshots, unmirrorClient, worldVars
<1>2. SweepSound'
  BY IdleSweepSound DEF TrackingInv, unmirrorClient, sweepVars
<1>3. new \in [Key -> NUD] /\ Drive(new, neighEvents)
  BY <1>1 DEF unmirrorClient, deleteNeigh4, NUD
<1>4. ASSUME NEW l \in Key
      PROVE  /\ Resolving(neighEvents[l]) => Resolving(neighEvents'[l])
             /\ neigh'[l] \in Resolved => neigh[l] = neigh'[l] \/ Resolving(neighEvents'[l])
             /\ neigh'[l] = new[l]
  <2> HIDE DEF new
  <2> QED BY <1>1, <1>3, DriveAnnounces
<1>5. ASSUME NEW l \in Key, Tracked(l), neigh'[l] \in Resolved
      PROVE  l \in mirroredNeighs' \/ Resolving(neighEvents'[l])
  <2>1. l # k
    BY <1>4, <1>5 DEF Resolved
  <2> QED BY <1>1, <1>4, <1>5, <2>1 DEF TrackingInv, ResolvedTracked, Announcement, Resolving
<1> QED BY <1>1, <1>2, <1>5 DEF ResolvedTracked, Tracked, IfacesAt, RelayNames, Announcement, Resolving

\* Every step of the kernel, the hosts and the engine keeps TrackingInv.
LEMMA TrackingStep == TrackingInv /\ [Next]_vars => TrackingInv'
<1> SUFFICES ASSUME TrackingInv, [Next]_vars PROVE TrackingInv'
  OBVIOUS
<1>t. /\ TypeOK /\ neigh \in [Key -> NUD] /\ neighEvents \in [Key -> Snapshots]
  BY DEF TrackingInv, TypeOK, Snapshots
<1>1. TypeOK'
  <2>1. CASE UNCHANGED vars
    BY <2>1, <1>t DEF TypeOK, vars, kernelVars, engineVars, sweepVars, worldVars, RelayNames
  <2> QED BY <1>t, <2>1, WorldType, EngineType DEF Next
<1>2. ASSUME NEW k \in Key, NEW from, NEW s \in NUD, KernelDrives(k, from, s)
      PROVE  ResolvedTracked' /\ SweepSound'
  <2>1. [neigh EXCEPT ![k] = s] \in [Key -> NUD]
    BY <1>t
  <2> QED BY <1>2, <2>1, DriveTracks DEF KernelDrives, engineVars, sweepVars, worldVars
<1>3. ASSUME NEW k \in Key, NEW from, NEW s \in NUD \ Resolved, KernelSilent(k, from, s)
      PROVE  ResolvedTracked' /\ SweepSound'
  <2>1. \A l \in Key : neigh'[l] \in Resolved => neigh[l] \in Resolved
    BY <1>3, <1>t DEF KernelSilent
  <2> QED BY <1>3, <2>1, SilentTracks DEF KernelSilent, engineVars, sweepVars, worldVars
<1>4. CASE UNCHANGED <<interfaces, neigh, neighEvents, mirroredNeighs, sweepCur, sweepSeen>>
  BY <1>1, <1>4, SilentTracks DEF TrackingInv
<1>5. ASSUME NEW n \in Names, SweepList(n) PROVE ResolvedTracked' /\ SweepSound'
  <2>1. ResolvedTracked'
    BY <1>5 DEF SweepList, TrackingInv, ResolvedTracked, Tracked, IfacesAt, RelayNames,
                Announcement, kernelVars, engineVars, worldVars
  <2>2. SweepSound'
    BY <1>5 DEF SweepList, SweepSound, Resolved, kernelVars, worldVars
  <2> QED BY <2>1, <2>2
<1>6. ASSUME NEW a \in Addrs, NEW cid, relayServerResponse(a, cid)
      PROVE  ResolvedTracked' /\ SweepSound'
  <2> DEFINE keys == {<<a, interfaces[t].ifindex>> : t \in Targets(cid)}
             new == [k \in Key |-> IF k \in keys THEN "reachable" ELSE neigh[k]]
  <2>1. new \in [Key -> NUD] /\ Drive(new, neighEvents)
    BY <1>6, <1>t DEF relayServerResponse, seedNeighbor4, NUD
  <2>2. /\ mirroredNeighs \subseteq mirroredNeighs'
        /\ UNCHANGED <<interfaces, sweepCur, sweepSeen>>
    BY <1>6 DEF relayServerResponse, sweepVars, worldVars
  <2> HIDE DEF new
  <2> QED BY <2>1, <2>2, DriveTracks
<1>7. CASE World
  <2>1. \A k \in Locations : k \in Key
    BY MirrorAssumption
  <2>2. \A k \in Key : KernelConfirm(k) \/ KernelAge(k) \/ KernelProbe(k) \/ KernelFail(k)
                        => ResolvedTracked' /\ SweepSound'
    BY <1>2 DEF KernelConfirm, KernelAge, KernelProbe, KernelFail, NUD
  <2>3. \A k \in Key : KernelSolicit(k) \/ KernelCollect(k) => ResolvedTracked' /\ SweepSound'
    BY <1>3 DEF KernelSolicit, KernelCollect, NUD, Resolved
  <2>4. \/ \E k \in Key : \/ KernelConfirm(k) \/ KernelAge(k) \/ KernelProbe(k) \/ KernelFail(k)
                          \/ KernelSolicit(k) \/ KernelCollect(k)
        \/ UNCHANGED <<interfaces, neigh, neighEvents, mirroredNeighs, sweepCur, sweepSeen>>
    BY <1>7, <2>1 DEF World, HostMove, HostLeave, ExternalFlush, kernelVars, engineVars, sweepVars
  <2> QED BY <1>1, <1>4, <2>2, <2>3, <2>4 DEF TrackingInv
<1>8. CASE Engine
  <2>1. \/ \E k \in Key : handleNeighEvent(k)
        \/ \E n \in Names : SweepList(n) \/ SweepAct(n)
        \/ \E a \in Addrs, cid \in Ifindexes \cup {NoCircuit} : relayServerResponse(a, cid)
        \/ \E a \in Addrs, n \in DOMAIN interfaces : unmirrorClient(a, n)
        \/ UNCHANGED <<interfaces, neigh, neighEvents, mirroredNeighs, sweepCur, sweepSeen>>
    BY <1>8 DEF Engine, handleRouteEvent, reconcile, SweepStart,
                kernelVars, engineVars, sweepVars, worldVars
  <2> QED BY <1>1, <1>4, <1>5, <1>6, <2>1, NeighEventTracks, SweepActTracks, UnmirrorTracks
      DEF TrackingInv
<1>9. CASE UNCHANGED vars
  BY <1>4, <1>9 DEF vars, kernelVars, engineVars, sweepVars, worldVars
<1> QED BY <1>7, <1>8, <1>9 DEF Next

\* Whatever the order of neighbor events, leases, releases and sweeps, a host
\* the kernel holds as resolved on a relay interface is mirrored, or the
\* snapshot that makes handleNeighEvent mirror it is still pending.
THEOREM ResolvedHostsTracked == Spec => []ResolvedTracked
<1>1. Init => TrackingInv
  <2>1. Init => ResolvedTracked /\ SweepSound
    BY DEF Init, ResolvedTracked, SweepSound, Resolved
  <2> QED BY <2>1, InitType DEF TrackingInv
<1>2. TrackingInv => ResolvedTracked
  BY DEF TrackingInv
<1> QED BY <1>1, <1>2, TrackingStep, PTL DEF Spec

-----------------------------------------------------------------------------
(* What mirroredNeighs promises is in the kernel.                          *)

\* Only relay interfaces carry mirrors, so losing a route of a mirrored host is
\* never an event handleRouteEvent turns away.
MirroredOnRelay == \A k \in mirroredNeighs : IfacesAt(k[2]) \cap RelayNames # {}

\* Neighbors, their events and their mirrors exist only where hosts can live, so
\* one address is never mirrored behind two interfaces at once.
Confined ==
    /\ mirroredNeighs \subseteq Locations
    /\ \A k \in Key \ Locations : neigh[k] = "none" /\ neighEvents[k] = <<>>

InstalledInv ==
    /\ MirroredOnRelay
    /\ SingleHomed => Confined
    /\ MirrorInstalled

\* Drive leaves an absent neighbor that it keeps absent without events.
LEMMA DriveConfined ==
    ASSUME Confined, NEW new, NEW q, Drive(new, q),
           \A k \in Key \ Locations : new[k] = "none" /\ q[k] = <<>>
    PROVE  \A k \in Key \ Locations : neigh'[k] = "none" /\ neighEvents'[k] = <<>>
BY DEF Confined, Drive, Announced

\* The mirrors a step leaves alone stay installed when others are added.
LEMMA InstallKeeps ==
    ASSUME TypeOK, SingleHomed, MirrorInstalled, UNCHANGED <<interfaces, reconcileScheduled>>,
           mirroredNeighs \subseteq Locations,
           NEW K \in SUBSET Locations, InstallMirror(K),
           mirroredNeighs' = mirroredNeighs \cup K
    PROVE  MirrorInstalled'
<1>1. (Proxies(mirroredNeighs) \subseteq proxyNeigh)'
  <2>1. Proxies(mirroredNeighs) \subseteq proxyNeigh
    BY DEF MirrorInstalled
  <2>2. proxyNeigh' = proxyNeigh \cup Proxies(K)
    BY DEF InstallMirror
  <2> QED BY <2>1, <2>2 DEF Proxies, MirrorTargets
<1>2. ASSUME NEW k \in mirroredNeighs', Routed(k)
      PROVE  hostRoute'[k[1]] = k[2] \/ k[2] \in routeEvents' \/ reconcileScheduled'
  <2> DEFINE via == {i \in Ifindexes : <<k[1], i>> \in K /\ Routed(<<k[1], i>>)}
  <2>1. k \in Locations /\ k \in Key /\ k[1] \in Addrs /\ k[2] \in Ifindexes /\ k = <<k[1], k[2]>>
    BY MirrorAssumption DEF Key
  <2>2. hostRoute'[k[1]] \in IF via = {} THEN {hostRoute[k[1]]} ELSE via
    BY <2>1 DEF InstallMirror, RoutesAfterReplace
  <2>3. \A i \in via : i = k[2]
    BY <2>1 DEF SingleHomed
  <2>4. CASE k \in K
    BY <1>2, <2>1, <2>2, <2>3, <2>4
  <2>5. CASE k \in mirroredNeighs
    BY <1>2, <2>2, <2>3, <2>5 DEF MirrorInstalled, InstallMirror
  <2> QED BY <2>4, <2>5
<1> QED BY <1>1, <1>2 DEF MirrorInstalled, Routed, IfacesAt

\* Nor does removing the mirrors of some keys disturb those of others.
LEMMA RemoveKeeps ==
    ASSUME TypeOK, SingleHomed, MirrorInstalled, UNCHANGED <<interfaces, reconcileScheduled>>,
           mirroredNeighs \subseteq Locations,
           NEW K \in SUBSET Locations, RemoveMirror(K),
           mirroredNeighs' = mirroredNeighs \ K
    PROVE  MirrorInstalled'
<1>1. (Proxies(mirroredNeighs) \subseteq proxyNeigh)'
  <2> SUFFICES ASSUME NEW p \in Proxies(mirroredNeighs)' PROVE p \in proxyNeigh'
    OBVIOUS
  <2>1. PICK k \in mirroredNeighs \ K :
          k[1] = p[1] /\ \E c \in MirrorTargets(k[2]) : interfaces[c].ifindex = p[2]
    BY DEF Proxies, MirrorTargets
  <2>2. p \in Proxies(mirroredNeighs)
    BY <2>1 DEF Proxies, MirrorTargets
  <2>3. p \notin Proxies(K)
    BY <2>1 DEF Proxies, SingleHomed
  <2> QED BY <2>2, <2>3 DEF MirrorInstalled, RemoveMirror, Withdraw
<1>2. ASSUME NEW k \in mirroredNeighs', Routed(k)
      PROVE  hostRoute'[k[1]] = k[2] \/ k[2] \in routeEvents' \/ reconcileScheduled'
  <2>1. k \in mirroredNeighs /\ k \notin K /\ k[1] \in Addrs /\ k = <<k[1], k[2]>>
    BY MirrorAssumption DEF Key
  <2>2. hostRoute[k[1]] = k[2] => hostRoute'[k[1]] = hostRoute[k[1]]
    BY <2>1 DEF RemoveMirror, Withdraw
  <2> QED BY <1>2, <2>1, <2>2 DEF MirrorInstalled, RemoveMirror, Withdraw
<1> QED BY <1>1, <1>2 DEF MirrorInstalled, Routed, IfacesAt

\* Mirrors are only ever added on relay interfaces.
LEMMA RelayStep ==
    ASSUME TypeOK, MirroredOnRelay, [Next]_vars
    PROVE  MirroredOnRelay'
<1>1. UNCHANGED interfaces
  BY DEF Next, World, Engine, HostMove, HostLeave, KernelConfirm, KernelAge, KernelProbe,
         KernelFail, KernelSolicit, KernelCollect, KernelDrives, KernelSilent, ExternalFlush,
         handleNeighEvent, handleRouteEvent, reconcile, SweepStart, SweepList, SweepAct,
         relayServerResponse, unmirrorClient, vars, worldVars
<1>2. ASSUME NEW k \in mirroredNeighs', k \notin mirroredNeighs
      PROVE  IfacesAt(k[2]) \cap RelayNames # {}
  <2>1. CASE \E l \in Key : handleNeighEvent(l)
    BY <1>2, <2>1 DEF handleNeighEvent, Tracked
  <2>2. ASSUME NEW a \in Addrs, NEW cid, relayServerResponse(a, cid)
        PROVE  IfacesAt(k[2]) \cap RelayNames # {}
    <3>1. PICK t \in Targets(cid) : k = <<a, interfaces[t].ifindex>>
      BY <1>2, <2>2 DEF relayServerResponse
    <3>2. t \in DOMAIN interfaces /\ ~interfaces[t].master
      BY <3>1 DEF Targets, IfacesAt, DHCPSlaves
    <3>3. t \in RelayNames /\ t \in IfacesAt(k[2])
      BY <3>1, <3>2, MirrorAssumption DEF TypeOK, RelayNames, IfacesAt
    <3> QED BY <3>3
  <2> QED BY <1>2, <2>1, <2>2
      DEF Next, World, Engine, HostMove, HostLeave, KernelConfirm, KernelAge, KernelProbe,
          KernelFail, KernelSolicit, KernelCollect, KernelDrives, KernelSilent, ExternalFlush,
          handleRouteEvent, reconcile, SweepStart, SweepList, SweepAct,
          unmirrorClient, vars, engineVars
<1> QED BY <1>1, <1>2 DEF MirroredOnRelay, IfacesAt, RelayNames

\* With one location per address, an ACK goes to the slave the host is behind.
LEMMA AckKeys ==
    ASSUME interfaces \in Configs, SingleHomed,
           NEW a \in Addrs, NEW cid, cid \in Circuits(a)
    PROVE  {<<a, interfaces[t].ifindex>> : t \in Targets(cid)} \subseteq Locations
<1>1. /\ cid \in Ifindexes /\ <<a, cid>> \in Locations
      /\ \E n \in IfacesAt(cid) : ~interfaces[n].master
  BY DEF Circuits, SingleHomed
<1>2. \A t \in Targets(cid) : interfaces[t].ifindex = cid
  BY <1>1 DEF Targets, IfacesAt
<1> QED BY <1>1, <1>2

\* Nothing appears at a place where no host can live.
LEMMA ConfinedStep ==
    ASSUME TypeOK, NothingLeaked, SingleHomed, Confined, [Next]_vars
    PROVE  Confined'
<1> DEFINE Empty(e, q) == \A k \in Key \ Locations : e[k] = "none" /\ q[k] = <<>>
<1>1. neigh \in [Key -> NUD] /\ Empty(neigh, neighEvents) /\ mirroredNeighs \subseteq Locations
  BY DEF TypeOK, Confined
<1>2. ASSUME NEW k \in Key, NEW from, NEW s, KernelDrives(k, from, s),
             k \in Locations \/ "none" \notin from
      PROVE  Confined'
  <2>1. k \in Locations
    BY <1>1, <1>2 DEF KernelDrives
  <2>2. \A l \in Key \ Locations : [neigh EXCEPT ![k] = s][l] = "none" /\ neighEvents[l] = <<>>
    BY <1>1, <2>1
  <2>3. Empty(neigh', neighEvents')
    BY <1>2, <2>2, DriveConfined DEF KernelDrives
  <2> QED BY <1>1, <1>2, <2>3 DEF Confined, KernelDrives, engineVars
<1>3. ASSUME NEW k \in Key, NEW from, NEW s, KernelSilent(k, from, s),
             k \in Locations \/ "none" \notin from
      PROVE  Confined'
  BY <1>1, <1>3 DEF Confined, KernelSilent, engineVars
<1>4. ASSUME NEW k \in Key, handleNeighEvent(k) PROVE Confined'
  <2> DEFINE rest == [neighEvents EXCEPT ![k] = Tail(neighEvents[k])]
             new == [l \in Key |-> IF l \in {k} THEN "none" ELSE neigh[l]]
  <2>1. k \in Locations
    BY <1>1, <1>4 DEF handleNeighEvent
  <2>2. Empty(neigh, rest) /\ Empty(new, rest)
    BY <1>1, <2>1 DEF TypeOK
  <2>3. CASE neighEvents' = rest /\ UNCHANGED neigh
    BY <1>1, <1>4, <2>1, <2>2, <2>3 DEF Confined, handleNeighEvent
  <2>4. CASE deleteNeigh4({k}, rest)
    <3>1. Drive(new, rest)
      BY <2>4 DEF deleteNeigh4
    <3>2. Empty(neigh', neighEvents')
      <4> HIDE DEF new, rest
      <4> QED BY <2>2, <3>1, DriveConfined
    <3> QED BY <1>1, <1>4, <2>1, <3>2 DEF Confined, handleNeighEvent
  <2> QED BY <1>4, <2>3, <2>4 DEF handleNeighEvent
<1>5. ASSUME NEW n \in Names, SweepAct(n) PROVE Confined'
  <2> DEFINE i == interfaces[n].ifindex
             failed == {<<a, i>> : a \in {a \in Addrs : sweepSeen[a] = "failed"}}
             new == [k \in Key |-> IF k \in failed THEN "none"
                                   ELSE IF k \in Probed(i) THEN "probe" ELSE neigh[k]]
  <2>1. Drive(new, neighEvents) /\ mirroredNeighs' \subseteq mirroredNeighs
    BY <1>5 DEF SweepAct
  <2>2. \A k \in Probed(i) : neigh[k] # "none"
    BY DEF Probed, Resolved
  <2>3. Empty(new, neighEvents)
    BY <1>1, <2>2
  <2>4. Empty(neigh', neighEvents')
    <3> HIDE DEF new
    <3> QED BY <2>1, <2>3, DriveConfined
  <2> QED BY <1>1, <2>1, <2>4 DEF Confined
<1>6. ASSUME NEW a \in Addrs, NEW cid, relayServerResponse(a, cid) PROVE Confined'
  <2> DEFINE keys == {<<a, interfaces[t].ifindex>> : t \in Targets(cid)}
             new == [k \in Key |-> IF k \in keys THEN "reachable" ELSE neigh[k]]
  <2>1. keys \subseteq Locations
    BY <1>6, AckKeys DEF relayServerResponse, TypeOK
  <2>2. Drive(new, neighEvents) /\ mirroredNeighs' = mirroredNeighs \cup keys
    BY <1>6 DEF relayServerResponse, seedNeighbor4
  <2> HIDE DEF keys
  <2>3. Empty(new, neighEvents)
    BY <1>1, <2>1
  <2>4. Empty(neigh', neighEvents')
    <3> HIDE DEF new
    <3> QED BY <2>2, <2>3, DriveConfined
  <2> QED BY <1>1, <2>1, <2>2, <2>4 DEF Confined
<1>7. ASSUME NEW a \in Addrs, NEW n \in DOMAIN interfaces, unmirrorClient(a, n) PROVE Confined'
  <2> DEFINE k == <<a, interfaces[n].ifindex>>
             new == [l \in Key |-> IF l \in {k} THEN "none" ELSE neigh[l]]
  <2>1. Drive(new, neighEvents) /\ mirroredNeighs' \subseteq mirroredNeighs
    BY <1>7 DEF unmirrorClient, deleteNeigh4
  <2>2. Empty(new, neighEvents)
    BY <1>1
  <2>3. Empty(neigh', neighEvents')
    <3> HIDE DEF new
    <3> QED BY <2>1, <2>2, DriveConfined
  <2> QED BY <1>1, <2>1, <2>3 DEF Confined
<1>8. CASE UNCHANGED <<neigh, neighEvents, mirroredNeighs>>
  BY <1>8 DEF Confined
<1>9. CASE World
  <2>1. \A k \in Locations : k \in Key
    BY MirrorAssumption
  <2>2. \A k \in Locations : KernelConfirm(k) \/ KernelSolicit(k) => Confined'
    BY <1>2, <1>3, <2>1 DEF KernelConfirm, KernelSolicit
  <2>3. \A k \in Key : KernelAge(k) \/ KernelProbe(k) \/ KernelFail(k) \/ KernelCollect(k) => Confined'
    BY <1>2, <1>3 DEF KernelAge, KernelProbe, KernelFail, KernelCollect
  <2> QED BY <1>8, <1>9, <2>2, <2>3
      DEF World, HostMove, HostLeave, ExternalFlush, kernelVars, engineVars
<1> QED BY <1>4, <1>5, <1>6, <1>7, <1>8, <1>9
    DEF Next, Engine, handleRouteEvent, reconcile, SweepStart, SweepList,
        vars, kernelVars, engineVars

\* reconcileKernelState re-installs every mirror.
LEMMA ReconcileInstalls ==
    ASSUME TypeOK, InstalledInv, SingleHomed, reconcile
    PROVE  MirrorInstalled'
<1>1. mirroredNeighs = Registered /\ UNCHANGED <<interfaces, mirroredNeighs>>
  BY DEF Registered, InstalledInv, MirroredOnRelay, reconcile, worldVars
<1>2. (Proxies(mirroredNeighs) \subseteq proxyNeigh)'
  <2>1. Proxies(mirroredNeighs)' = Proxies(mirroredNeighs)
    BY <1>1 DEF Proxies, MirrorTargets
  <2> QED BY <1>1, <2>1 DEF reconcile, reconcileKernelState
<1>3. ASSUME NEW k \in mirroredNeighs, Routed(k) PROVE hostRoute'[k[1]] = k[2]
  <2> DEFINE via == {i \in Ifindexes : <<k[1], i>> \in Registered /\ Routed(<<k[1], i>>)}
  <2>1. /\ k[1] \in Addrs /\ k[2] \in Ifindexes /\ k = <<k[1], k[2]>>
        /\ mirroredNeighs \subseteq Locations
    BY DEF TypeOK, Key, InstalledInv, Confined
  <2>2. hostRoute'[k[1]] \in IF via = {} THEN {hostRoute[k[1]]} ELSE via
    BY <2>1 DEF reconcile, reconcileKernelState, RoutesAfterReplace
  <2>3. k[2] \in via
    BY <1>1, <1>3, <2>1
  <2>4. \A i \in via : i = k[2]
    BY <1>1, <2>1 DEF SingleHomed
  <2> QED BY <2>2, <2>3, <2>4
<1> QED BY <1>1, <1>2, <1>3 DEF MirrorInstalled, Routed, IfacesAt

\* Every step keeps the mirrors installed or their loss noticed.
LEMMA InstalledStep ==
    ASSUME TypeOK, NothingLeaked, InstalledInv, [Next]_vars
    PROVE  InstalledInv'
<1>1. MirroredOnRelay'
  BY RelayStep DEF InstalledInv
<1>2. SingleHomed => Confined'
  BY ConfinedStep DEF InstalledInv
<1>3. ASSUME SingleHomed PROVE MirrorInstalled'
  <2>1. MirrorInstalled /\ mirroredNeighs \subseteq Locations
    BY <1>3 DEF InstalledInv, Confined
  <2>2. ASSUME NEW S \in SUBSET DOMAIN interfaces, ExternalFlush(S) PROVE MirrorInstalled'
    <3>1. ASSUME NEW k \in mirroredNeighs, hostRoute[k[1]] = k[2]
          PROVE  hostRoute'[k[1]] = k[2] \/ k[2] \in routeEvents'
      <4>1. k[1] \in Addrs
        BY <3>1 DEF TypeOK, Key
      <4> QED BY <2>2, <3>1, <4>1 DEF ExternalFlush
    <3>2. /\ UNCHANGED <<interfaces, mirroredNeighs, reconcileScheduled, proxyNeigh>>
          /\ routeEvents \subseteq routeEvents'
      BY <2>2 DEF ExternalFlush, engineVars
    <3> QED BY <1>3, <2>1, <3>1, <3>2
        DEF MirrorInstalled, Proxies, MirrorTargets, Routed, IfacesAt
  <2>3. ASSUME NEW k \in Key, handleNeighEvent(k) PROVE MirrorInstalled'
    <3>1. UNCHANGED <<interfaces, reconcileScheduled>> /\ mirroredNeighs' \subseteq Locations
      BY <1>2, <1>3, <2>3 DEF handleNeighEvent, worldVars, Confined
    <3>2. CASE mirroredNeighs' = mirroredNeighs \cup {k} /\ InstallMirror({k})
      BY <1>3, <2>1, <3>1, <3>2, InstallKeeps
    <3>3. CASE mirroredNeighs' = mirroredNeighs \ {k} /\ RemoveMirror({k} \cap mirroredNeighs)
      <4>1. mirroredNeighs' = mirroredNeighs \ ({k} \cap mirroredNeighs)
        BY <3>3
      <4> QED BY <1>3, <2>1, <3>1, <3>3, <4>1, RemoveKeeps
    <3>4. CASE UNCHANGED <<mirroredNeighs, mirrorVars>>
      BY <2>1, <3>1, <3>4 DEF MirrorInstalled, Proxies, MirrorTargets, Routed, IfacesAt, mirrorVars
    <3> QED BY <2>3, <3>2, <3>3, <3>4 DEF handleNeighEvent
  <2>4. ASSUME NEW i \in Ifindexes, handleRouteEvent(i) PROVE MirrorInstalled'
    <3>1. /\ UNCHANGED <<interfaces, mirroredNeighs, proxyNeigh, hostRoute>>
          /\ reconcileScheduled => reconcileScheduled'
      BY <2>4 DEF handleRouteEvent, worldVars, TypeOK
    <3>2. \A k \in mirroredNeighs : k[2] \in routeEvents => k[2] \in routeEvents' \/ reconcileScheduled'
      BY <2>4 DEF handleRouteEvent, InstalledInv, MirroredOnRelay
    <3> QED BY <1>3, <2>1, <3>1, <3>2 DEF MirrorInstalled, Proxies, MirrorTargets, Routed, IfacesAt
  <2>5. ASSUME reconcile PROVE MirrorInstalled'
    BY <1>3, <2>5, ReconcileInstalls
  <2>6. ASSUME NEW n \in Names, SweepAct(n) PROVE MirrorInstalled'
    <3> DEFINE gone == {<<a, interfaces[n].ifindex>> : a \in Swept(interfaces[n].ifindex)}
    <3>1. /\ RemoveMirror(gone) /\ mirroredNeighs' = mirroredNeighs \ gone
          /\ UNCHANGED <<interfaces, reconcileScheduled>>
      BY <2>6 DEF SweepAct, worldVars
    <3>2. gone \subseteq mirroredNeighs
      <4>1. interfaces[n].ifindex \in Ifindexes
        BY <2>6, TableType DEF SweepAct, TypeOK, RelayNames
      <4>2. \A a \in Swept(interfaces[n].ifindex) : <<a, interfaces[n].ifindex>> \in mirroredNeighs
        BY <4>1, ArpAssumption DEF Swept, NothingLeaked, NoRoute
      <4> QED BY <4>2
    <3> HIDE DEF gone
    <3> QED BY <1>3, <2>1, <3>1, <3>2, RemoveKeeps
  <2>7. ASSUME NEW a \in Addrs, NEW cid, relayServerResponse(a, cid) PROVE MirrorInstalled'
    <3> DEFINE keys == {<<a, interfaces[t].ifindex>> : t \in Targets(cid)}
    <3>1. /\ InstallMirror(keys \ mirroredNeighs) /\ mirroredNeighs' = mirroredNeighs \cup keys
          /\ UNCHANGED <<interfaces, reconcileScheduled>>
      BY <2>7 DEF relayServerResponse, worldVars
    <3>2. keys \subseteq Locations
      BY <1>3, <2>7, AckKeys DEF relayServerResponse, TypeOK
    <3> HIDE DEF keys
    <3>3. mirroredNeighs' = mirroredNeighs \cup (keys \ mirroredNeighs)
      BY <3>1
    <3> QED BY <1>3, <2>1, <3>1, <3>2, <3>3, InstallKeeps
  <2>8. ASSUME NEW a \in Addrs, NEW n \in DOMAIN interfaces, unmirrorClient(a, n)
        PROVE  MirrorInstalled'
    BY <1>3, <2>1, <2>8, RemoveKeeps DEF unmirrorClient, worldVars
  <2>9. CASE UNCHANGED <<interfaces, mirroredNeighs, reconcileScheduled, mirrorVars>>
    BY <2>1, <2>9 DEF MirrorInstalled, Proxies, MirrorTargets, Routed, IfacesAt, mirrorVars
  <2>10. \/ \E S \in SUBSET DOMAIN interfaces : ExternalFlush(S)
         \/ Engine
         \/ UNCHANGED <<interfaces, mirroredNeighs, reconcileScheduled, mirrorVars>>
    BY DEF Next, World, HostMove, HostLeave, KernelConfirm, KernelAge, KernelProbe, KernelFail,
           KernelSolicit, KernelCollect, KernelDrives, KernelSilent,
           vars, kernelVars, engineVars, worldVars, mirrorVars
  <2> QED BY <2>2, <2>3, <2>4, <2>5, <2>6, <2>7, <2>8, <2>9, <2>10
      DEF Engine, SweepStart, SweepList, kernelVars, engineVars, worldVars, mirrorVars
<1> QED BY <1>1, <1>2, <1>3 DEF InstalledInv, MirrorInstalled

\* Nothing is mirrored at first.
LEMMA InitInstalled == Init => InstalledInv
<1>1. Init => mirroredNeighs = {} /\ Proxies({}) = {}
  BY DEF Init, Proxies
<1> QED BY <1>1 DEF Init, InstalledInv, MirroredOnRelay, Confined, MirrorInstalled

\* While every address lives behind one interface and DHCP replies find it, each
\* mirrored host has its proxy-ARP entries, and its host route or a reconcile
\* that restores it on the way: no event order leaves a host half mirrored.
THEOREM MirrorsInstalled == Spec => []MirrorInstalled
<1>1. Init => InstalledInv
  BY InitInstalled
<1>2. TypeOK /\ NothingLeaked /\ InstalledInv /\ [Next]_vars => InstalledInv'
  BY InstalledStep
<1>3. InstalledInv => MirrorInstalled
  BY DEF InstalledInv
<1> QED BY <1>1, <1>2, <1>3, TypeCorrect, NothingIsLeaked, PTL DEF Spec

=============================================================================
