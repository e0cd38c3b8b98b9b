---------------------------- MODULE HealingProofs -----------------------------
(***************************************************************************)
(* NeighMirror implements HealingMirror: whatever order neighbor events,   *)
(* leases, sweeps and flushes by other programs come in, every step of the *)
(* daemon and of the kernel makes hosts appear or vanish, damages mirrors  *)
(* while leaving a repair owed, or repairs all of them.  The inductive     *)
(* invariants the mapping needs are proved in NeighMirrorProofs.           *)
(***************************************************************************)
EXTENDS NeighMirrorProofs

\* The state functions HealingMirror's installed and owed are mapped to.
Complete(k) == Proxies({k}) \subseteq proxyNeigh /\ (Routed(k) => hostRoute[k[1]] = k[2])
Installed == {k \in mirroredNeighs : Complete(k)}
Owed == reconcileScheduled \/ \E i \in routeEvents : IfacesAt(i) \cap RelayNames # {}

\* Routing, proxy-ARP entries and relay interfaces do not change under one table.
LEMMA FixedTable ==
    ASSUME UNCHANGED interfaces
    PROVE  /\ \A k : Routed(k)' <=> Routed(k)
           /\ \A k : Proxies({k})' = Proxies({k})
           /\ \A i : (IfacesAt(i) \cap RelayNames)' = IfacesAt(i) \cap RelayNames
BY DEF Proxies, MirrorTargets, Routed, IfacesAt, RelayNames

\* While the proxy-ARP entries are in place a mirror is complete if its route is.
LEMMA CompleteByRoute ==
    ASSUME SingleHomed, MirrorInstalled, NEW k \in mirroredNeighs
    PROVE  Complete(k) <=> (Routed(k) => hostRoute[k[1]] = k[2])
<1>1. Proxies({k}) \subseteq Proxies(mirroredNeighs)
  BY DEF Proxies
<1> QED BY <1>1 DEF Complete, MirrorInstalled

\* The same after a step.
LEMMA CompleteAfter ==
    ASSUME SingleHomed, MirrorInstalled', UNCHANGED interfaces, NEW k \in mirroredNeighs'
    PROVE  Complete(k)' <=> (Routed(k) => hostRoute'[k[1]] = k[2])
<1>1. Proxies({k})' \subseteq Proxies(mirroredNeighs)'
  BY DEF Proxies
<1> QED BY <1>1, FixedTable DEF Complete, MirrorInstalled

-----------------------------------------------------------------------------
(* Each kind of step, in terms of Installed and Owed.                      *)

\* What the mapping is proved from.
HealInv == TypeOK /\ NothingLeaked /\ InstalledInv

\* Installing the mirrors of new keys completes them and touches no other.
LEMMA InstallAppears ==
    ASSUME HealInv, InstalledInv', SingleHomed, UNCHANGED <<interfaces, reconcileScheduled>>,
           NEW K \in SUBSET Key, InstallMirror(K \ mirroredNeighs),
           mirroredNeighs' = mirroredNeighs \cup K
    PROVE  Healing!Appear(K)
<1>1. /\ mirroredNeighs \subseteq Locations /\ mirroredNeighs' \subseteq Locations
      /\ MirrorInstalled /\ MirrorInstalled'
  BY DEF HealInv, InstalledInv, Confined
<1>2. \A k \in Locations : k \in Key /\ k[1] \in Addrs /\ k[2] \in Ifindexes /\ k = <<k[1], k[2]>>
  BY MirrorAssumption DEF Key
<1>3. ASSUME NEW k \in mirroredNeighs'
      PROVE  Complete(k)' <=> (k \notin mirroredNeighs \/ Complete(k))
  <2> DEFINE via == {i \in Ifindexes : /\ <<k[1], i>> \in K \ mirroredNeighs
                                       /\ Routed(<<k[1], i>>)}
  <2>1. hostRoute'[k[1]] \in IF via = {} THEN {hostRoute[k[1]]} ELSE via
    BY <1>1, <1>2 DEF InstallMirror, RoutesAfterReplace
  <2>2. \A i \in via : i = k[2] /\ k \notin mirroredNeighs
    BY <1>1, <1>2 DEF SingleHomed
  <2>3. CASE k \in mirroredNeighs
    BY <1>1, <2>1, <2>2, <2>3, CompleteByRoute, CompleteAfter
  <2>4. CASE k \notin mirroredNeighs
    <3>1. Routed(k) => k[2] \in via
      BY <1>1, <1>2, <2>4
    <3> QED BY <1>1, <2>1, <2>2, <2>4, <3>1, CompleteAfter
  <2> QED BY <2>3, <2>4
<1>4. Installed' = Installed \cup (K \ mirroredNeighs)
  BY <1>3 DEF Installed
<1>5. Owed' = Owed
  BY FixedTable DEF Owed, InstallMirror
<1> QED BY <1>4, <1>5 DEF Healing!Appear, Installed, Complete, Owed

\* Removing the mirrors of some keys leaves those of the others as they are; the
\* kernel's notice of our own deletion is taken for damage.
LEMMA RemoveVanishes ==
    ASSUME HealInv, InstalledInv', SingleHomed, UNCHANGED <<interfaces, reconcileScheduled>>,
           NEW K \in SUBSET Key, RemoveMirror(K), K \subseteq mirroredNeighs,
           mirroredNeighs' = mirroredNeighs \ K
    PROVE  Healing!Vanish(K)
<1>1. MirrorInstalled /\ MirrorInstalled'
  BY DEF HealInv, InstalledInv
<1>2. ASSUME NEW k \in mirroredNeighs'
      PROVE  Complete(k)' <=> Complete(k)
  <2>1. /\ k[1] \in Addrs /\ k[2] \in Ifindexes /\ k = <<k[1], k[2]>>
        /\ k \in mirroredNeighs /\ k \notin K
    BY DEF HealInv, TypeOK, Key
  <2>2. hostRoute[k[1]] = k[2] <=> hostRoute'[k[1]] = k[2]
    BY <2>1, ArpAssumption DEF RemoveMirror, Withdraw, NoRoute
  <2> QED BY <1>1, <2>1, <2>2, CompleteByRoute, CompleteAfter
<1>3. Installed' = Installed \ K
  BY <1>2 DEF Installed
<1>4. Owed => Owed'
  BY FixedTable DEF Owed, RemoveMirror, Withdraw
<1>5. Owed \in BOOLEAN /\ Owed' \in BOOLEAN
  BY DEF Owed, HealInv, TypeOK
<1>6. Owed' \in {Owed, TRUE}
  BY <1>4, <1>5
<1> QED BY <1>3, <1>6 DEF Healing!Vanish, Installed, Complete, Owed

\* A flush by another program leaves a repair owed for every mirror it damages.
LEMMA FlushDamages ==
    ASSUME HealInv, InstalledInv', SingleHomed,
           NEW S \in SUBSET DOMAIN interfaces, ExternalFlush(S)
    PROVE  \E K \in SUBSET Key : Healing!Damage(K)
<1>1. /\ UNCHANGED <<interfaces, mirroredNeighs, reconcileScheduled>>
      /\ routeEvents \subseteq routeEvents'
  BY DEF ExternalFlush, engineVars
<1>2. MirrorInstalled /\ MirrorInstalled' /\ MirroredOnRelay /\ mirroredNeighs \subseteq Key
  BY DEF HealInv, InstalledInv, TypeOK
<1>3. ASSUME NEW k \in mirroredNeighs, Complete(k)' PROVE Complete(k)
  <2>1. k[1] \in Addrs /\ k[2] \in Ifindexes
    BY <1>2 DEF Key
  <2>2. hostRoute'[k[1]] = k[2] => hostRoute[k[1]] = k[2]
    BY <2>1, ArpAssumption DEF ExternalFlush, NoRoute
  <2> QED BY <1>1, <1>2, <1>3, <2>2, CompleteByRoute, CompleteAfter
<1>4. PICK K \in SUBSET Key : Installed' = Installed \ K
  <2>1. Installed' = Installed \ (mirroredNeighs \ Installed')
    BY <1>1, <1>3 DEF Installed
  <2> QED BY <1>2, <2>1
<1>5. Owed => Owed'
  BY <1>1, FixedTable DEF Owed
<1>6. ASSUME NEW k \in mirroredNeighs, Complete(k), ~Complete(k)' PROVE Owed'
  <2>1. k[1] \in Addrs /\ k[2] \in Ifindexes
    BY <1>2 DEF Key
  <2>2. hostRoute[k[1]] = k[2] /\ hostRoute'[k[1]] # k[2]
    BY <1>1, <1>2, <1>6, CompleteByRoute, CompleteAfter
  <2>3. k[2] \in routeEvents'
    BY <2>1, <2>2 DEF ExternalFlush
  <2>4. IfacesAt(k[2]) \cap RelayNames # {}
    BY <1>2 DEF MirroredOnRelay
  <2> QED BY <1>1, <2>3, <2>4, FixedTable DEF Owed
<1>7. Owed \in BOOLEAN /\ Owed' \in BOOLEAN
  BY <1>1 DEF Owed, HealInv, TypeOK
<1>8. Installed' # Installed => Owed'
  BY <1>1, <1>3, <1>6 DEF Installed
<1>9. Owed' \in IF Installed' = Installed THEN {Owed, TRUE} ELSE {TRUE}
  BY <1>5, <1>7, <1>8
<1>10. Healing!Damage(K)
  BY <1>1, <1>4, <1>9 DEF Healing!Damage, Installed, Complete, Owed
<1> QED BY <1>10

\* Noticing a deletion turns it into a scheduled reconcile, or it is none of ours.
LEMMA RouteEventKeepsOwed ==
    ASSUME HealInv, NEW i \in Ifindexes, handleRouteEvent(i)
    PROVE  UNCHANGED <<mirroredNeighs, Installed, Owed>>
<1>1. UNCHANGED <<interfaces, mirroredNeighs, proxyNeigh, hostRoute>>
  BY DEF handleRouteEvent, worldVars
<1>2. Installed' = Installed
  BY <1>1, FixedTable DEF Installed, Complete
<1>3. Owed <=> Owed'
  BY <1>1, FixedTable DEF Owed, handleRouteEvent
<1>4. Owed \in BOOLEAN /\ Owed' \in BOOLEAN
  BY DEF Owed, HealInv, TypeOK, handleRouteEvent
<1> QED BY <1>1, <1>2, <1>3, <1>4

\* reconcileKernelState completes every mirror.
LEMMA ReconcileRepairs ==
    ASSUME HealInv, InstalledInv', SingleHomed, reconcile
    PROVE  Healing!Repair
<1>1. /\ UNCHANGED <<interfaces, mirroredNeighs>> /\ reconcileScheduled
      /\ mirroredNeighs = Registered /\ mirroredNeighs \subseteq Locations
      /\ MirrorInstalled'
  BY DEF reconcile, worldVars, Registered, HealInv, InstalledInv, MirroredOnRelay, Confined
<1>2. ASSUME NEW k \in mirroredNeighs PROVE Complete(k)'
  <2> DEFINE via == {i \in Ifindexes : <<k[1], i>> \in Registered /\ Routed(<<k[1], i>>)}
  <2>1. k[1] \in Addrs /\ k[2] \in Ifindexes /\ k = <<k[1], k[2]>>
    BY <1>1, MirrorAssumption DEF Key
  <2>2. hostRoute'[k[1]] \in IF via = {} THEN {hostRoute[k[1]]} ELSE via
    BY <2>1 DEF reconcile, reconcileKernelState, RoutesAfterReplace
  <2>3. Routed(k) => k[2] \in via
    BY <1>1, <2>1
  <2>4. \A i \in via : i = k[2]
    BY <1>1, <2>1 DEF SingleHomed
  <2> QED BY <1>1, <2>2, <2>3, <2>4, CompleteAfter
<1>3. Installed' = mirroredNeighs
  BY <1>1, <1>2 DEF Installed
<1>4. Owed /\ Owed' \in BOOLEAN
  BY <1>1 DEF Owed, reconcile
<1> QED BY <1>1, <1>3, <1>4 DEF Healing!Repair, Installed, Complete, Owed

-----------------------------------------------------------------------------
(* The refinement.                                                         *)

\* Every step maps to a step of HealingMirror or changes none of its variables.
LEMMA HealStep ==
    ASSUME HealInv, InstalledInv', SingleHomed, [Next]_vars
    PROVE  [Healing!HealNext]_(Healing!healVars)
<1>1. ASSUME NEW S \in SUBSET DOMAIN interfaces, ExternalFlush(S) PROVE Healing!HealNext
  BY <1>1, FlushDamages DEF Healing!HealNext
<1>2. ASSUME UNCHANGED <<mirroredNeighs, Installed, Owed>>
      PROVE  UNCHANGED Healing!healVars
  BY <1>2 DEF Healing!healVars, Installed, Complete, Owed
<1>3. ASSUME UNCHANGED <<interfaces, mirroredNeighs, reconcileScheduled, mirrorVars>>
      PROVE  UNCHANGED Healing!healVars
  BY <1>2, <1>3, FixedTable DEF Installed, Complete, Owed, mirrorVars
<1>4. ASSUME NEW k \in Key, handleNeighEvent(k)
      PROVE  Healing!HealNext \/ UNCHANGED Healing!healVars
  <2>1. UNCHANGED <<interfaces, reconcileScheduled>>
    BY <1>4 DEF handleNeighEvent, worldVars
  <2>2. CASE /\ k \notin mirroredNeighs
             /\ mirroredNeighs' = mirroredNeighs \cup {k} /\ InstallMirror({k})
    <3>1. {k} \ mirroredNeighs = {k} /\ {k} \in SUBSET Key
      BY <2>2
    <3>2. Healing!Appear({k})
      BY <2>1, <2>2, <3>1, InstallAppears
    <3> QED BY <3>1, <3>2 DEF Healing!HealNext
  <2>3. CASE mirroredNeighs' = mirroredNeighs \ {k} /\ RemoveMirror({k} \cap mirroredNeighs)
    <3>1. PICK K \in SUBSET Key : K = {k} \cap mirroredNeighs
      OBVIOUS
    <3>2. RemoveMirror(K) /\ K \subseteq mirroredNeighs /\ mirroredNeighs' = mirroredNeighs \ K
      BY <2>3, <3>1
    <3>3. Healing!Vanish(K)
      BY <2>1, <3>2, RemoveVanishes
    <3> QED BY <3>3 DEF Healing!HealNext
  <2>4. CASE UNCHANGED <<mirroredNeighs, mirrorVars>>
    BY <1>3, <2>1, <2>4
  <2> QED BY <1>4, <2>2, <2>3, <2>4 DEF handleNeighEvent
<1>5. ASSUME NEW i \in Ifindexes, handleRouteEvent(i) PROVE UNCHANGED Healing!healVars
  BY <1>2, <1>5, RouteEventKeepsOwed
<1>6. ASSUME reconcile PROVE Healing!HealNext
  BY <1>6, ReconcileRepairs DEF Healing!HealNext
<1>7. ASSUME NEW n \in Names, SweepAct(n) PROVE Healing!HealNext
  <2> DEFINE gone == {<<a, interfaces[n].ifindex>> : a \in Swept(interfaces[n].ifindex)}
  <2>1. /\ RemoveMirror(gone) /\ mirroredNeighs' = mirroredNeighs \ gone
        /\ UNCHANGED <<interfaces, reconcileScheduled>>
    BY <1>7 DEF SweepAct, worldVars
  <2>2. gone \subseteq mirroredNeighs
    <3>1. interfaces[n].ifindex \in Ifindexes
      BY <1>7, TableType DEF SweepAct, HealInv, TypeOK, RelayNames
    <3>2. \A a \in Swept(interfaces[n].ifindex) : <<a, interfaces[n].ifindex>> \in mirroredNeighs
      BY <3>1, ArpAssumption DEF Swept, HealInv, NothingLeaked, NoRoute
    <3> QED BY <3>2
  <2> HIDE DEF gone
  <2>3. PICK K \in SUBSET Key : K = gone
    BY <2>2 DEF HealInv, TypeOK
  <2>4. Healing!Vanish(K)
    BY <2>1, <2>2, <2>3, RemoveVanishes
  <2> QED BY <2>4 DEF Healing!HealNext
<1>8. ASSUME NEW a \in Addrs, NEW cid, relayServerResponse(a, cid) PROVE Healing!HealNext
  <2> DEFINE keys == {<<a, interfaces[t].ifindex>> : t \in Targets(cid)}
  <2>1. /\ InstallMirror(keys \ mirroredNeighs) /\ mirroredNeighs' = mirroredNeighs \cup keys
        /\ UNCHANGED <<interfaces, reconcileScheduled>>
    BY <1>8 DEF relayServerResponse, worldVars
  <2>2. keys \in SUBSET Key
    BY <1>8, AckKeys, MirrorAssumption DEF relayServerResponse, HealInv, TypeOK
  <2> HIDE DEF keys
  <2>3. PICK K \in SUBSET Key : K = keys
    BY <2>2
  <2>4. Healing!Appear(K)
    BY <2>1, <2>3, InstallAppears
  <2> QED BY <2>4 DEF Healing!HealNext
<1>9. ASSUME NEW a \in Addrs, NEW n \in DOMAIN interfaces, unmirrorClient(a, n)
      PROVE  Healing!HealNext
  <2>1. PICK k \in Key : k = <<a, interfaces[n].ifindex>>
    BY <1>9 DEF unmirrorClient, HealInv, TypeOK
  <2>2. /\ RemoveMirror({k}) /\ mirroredNeighs' = mirroredNeighs \ {k} /\ k \in mirroredNeighs
        /\ UNCHANGED <<interfaces, reconcileScheduled>>
    BY <1>9, <2>1 DEF unmirrorClient, worldVars
  <2>3. {k} \in SUBSET Key /\ {k} \subseteq mirroredNeighs
    BY <2>2
  <2>4. Healing!Vanish({k})
    BY <2>2, <2>3, RemoveVanishes
  <2> QED BY <2>3, <2>4 DEF Healing!HealNext
<1>10. \/ \E S \in SUBSET DOMAIN interfaces : ExternalFlush(S)
       \/ Engine
       \/ UNCHANGED <<interfaces, mirroredNeighs, reconcileScheduled, mirrorVars>>
  BY DEF Next, World, HostMove, HostLeave, KernelConfirm, KernelAge, KernelProbe, KernelFail,
         KernelSolicit, KernelCollect, KernelDrives, KernelSilent,
         vars, kernelVars, engineVars, worldVars, mirrorVars
<1>11. SweepStart \/ (\E n \in Names : SweepList(n)) =>
         UNCHANGED <<interfaces, mirroredNeighs, reconcileScheduled, mirrorVars>>
  BY DEF SweepStart, SweepList, kernelVars, engineVars, worldVars, mirrorVars
<1> QED BY <1>1, <1>3, <1>4, <1>5, <1>6, <1>7, <1>8, <1>9, <1>10, <1>11 DEF Engine

\* While addresses are single-homed and servers echo option 82, the daemon is the
\* self-healing mirror announced at netlink.go:25-30: no interleaving of neighbor
\* events, leases, releases, sweeps, route events and external flushes damages a
\* mirror without a repair owed, and a reconcile repairs every one of them.
THEOREM Heals ==
    ASSUME SingleHomed
    PROVE  Spec => HealsItself
<1>1. Init => Healing!HealInit
  BY DEF Init, Healing!HealInit
<1>2. HealInv /\ InstalledInv' /\ [Next]_vars => [Healing!HealNext]_(Healing!healVars)
  BY HealStep
<1>3. Init => InstalledInv
  BY InitInstalled
<1>4. TypeOK /\ NothingLeaked /\ InstalledInv /\ [Next]_vars => InstalledInv'
  BY InstalledStep
<1> QED BY <1>1, <1>2, <1>3, <1>4, TypeCorrect, NothingIsLeaked, PTL
    DEF Spec, HealsItself, Healing!HealSpec, HealInv

=============================================================================
