---------------------------- MODULE MCNeighMirror ----------------------------
(***************************************************************************)
(* Instances of NeighMirror for TLC: one master (wan, ifindex 9) and one or *)
(* two slaves (lan 1, wifi 2), with the hosts each run needs.              *)
(***************************************************************************)
EXTENDS NeighMirror

Slave(ifname, i, learn) ==
    [ifname |-> ifname, ifindex |-> i, running |-> TRUE, master |-> FALSE,
     learnRoutes |-> learn, dhcpv4 |-> "relay", arp |-> "relay", dhcp |-> TRUE]

Master(ifname, i) == [Slave(ifname, i, TRUE) EXCEPT !.master = TRUE]

OneSlave == [lan |-> Slave("br0", 1, TRUE), wan |-> Master("eth0", 9)]
NoRouting == [OneSlave EXCEPT !.lan.learnRoutes = FALSE]
TwoMasters == [lan |-> Slave("br0", 1, TRUE), wan |-> Master("eth0", 9),
               wan2 |-> Master("eth1", 8)]
TwoSlaves == [lan |-> Slave("br0", 1, TRUE), wifi |-> Slave("wlan0", 2, TRUE),
              wan |-> Master("eth0", 9)]

\* Reload disables the services of a master that has no slave to serve.
NoSlaves == [wan |-> [Master("br0", 1) EXCEPT !.arp = "disabled", !.dhcpv4 = "disabled",
                                              !.dhcp = FALSE]]

OneSlaveOnly == {OneSlave}
NoRoutingOnly == {NoRouting}
TwoSlavesOnly == {TwoSlaves}
Deployments == {OneSlave, NoRouting, TwoMasters, NoSlaves}

\* A client behind lan, and one that moves between lan and wifi.
ClientOnLan == {<<"client", 1>>}
ClientRoams == {<<"client", 1>>, <<"client", 2>>}

=============================================================================
