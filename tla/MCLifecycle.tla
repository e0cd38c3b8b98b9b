----------------------------- MODULE MCLifecycle -----------------------------
(***************************************************************************)
(* Lifecycle for TLC: a slave br0 and a master eth0, one host behind br0.  *)
(***************************************************************************)
EXTENDS Lifecycle

Plain(d, master) == [ifname |-> {d}, master |-> {master}, routing |-> {}]

\* The usual file; routing switched off; the slave taken out; a file whose slave
\* entry omits the ifname and master; and one that cannot be read.
Relay == [lan |-> Plain("br0", FALSE), wan |-> Plain("eth0", TRUE)]
NoRouting == [Relay EXCEPT !.lan.routing = {FALSE}]
MasterOnly == [wan |-> Plain("eth0", TRUE)]
Terse == [Relay EXCEPT !.lan.ifname = {}, !.lan.master = {}]

AllFiles == {Relay, NoRouting, MasterOnly, Terse, NoFile}
OneFile == {Relay}

\* Every file of the runs gives a netdev to one key only.
ASSUME FilesDistinct == DistinctNetdevs

BehindLan == [a \in Addrs |-> "br0"]

Netdev(i, s) == [index |-> i, state |-> s]
BothRunning == {[br0 |-> Netdev(1, "running"), eth0 |-> Netdev(2, "running")]}

=============================================================================
