------------------------------ MODULE DHCPSock ------------------------------
(***************************************************************************)
(* The DHCP sockets (internal/relay/dhcpv4.go): dhcpv4Setup closes and     *)
(* opens them on the engine goroutine, while a reader goroutine per socket *)
(* blocks in recvfrom and posts what it reads to the engine.               *)
(*                                                                         *)
(* A reader names its socket by file descriptor.  close() neither wakes it *)
(* nor kills the socket under it, and the number may be given to the next  *)
(* socket: a stale reader can read from a socket that is not its own.      *)
(***************************************************************************)
EXTENDS Integers, Sequences, FiniteSets

CONSTANTS
    Slaves, Masters,  \* the interfaces
    FDs,              \* file descriptor numbers
    MaxSocks,         \* bound: sockets opened in a run
    MaxPackets,       \* bound: packets that arrive
    MaxEvents         \* capacity of the engine's channel

ASSUME SockAssumption ==
    /\ Slaves \cap Masters = {}
    /\ MaxSocks \in Nat /\ MaxPackets \in Nat /\ MaxEvents \in Nat \ {0}

VARIABLES
    socks,    \* every dhcpSock ever opened, by id: its interface, port, fd, done
    dhcp,     \* Interface.dhcp: ids of the sockets an interface has
    fdTable,  \* kernel: the socket behind each open descriptor, 0 if closed
    inbox,    \* kernel: packets waiting in each socket
    reader,   \* dhcpReadLoop of each socket: where it is, and on what
    events,   \* the engine's channel: handleDHCPv4 closures
    packets,  \* every packet that has arrived, by id
    relayed,  \* <<socket, packet>> pairs handed to the relay functions
    stolen    \* <<socket, packet>> pairs read after the socket was closed

vars == <<socks, dhcp, fdTable, inbox, reader, events, packets, relayed, stolen>>

Ifaces == Slaves \cup Masters
Ports == {67, 68}
Id == 1 .. Len(socks)
NoFile == 0

\* A socket lives while a descriptor or a blocked recvfrom refers to it.
Alive(s) == \/ \E fd \in FDs : fdTable[fd] = s
            \/ \E r \in Id : reader[r].pc = "blocked" /\ reader[r].file = s

-----------------------------------------------------------------------------
(* dhcpv4Setup, on the engine goroutine.                                   *)

\* The ports openDHCPSocket may succeed on: a master's port 68 may fail alone.
Outcomes(i, enable) ==
    IF ~enable THEN {<<>>}
    ELSE {<<>>, <<67>>} \cup (IF i \in Masters THEN {<<67, 68>>} ELSE {})

\* The descriptors and the sockets once those of interface i are closed.
TableWithout(i) ==
    [fd \in FDs |-> IF fdTable[fd] \in dhcp[i] THEN NoFile ELSE fdTable[fd]]

ClosedSocks(i) ==
    [s \in Id |-> IF s \in dhcp[i] THEN [socks[s] EXCEPT !.done = TRUE] ELSE socks[s]]

\* openDHCPSocket for each port: socket number Len(socks) + j on descriptor fd[j].
OpenedSocks(i, ports, fd) ==
    [j \in 1 .. Len(ports) |-> [iface |-> i, port |-> ports[j], fd |-> fd[j], done |-> FALSE]]

\* The sockets of i are replaced by one per port, each with a reader.
Reopen(i, ports, fd) ==
    LET fresh == Len(socks) + 1 .. Len(socks) + Len(ports) IN
    /\ Len(socks) + Len(ports) <= MaxSocks
    /\ \A j, k \in 1 .. Len(ports) : fd[j] = fd[k] => j = k
    /\ socks' = ClosedSocks(i) \o OpenedSocks(i, ports, fd)
    /\ dhcp' = [dhcp EXCEPT ![i] = fresh]
    /\ fdTable' = [d \in FDs |-> IF \E j \in 1 .. Len(ports) : fd[j] = d
                                 THEN CHOOSE s \in fresh : fd[s - Len(socks)] = d
                                 ELSE TableWithout(i)[d]]
    /\ inbox' = inbox \o [j \in 1 .. Len(ports) |-> <<>>]
    /\ reader' = reader \o [j \in 1 .. Len(ports) |->
                               [pc |-> "check", file |-> NoFile, pkt |-> 0]]
    /\ UNCHANGED <<events, packets, relayed, stolen>>

dhcpv4Setup(i, enable) ==
    \E ports \in Outcomes(i, enable) :
        \E fd \in [1 .. Len(ports) -> {d \in FDs : TableWithout(i)[d] = NoFile}] :
            Reopen(i, ports, fd)

-----------------------------------------------------------------------------
(* dhcpReadLoop.                                                           *)

Goto(s, pc) == reader' = [reader EXCEPT ![s] = [pc |-> pc, file |-> NoFile, pkt |-> 0]]

\* Mutant: done is only looked at after an error.
UncheckedLoop(s) ==
    /\ reader[s].pc = "check"
    /\ Goto(s, "recv")
    /\ UNCHANGED <<socks, dhcp, fdTable, inbox, events, packets, relayed, stolen>>

\* The select on ds.done at the head of the loop.
ReaderCheck(s) ==
    /\ reader[s].pc = "check"
    /\ Goto(s, IF socks[s].done THEN "exited" ELSE "recv")
    /\ UNCHANGED <<socks, dhcp, fdTable, inbox, events, packets, relayed, stolen>>

\* Recvfrom resolves the descriptor number, to whatever socket has it now.
ReaderEnter(s) ==
    /\ reader[s].pc = "recv"
    /\ fdTable[socks[s].fd] # NoFile
    /\ reader' = [reader EXCEPT ![s] = [pc |-> "blocked", file |-> fdTable[socks[s].fd], pkt |-> 0]]
    /\ UNCHANGED <<socks, dhcp, fdTable, inbox, events, packets, relayed, stolen>>

\* EBADF: return if done, else sleep and try again.
ReaderError(s) ==
    /\ reader[s].pc = "recv"
    /\ fdTable[socks[s].fd] = NoFile
    /\ Goto(s, IF socks[s].done THEN "exited" ELSE "check")
    /\ UNCHANGED <<socks, dhcp, fdTable, inbox, events, packets, relayed, stolen>>

\* EINTR, a transient error or an empty datagram: round the loop again.
ReaderAgain(s) ==
    /\ reader[s].pc = "blocked" /\ inbox[reader[s].file] = <<>>
    /\ Goto(s, "check")
    /\ UNCHANGED <<socks, dhcp, fdTable, inbox, events, packets, relayed, stolen>>

ReaderRecv(s) ==
    LET f == reader[s].file IN
    /\ reader[s].pc = "blocked" /\ inbox[f] # <<>>
    /\ reader' = [reader EXCEPT ![s] = [pc |-> "post", file |-> NoFile, pkt |-> Head(inbox[f])]]
    /\ inbox' = [inbox EXCEPT ![f] = Tail(@)]
    /\ stolen' = stolen \cup {<<t, Head(inbox[f])>> : t \in {s} \cap {u \in Id : socks[u].done}}
    /\ UNCHANGED <<socks, dhcp, fdTable, events, packets, relayed>>

\* Mutant: a packet read while the engine's channel is full is dropped.
DroppingPost(s) ==
    /\ reader[s].pc = "post"
    /\ events' = IF Len(events) < MaxEvents THEN Append(events, <<s, reader[s].pkt>>)
                                           ELSE events
    /\ Goto(s, "check")
    /\ UNCHANGED <<socks, dhcp, fdTable, inbox, packets, relayed, stolen>>

\* Eng.Post blocks while the channel is full.
ReaderPost(s) ==
    /\ reader[s].pc = "post"
    /\ Len(events) < MaxEvents
    /\ events' = Append(events, <<s, reader[s].pkt>>)
    /\ Goto(s, "check")
    /\ UNCHANGED <<socks, dhcp, fdTable, inbox, packets, relayed, stolen>>

-----------------------------------------------------------------------------
(* handleDHCPv4, on the engine goroutine.                                  *)

\* Mutant: the socket is not checked against the interface's.
AnySock(s) == TRUE

ifaceHasDHCPSock(s) == s \in dhcp[socks[s].iface]

\* The checks of the packet itself are left out: the network below only brings
\* what its interface relays (requests on a slave, replies on a master).
handleDHCPv4 ==
    /\ events # <<>>
    /\ LET s == Head(events)[1]
           p == Head(events)[2]
       IN  relayed' = relayed \cup (IF ifaceHasDHCPSock(s) THEN {<<s, p>>} ELSE {})
    /\ events' = Tail(events)
    /\ UNCHANGED <<socks, dhcp, fdTable, inbox, reader, packets, stolen>>

-----------------------------------------------------------------------------
(* The network: a broadcast reaches every live socket bound to the         *)
(* interface and port, a unicast one of them (SO_REUSEPORT).               *)

Arrive(i, port, broadcast) ==
    LET bound == {s \in Id : Alive(s) /\ socks[s].iface = i /\ socks[s].port = port} IN
    /\ Len(packets) < MaxPackets /\ bound # {}
    /\ packets' = Append(packets, [iface |-> i, port |-> port])
    /\ \E to \in IF broadcast THEN {bound} ELSE {{s} : s \in bound} :
          inbox' = [s \in Id |-> IF s \in to THEN Append(inbox[s], Len(packets) + 1)
                                 ELSE inbox[s]]
    /\ UNCHANGED <<socks, dhcp, fdTable, reader, events, relayed, stolen>>

-----------------------------------------------------------------------------
Init ==
    /\ socks = <<>> /\ inbox = <<>> /\ reader = <<>>
    /\ dhcp = [i \in Ifaces |-> {}]
    /\ fdTable = [fd \in FDs |-> NoFile]
    /\ events = <<>> /\ packets = <<>>
    /\ relayed = {} /\ stolen = {}

ReaderStep(s) == \/ ReaderCheck(s) \/ ReaderEnter(s) \/ ReaderError(s)
                 \/ ReaderAgain(s) \/ ReaderRecv(s) \/ ReaderPost(s)

Next ==
    \/ \E i \in Ifaces, enable \in BOOLEAN : dhcpv4Setup(i, enable)
    \/ \E s \in Id : ReaderStep(s)
    \/ handleDHCPv4
    \/ \E i \in Ifaces, port \in Ports, b \in BOOLEAN : Arrive(i, port, b)

\* A goroutine that can run does run; the engine keeps draining its channel.
Fairness ==
    /\ WF_vars(handleDHCPv4)
    /\ \A s \in 1 .. MaxSocks : WF_vars(s \in Id /\ ReaderStep(s))

Spec == Init /\ [][Next]_vars
FairSpec == Spec /\ Fairness

-----------------------------------------------------------------------------
(* Properties.                                                             *)

\* A packet is relayed as coming from the interface and port it arrived on,
\* even when the reader that read it was using a recycled descriptor.
Attributed ==
    \A r \in relayed : /\ socks[r[1]].iface = packets[r[2]].iface
                       /\ socks[r[1]].port = packets[r[2]].port

\* A broadcast that reaches both the socket closed by a reload and its
\* replacement is relayed once.
RelayedOnce == \A r, q \in relayed : r[2] = q[2] => r = q

\* A reader whose socket has been closed reads at most one packet more, from its
\* own socket or from the one that has its descriptor now, and then exits.
StealsAtMostOne == \A s \in Id : Cardinality({r \in stolen : r[1] = s}) <= 1

\* A packet in an interface's socket is relayed, unless a stale reader gets it
\* or the socket is closed meanwhile: it is not lost to a full engine channel.
SocketServed ==
    \A s \in 1 .. MaxSocks, p \in 1 .. MaxPackets :
        (/\ s \in Id /\ s \in dhcp[socks[s].iface]
         /\ \E j \in 1 .. Len(inbox[s]) : inbox[s][j] = p) ~>
            \/ <<s, p>> \in relayed
            \/ \E r \in stolen : r[2] = p
            \/ s \in Id /\ s \notin dhcp[socks[s].iface]

=============================================================================
