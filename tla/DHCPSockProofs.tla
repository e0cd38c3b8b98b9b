---------------------------- MODULE DHCPSockProofs ----------------------------
(***************************************************************************)
(* Proofs about DHCPSock, for any interfaces, descriptors and bounds: a    *)
(* packet read through a recycled descriptor is never relayed under the    *)
(* wrong name, never twice, and a stale reader takes at most one packet.   *)
(***************************************************************************)
EXTENDS DHCPSock, FiniteSetTheorems, TLAPS

Sock == [iface : Ifaces, port : Ports, fd : FDs, done : BOOLEAN]
Packet == [iface : Ifaces, port : Ports]
Reader == [pc : {"check", "recv", "blocked", "post", "exited"}, file : Nat, pkt : Nat]
PacketId == 1 .. Len(packets)

-----------------------------------------------------------------------------
(* The inductive invariant.                                                *)

SockType ==
    /\ socks \in Seq(Sock) /\ packets \in Seq(Packet) /\ reader \in Seq(Reader)
    /\ inbox \in Seq(Seq(PacketId))
    /\ Len(inbox) = Len(socks) /\ Len(reader) = Len(socks)
    /\ dhcp \in [Ifaces -> SUBSET Id]
    /\ fdTable \in [FDs -> 0 .. Len(socks)]
    /\ \A s \in Id : /\ reader[s].pc = "blocked" => reader[s].file \in Id
                     /\ reader[s].pc = "post" => reader[s].pkt \in PacketId
    /\ events \in Seq(Id \X PacketId)
    /\ relayed \subseteq Id \X PacketId /\ stolen \subseteq Id \X PacketId

Live(s) == ~socks[s].done

\* dhcp and done say the same; a live socket has its descriptor to itself and
\* is alone on its interface and port.
SocketsOwned ==
    /\ \A i \in Ifaces : \A s \in dhcp[i] : socks[s].iface = i /\ Live(s)
    /\ \A s \in Id : Live(s) => s \in dhcp[socks[s].iface] /\ fdTable[socks[s].fd] = s
    /\ \A s, t \in Id : /\ Live(s) /\ Live(t)
                        /\ socks[s].iface = socks[t].iface /\ socks[s].port = socks[t].port
                        => s = t

\* Only the reader of a closed socket can be reading from another one.
OwnFile == \A s \in Id : Live(s) /\ reader[s].pc = "blocked" => reader[s].file = s

Match(s, p) == /\ socks[s].iface = packets[p].iface
               /\ socks[s].port = packets[p].port

\* What a live socket's reader has read came in by that socket.
Matched ==
    /\ \A s \in Id : \A j \in 1 .. Len(inbox[s]) : Match(s, inbox[s][j])
    /\ \A s \in Id : Live(s) /\ reader[s].pc = "post" => Match(s, reader[s].pkt)
    /\ \A j \in 1 .. Len(events) : Live(events[j][1]) => Match(events[j][1], events[j][2])
    /\ Attributed

\* The packet is on its way through socket s.
Holds(s, p) ==
    \/ \E j \in 1 .. Len(inbox[s]) : inbox[s][j] = p
    \/ reader[s].pc = "post" /\ reader[s].pkt = p
    \/ \E j \in 1 .. Len(events) : events[j] = <<s, p>>

\* The packet has been relayed for s, or may still be.
Claims(s, p) == <<s, p>> \in relayed \/ (Live(s) /\ Holds(s, p))

OneClaim == \A p \in PacketId : \A s, t \in Id : Claims(s, p) /\ Claims(t, p) => s = t

\* A reader that has stolen a packet is past its last recvfrom.
Spent ==
    /\ \A r \in stolen : /\ ~Live(r[1])
                         /\ reader[r[1]].pc \in {"post", "check", "exited"}
    /\ \A r, q \in stolen : r[1] = q[1] => r = q

SockInv == SockType /\ SocketsOwned /\ OwnFile /\ Matched /\ OneClaim /\ Spent

-----------------------------------------------------------------------------
(* dhcpReadLoop.                                                           *)

\* What the elements of the sequences are.
LEMMA Elements ==
    ASSUME SockType
    PROVE  /\ Len(socks) \in Nat /\ Len(packets) \in Nat
           /\ \A s \in Id : /\ socks[s] \in Sock /\ reader[s] \in Reader
                            /\ inbox[s] \in Seq(PacketId)
           /\ DOMAIN socks = Id /\ DOMAIN reader = Id /\ DOMAIN inbox = Id
BY DEF SockType, Id

\* A reader that moves on without a packet, and enters recvfrom only while its
\* socket is live, changes nothing else.
LEMMA MoveKeeps ==
    ASSUME SockInv, NEW s \in Id, NEW pc \in {"check", "recv", "exited"}, Goto(s, pc),
           pc = "recv" => Live(s),
           UNCHANGED <<socks, dhcp, fdTable, inbox, events, packets, relayed, stolen>>
    PROVE  SockInv'
<1>1. /\ SockType /\ reader \in Seq(Reader) /\ Len(reader) = Len(socks)
      /\ reader[s] \in Reader /\ Len(socks) \in Nat
  BY Elements DEF SockInv, SockType
<1>2. /\ reader' \in Seq(Reader) /\ Len(reader') = Len(reader)
      /\ reader'[s].pc = pc
      /\ \A t \in Id : t # s => reader'[t] = reader[t]
  BY <1>1 DEF Goto, Reader, NoFile, Id
<1>3. SockType'
  BY <1>1, <1>2 DEF SockType, Id, PacketId
<1>4. SocketsOwned'
  BY DEF SockInv, SocketsOwned, Live, Id
<1>5. OwnFile'
  BY <1>2 DEF SockInv, OwnFile, Live, Id
<1>6. Matched'
  BY <1>2 DEF SockInv, Matched, Live, Match, Attributed, Id
<1>7. OneClaim'
  <2>1. \A t \in Id, p \in PacketId : Claims(t, p)' => Claims(t, p)
    BY <1>2 DEF Claims, Holds, Live
  <2> QED BY <2>1 DEF SockInv, OneClaim, Id, PacketId
<1>8. Spent'
  BY <1>1, <1>2 DEF SockInv, Spent, Live, SockType
<1> QED BY <1>3, <1>4, <1>5, <1>6, <1>7, <1>8 DEF SockInv

\* Entering recvfrom: a live socket's descriptor leads to that socket.
LEMMA EnterKeeps ==
    ASSUME SockInv, NEW s \in Id, ReaderEnter(s)
    PROVE  SockInv'
<1> DEFINE f == fdTable[socks[s].fd]
<1>1. /\ SockType /\ reader \in Seq(Reader) /\ Len(reader) = Len(socks)
      /\ reader[s] \in Reader /\ socks[s] \in Sock /\ Len(socks) \in Nat
  BY Elements DEF SockInv, SockType
<1>2. f \in Id /\ (Live(s) => f = s) /\ reader[s].pc = "recv"
  BY <1>1 DEF SockInv, SockType, SocketsOwned, ReaderEnter, NoFile, Id, Sock
<1> HIDE DEF f
<1>3. /\ reader' \in Seq(Reader) /\ Len(reader') = Len(reader)
      /\ reader'[s].pc = "blocked" /\ reader'[s].file = f
      /\ \A t \in Id : t # s => reader'[t] = reader[t]
      /\ UNCHANGED <<socks, dhcp, fdTable, inbox, events, packets, relayed, stolen>>
  BY <1>1, <1>2 DEF ReaderEnter, Reader, Id, f
<1>4. SockType'
  BY <1>1, <1>2, <1>3 DEF SockType, Id, PacketId
<1>5. SocketsOwned'
  BY <1>3 DEF SockInv, SocketsOwned, Live, Id
<1>6. OwnFile'
  <2>1. ASSUME NEW t \in Id, Live(t), reader'[t].pc = "blocked" PROVE reader'[t].file = t
    <3>1. CASE t = s
      BY <1>2, <1>3, <2>1, <3>1
    <3>2. CASE t # s
      BY <1>3, <2>1, <3>2 DEF SockInv, OwnFile
    <3> QED BY <3>1, <3>2
  <2> QED BY <1>3, <2>1 DEF OwnFile, Live, Id
<1>7. Matched'
  BY <1>3 DEF SockInv, Matched, Live, Match, Attributed, Id
<1>8. OneClaim'
  <2>1. \A t \in Id, p \in PacketId : Claims(t, p)' => Claims(t, p)
    BY <1>3 DEF Claims, Holds, Live
  <2> QED BY <1>3, <2>1 DEF SockInv, OneClaim, Id, PacketId
<1>9. Spent'
  BY <1>1, <1>2, <1>3 DEF SockInv, Spent, Live, SockType
<1> QED BY <1>4, <1>5, <1>6, <1>7, <1>8, <1>9 DEF SockInv

\* Reading a packet: a live reader takes it from its own socket, a stale one
\* takes it out of circulation and is spent.
LEMMA RecvKeeps ==
    ASSUME SockInv, NEW s \in Id, ReaderRecv(s)
    PROVE  SockInv'
<1> DEFINE f == reader[s].file
           p == Head(inbox[f])
<1>1. /\ SockType /\ reader \in Seq(Reader) /\ Len(reader) = Len(socks) /\ Len(inbox) = Len(socks)
      /\ reader[s] \in Reader /\ Len(socks) \in Nat /\ Len(packets) \in Nat
      /\ \A t \in Id : inbox[t] \in Seq(PacketId)
  BY Elements DEF SockInv, SockType
<1>2. /\ f \in Id /\ (Live(s) => f = s) /\ reader[s].pc = "blocked"
      /\ inbox[f] # <<>>
  BY <1>1 DEF SockInv, SockType, OwnFile, ReaderRecv
<1>3. p \in PacketId /\ p \in Nat /\ p = inbox[f][1] /\ 1 \in 1 .. Len(inbox[f])
  BY <1>1, <1>2 DEF PacketId
<1>4. /\ Tail(inbox[f]) \in Seq(PacketId) /\ Len(Tail(inbox[f])) = Len(inbox[f]) - 1
      /\ \A j \in 1 .. Len(Tail(inbox[f])) :
            j + 1 \in 1 .. Len(inbox[f]) /\ Tail(inbox[f])[j] = inbox[f][j + 1]
  BY <1>1, <1>2
<1> HIDE DEF f, p
<1>5. /\ reader' \in Seq(Reader) /\ Len(reader') = Len(reader)
      /\ reader'[s].pc = "post" /\ reader'[s].pkt = p
      /\ \A t \in Id : t # s => reader'[t] = reader[t]
  BY <1>1, <1>3 DEF ReaderRecv, Reader, NoFile, Id, f, p
<1>6. /\ inbox' \in Seq(Seq(PacketId)) /\ Len(inbox') = Len(inbox)
      /\ inbox'[f] = Tail(inbox[f])
      /\ \A t \in Id : t # f => inbox'[t] = inbox[t]
  BY <1>1, <1>2, <1>4 DEF ReaderRecv, SockType, Id, f
<1>7. /\ UNCHANGED <<socks, dhcp, fdTable, events, packets, relayed>>
      /\ stolen' = IF Live(s) THEN stolen ELSE stolen \cup {<<s, p>>}
  BY DEF ReaderRecv, Live, f, p
<1>8. \A t \in Id : \A j \in 1 .. Len(inbox'[t]) :
         \E l \in 1 .. Len(inbox[t]) : inbox'[t][j] = inbox[t][l]
  BY <1>4, <1>6
<1>9. SockType'
  <2>1. stolen' \subseteq Id \X PacketId
    BY <1>1, <1>3, <1>7 DEF SockType
  <2>2. \A t \in Id : /\ reader'[t].pc = "blocked" => reader'[t].file \in Id
                      /\ reader'[t].pc = "post" => reader'[t].pkt \in PacketId
    BY <1>1, <1>3, <1>5 DEF SockType
  <2> QED BY <1>1, <1>5, <1>6, <1>7, <2>1, <2>2 DEF SockType, Id, PacketId
<1>10. SocketsOwned'
  BY <1>7 DEF SockInv, SocketsOwned, Live, Id
<1>11. OwnFile'
  BY <1>5, <1>7 DEF SockInv, OwnFile, Live, Id
<1>12. Matched'
  <2>1. \A t \in Id : \A j \in 1 .. Len(inbox'[t]) : Match(t, inbox'[t][j])
    BY <1>8 DEF SockInv, Matched
  <2>2. \A t \in Id : Live(t) /\ reader'[t].pc = "post" => Match(t, reader'[t].pkt)
    BY <1>2, <1>3, <1>5 DEF SockInv, Matched
  <2> QED BY <1>7, <2>1, <2>2 DEF SockInv, Matched, Live, Match, Attributed, Id
<1>13. OneClaim'
  <2>1. ASSUME NEW t \in Id, NEW q \in PacketId, Claims(t, q)' PROVE Claims(t, q)
    <3>1. CASE t = s /\ Live(s) /\ q = p
      BY <1>2, <1>3, <3>1 DEF Claims, Holds
    <3>2. CASE ~(t = s /\ Live(s) /\ q = p)
      <4>1. CASE <<t, q>> \in relayed
        BY <4>1 DEF Claims
      <4>2. CASE <<t, q>> \notin relayed
        <5>1. Live(t) /\ Holds(t, q)'
          BY <1>7, <2>1, <4>2 DEF Claims, Live
        <5>2. Holds(t, q)
          <6>1. CASE \E j \in 1 .. Len(inbox'[t]) : inbox'[t][j] = q
            BY <1>8, <6>1 DEF Holds
          <6>2. CASE reader'[t].pc = "post" /\ reader'[t].pkt = q
            BY <1>5, <3>2, <5>1, <6>2 DEF Holds
          <6>3. CASE \E j \in 1 .. Len(events) : events[j] = <<t, q>>
            BY <6>3 DEF Holds
          <6> QED BY <1>7, <5>1, <6>1, <6>2, <6>3 DEF Holds
        <5> QED BY <5>1, <5>2 DEF Claims
      <4> QED BY <4>1, <4>2
    <3> QED BY <3>1, <3>2
  <2> QED BY <1>7, <2>1 DEF SockInv, OneClaim, Id, PacketId
<1>14. Spent'
  <2>1. \A r \in stolen : r[1] # s /\ r[1] \in Id
    BY <1>1, <1>2 DEF SockInv, Spent, SockType
  <2>2. \A r \in stolen' : ~Live(r[1])' /\ reader'[r[1]].pc \in {"post", "check", "exited"}
    BY <1>5, <1>7, <2>1 DEF SockInv, Spent, Live
  <2>3. \A r, q \in stolen' : r[1] = q[1] => r = q
    BY <1>7, <2>1 DEF SockInv, Spent
  <2> QED BY <2>2, <2>3 DEF Spent
<1> QED BY <1>9, <1>10, <1>11, <1>12, <1>13, <1>14 DEF SockInv

\* Posting hands the packet from the reader to the engine's channel.
LEMMA PostKeeps ==
    ASSUME SockInv, NEW s \in Id, ReaderPost(s)
    PROVE  SockInv'
<1> DEFINE p == reader[s].pkt
<1>1. /\ SockType /\ reader \in Seq(Reader) /\ Len(reader) = Len(socks)
      /\ reader[s] \in Reader /\ Len(socks) \in Nat /\ events \in Seq(Id \X PacketId)
  BY Elements DEF SockInv, SockType
<1>2. reader[s].pc = "post" /\ p \in PacketId
  BY <1>1 DEF SockType, ReaderPost
<1> HIDE DEF p
<1>3. /\ reader' \in Seq(Reader) /\ Len(reader') = Len(reader)
      /\ reader'[s].pc = "check"
      /\ \A t \in Id : t # s => reader'[t] = reader[t]
  BY <1>1 DEF ReaderPost, Goto, Reader, NoFile, Id
<1>4. events' = Append(events, <<s, p>>)
  BY DEF ReaderPost, p
<1>5. /\ events' \in Seq(Id \X PacketId)
      /\ \A j \in 1 .. Len(events') : \/ j \in 1 .. Len(events) /\ events'[j] = events[j]
                                      \/ events'[j] = <<s, p>>
  BY <1>1, <1>2, <1>4
<1>6. UNCHANGED <<socks, dhcp, fdTable, inbox, packets, relayed, stolen>>
  BY DEF ReaderPost
<1>7. SockType'
  BY <1>1, <1>3, <1>5, <1>6 DEF SockType, Id, PacketId
<1>8. SocketsOwned'
  BY <1>6 DEF SockInv, SocketsOwned, Live, Id
<1>9. OwnFile'
  BY <1>3, <1>6 DEF SockInv, OwnFile, Live, Id
<1>10. Matched'
  <2>1. Live(s) => Match(s, p)
    BY <1>2 DEF SockInv, Matched, p
  <2>2. ASSUME NEW j \in 1 .. Len(events'), Live(events'[j][1])
        PROVE  Match(events'[j][1], events'[j][2])
    <3>1. CASE j \in 1 .. Len(events) /\ events'[j] = events[j]
      BY <2>2, <3>1 DEF SockInv, Matched
    <3>2. CASE events'[j] = <<s, p>>
      BY <2>1, <2>2, <3>2
    <3> QED BY <1>5, <3>1, <3>2
  <2> QED BY <1>3, <1>6, <2>2 DEF SockInv, Matched, Live, Match, Attributed, Id
<1>11. OneClaim'
  <2>1. ASSUME NEW t \in Id, NEW q \in PacketId, Claims(t, q)' PROVE Claims(t, q)
    <3>1. CASE t = s /\ q = p
      BY <1>2, <1>6, <2>1, <3>1 DEF Claims, Holds, Live, p
    <3>2. CASE ~(t = s /\ q = p)
      <4>1. \A j \in 1 .. Len(events') :
               events'[j] = <<t, q>> => j \in 1 .. Len(events) /\ events[j] = <<t, q>>
        BY <1>5, <3>2
      <4>2. reader'[t].pc = "post" => reader'[t] = reader[t]
        BY <1>3
      <4> QED BY <1>6, <2>1, <4>1, <4>2 DEF Claims, Holds, Live
    <3> QED BY <3>1, <3>2
  <2> QED BY <1>6, <2>1 DEF SockInv, OneClaim, Id, PacketId
<1>12. Spent'
  BY <1>1, <1>3, <1>6 DEF SockInv, Spent, Live, SockType
<1> QED BY <1>7, <1>8, <1>9, <1>10, <1>11, <1>12 DEF SockInv

-----------------------------------------------------------------------------
(* The engine and the network.                                             *)

\* handleDHCPv4 relays only for a socket its interface still has.
LEMMA HandleKeeps ==
    ASSUME SockInv, handleDHCPv4
    PROVE  SockInv'
<1> DEFINE s == Head(events)[1]
           p == Head(events)[2]
<1>1. /\ SockType /\ Len(socks) \in Nat /\ events \in Seq(Id \X PacketId) /\ events # <<>>
      /\ \A t \in Id : socks[t] \in Sock
  BY Elements DEF SockInv, SockType, handleDHCPv4
<1>2. /\ events[1] = <<s, p>> /\ s \in Id /\ p \in PacketId /\ 1 \in 1 .. Len(events)
      /\ events[1][1] = s /\ events[1][2] = p
  BY <1>1
<1>3. /\ events' \in Seq(Id \X PacketId)
      /\ \A j \in 1 .. Len(events') : j + 1 \in 1 .. Len(events) /\ events'[j] = events[j + 1]
  BY <1>1 DEF handleDHCPv4
<1>4. relayed' \in {relayed, relayed \cup {<<s, p>>}}
      /\ (relayed' # relayed => s \in dhcp[socks[s].iface])
  BY DEF handleDHCPv4, ifaceHasDHCPSock
<1> HIDE DEF s, p
<1>5. relayed' # relayed => Live(s)
  BY <1>1, <1>2, <1>4 DEF SockInv, SocketsOwned, Sock
<1>6. UNCHANGED <<socks, dhcp, fdTable, inbox, reader, packets, stolen>>
  BY DEF handleDHCPv4
<1>7. SockType'
  BY <1>1, <1>2, <1>3, <1>4, <1>6 DEF SockType, Id, PacketId
<1>8. SocketsOwned'
  BY <1>6 DEF SockInv, SocketsOwned, Live, Id
<1>9. OwnFile'
  BY <1>6 DEF SockInv, OwnFile, Live, Id
<1>10. Matched'
  <2>1. \A j \in 1 .. Len(events') : Live(events'[j][1]) => Match(events'[j][1], events'[j][2])
    BY <1>3 DEF SockInv, Matched
  <2>2. relayed' # relayed => Match(s, p)
    BY <1>2, <1>5 DEF SockInv, Matched
  <2>3. \A r \in relayed : Match(r[1], r[2])
    BY DEF SockInv, Matched, Attributed, Match
  <2>4. \A r \in relayed' : Match(r[1], r[2])
    BY <1>4, <2>2, <2>3
  <2> QED BY <1>6, <2>1, <2>4 DEF SockInv, Matched, Live, Match, Attributed, Id
<1>11. OneClaim'
  <2>1. ASSUME NEW t \in Id, NEW q \in PacketId, Claims(t, q)' PROVE Claims(t, q)
    BY <1>2, <1>3, <1>4, <1>5, <1>6, <2>1 DEF Claims, Holds, Live
  <2> QED BY <1>6, <2>1 DEF SockInv, OneClaim, Id, PacketId
<1>12. Spent'
  BY <1>6 DEF SockInv, Spent, Live
<1> QED BY <1>7, <1>8, <1>9, <1>10, <1>11, <1>12 DEF SockInv

\* Of the sockets a packet reaches, at most one is live.
LEMMA ArriveKeeps ==
    ASSUME SockInv, NEW i \in Ifaces, NEW port \in Ports, NEW b \in BOOLEAN, Arrive(i, port, b)
    PROVE  SockInv'
<1> DEFINE bound == {s \in Id : Alive(s) /\ socks[s].iface = i /\ socks[s].port = port}
<1>0. PICK n \in Nat : n = Len(packets) + 1
  BY Elements DEF SockInv
<1>1. /\ SockType /\ Len(socks) \in Nat /\ Len(packets) \in Nat
      /\ \A s \in Id : socks[s] \in Sock /\ inbox[s] \in Seq(PacketId)
  BY Elements DEF SockInv
<1>2. /\ packets' \in Seq(Packet) /\ Len(packets') = n
      /\ packets'[n].iface = i /\ packets'[n].port = port
      /\ \A p \in PacketId : packets'[p] = packets[p]
  BY <1>1, <1>0 DEF Arrive, SockType, Packet, PacketId
<1>3. PICK to \in SUBSET bound :
         inbox' = [s \in Id |-> IF s \in to THEN Append(inbox[s], n) ELSE inbox[s]]
  BY <1>0 DEF Arrive
<1>4. \A s \in to : s \in Id /\ socks[s].iface = i /\ socks[s].port = port
  BY <1>3
<1>5. UNCHANGED <<socks, dhcp, fdTable, reader, events, relayed, stolen>>
  BY DEF Arrive
<1>6. PacketId \subseteq PacketId' /\ n \in PacketId' /\ n \notin PacketId
      /\ \A p \in PacketId' : p \in PacketId \/ p = n
  BY <1>1, <1>2, <1>0 DEF PacketId
<1> HIDE DEF bound
<1>7. ASSUME NEW s \in Id
      PROVE  /\ inbox'[s] \in Seq(PacketId')
             /\ \A j \in 1 .. Len(inbox'[s]) :
                   \/ j \in 1 .. Len(inbox[s]) /\ inbox'[s][j] = inbox[s][j]
                   \/ inbox'[s][j] = n /\ s \in to
  <2>1. inbox[s] \in Seq(PacketId) /\ inbox[s] \in Seq(PacketId')
    <3>1. inbox[s] \in Seq(PacketId)
      BY <1>1
    <3>2. \A j \in 1 .. Len(inbox[s]) : inbox[s][j] \in PacketId
      BY <3>1
    <3>3. PacketId \subseteq PacketId'
      BY <1>6
    <3> QED BY <3>1, <3>2, <3>3
  <2> HIDE DEF PacketId
  <2>2. CASE s \in to
    BY <1>3, <1>6, <2>1, <2>2
  <2>3. CASE s \notin to
    BY <1>3, <2>1, <2>3
  <2> QED BY <2>2, <2>3
<1>8. inbox' \in Seq(Seq(PacketId')) /\ Len(inbox') = Len(socks)
  BY <1>1, <1>3, <1>7 DEF Id
<1>9. SockType'
  <2>1. /\ events \in Seq(Id \X PacketId') /\ relayed \subseteq Id \X PacketId'
        /\ stolen \subseteq Id \X PacketId'
    <3>1. Id \X PacketId \subseteq Id \X PacketId'
      BY <1>6
    <3>2. events \in Seq(Id \X PacketId) /\ relayed \subseteq Id \X PacketId
          /\ stolen \subseteq Id \X PacketId
      BY <1>1 DEF SockType
    <3> QED BY <3>1, <3>2
  <2> QED BY <1>1, <1>2, <1>5, <1>6, <1>8, <2>1 DEF SockType, Id
<1>10. SocketsOwned'
  BY <1>5 DEF SockInv, SocketsOwned, Live, Id
<1>11. OwnFile'
  BY <1>5 DEF SockInv, OwnFile, Live, Id
<1>12. Matched'
  <2> DEFINE After(s, p) == /\ socks'[s].iface = packets'[p].iface
                            /\ socks'[s].port = packets'[p].port
  <2>1. \A s : \A p \in PacketId : Match(s, p) => After(s, p)
    BY <1>2, <1>5 DEF Match
  <2>2. \A s \in Id : \A j \in 1 .. Len(inbox'[s]) : After(s, inbox'[s][j])
    <3>1. \A s \in to : After(s, n)
      BY <1>2, <1>4, <1>5
    <3>2. \A s \in Id : \A j \in 1 .. Len(inbox[s]) : inbox[s][j] \in PacketId /\ Match(s, inbox[s][j])
      BY <1>1 DEF SockInv, Matched
    <3> HIDE DEF After
    <3> QED BY <1>7, <2>1, <3>1, <3>2
  <2>3. \A s \in Id : Live(s) /\ reader[s].pc = "post" => After(s, reader[s].pkt)
    <3> HIDE DEF After
    <3> QED BY <1>1, <2>1 DEF SockInv, Matched, SockType
  <2>4. \A j \in 1 .. Len(events) : Live(events[j][1]) => After(events[j][1], events[j][2])
    <3>1. \A j \in 1 .. Len(events) : events[j][2] \in PacketId
      BY <1>1 DEF SockType
    <3> HIDE DEF After
    <3> QED BY <2>1, <3>1 DEF SockInv, Matched
  <2>5. \A r \in relayed : After(r[1], r[2])
    <3>1. \A r \in relayed : Match(r[1], r[2]) /\ r[2] \in PacketId
      BY <1>1 DEF SockInv, Matched, Attributed, Match, SockType
    <3> HIDE DEF After
    <3> QED BY <2>1, <3>1
  <2>6. Attributed'
    BY <1>5, <2>5 DEF Attributed
  <2> QED BY <1>5, <2>2, <2>3, <2>4, <2>6 DEF Matched, Live, Match, Id
<1>13. OneClaim'
  <2>1. ASSUME NEW s \in Id, NEW p \in PacketId, Claims(s, p)' PROVE Claims(s, p)
    <3>1. p # n
      BY <1>6
    <3> QED BY <1>5, <1>7, <2>1, <3>1 DEF Claims, Holds, Live
  <2>2. ASSUME NEW s \in Id, Claims(s, n)' PROVE s \in to /\ Live(s)
    <3>1. <<s, n>> \notin relayed
      BY <1>1, <1>6 DEF SockType
    <3>2. \A j \in 1 .. Len(events) : events[j] # <<s, n>>
      BY <1>1, <1>6 DEF SockType
    <3>3. ~(reader[s].pc = "post" /\ reader[s].pkt = n)
      BY <1>1, <1>6 DEF SockType
    <3>4. \A j \in 1 .. Len(inbox[s]) : inbox[s][j] # n
      BY <1>1, <1>6
    <3> QED BY <1>5, <1>7, <2>2, <3>1, <3>2, <3>3, <3>4 DEF Claims, Holds, Live
  <2>3. \A s, t \in Id : Claims(s, n)' /\ Claims(t, n)' => s = t
    BY <1>4, <2>2 DEF SockInv, SocketsOwned
  <2>4. Id' = Id
    BY <1>5 DEF Id
  <2> QED BY <1>6, <2>1, <2>3, <2>4 DEF SockInv, OneClaim
<1>14. Spent'
  BY <1>5 DEF SockInv, Spent, Live
<1> QED BY <1>9, <1>10, <1>11, <1>12, <1>13, <1>14 DEF SockInv

-----------------------------------------------------------------------------
(* dhcpv4Setup.                                                            *)

\* What extending a sequence by another gives.
LEMMA Concatenated ==
    ASSUME NEW S, NEW u \in Seq(S), NEW v \in Seq(S)
    PROVE  /\ u \o v \in Seq(S) /\ Len(u \o v) = Len(u) + Len(v)
           /\ \A j \in 1 .. Len(u) : (u \o v)[j] = u[j]
           /\ \A j \in Len(u) + 1 .. Len(u) + Len(v) : (u \o v)[j] = v[j - Len(u)]
OBVIOUS

\* The sockets of i are closed, and n + 1 .. n + m are new.
SetupEffect(i, n, m, port, fd) ==
    /\ socks' \in Seq(Sock) /\ Len(socks') = n + m
    /\ inbox' \in Seq(Seq(PacketId)) /\ Len(inbox') = n + m
    /\ reader' \in Seq(Reader) /\ Len(reader') = n + m
    /\ \A s \in 1 .. n :
          /\ socks'[s].iface = socks[s].iface /\ socks'[s].port = socks[s].port
          /\ socks'[s].fd = socks[s].fd
          /\ ~socks'[s].done <=> Live(s) /\ s \notin dhcp[i]
          /\ inbox'[s] = inbox[s] /\ reader'[s] = reader[s]
    /\ \A s \in n + 1 .. n + m :
          /\ socks'[s].iface = i /\ socks'[s].port = port[s - n] /\ socks'[s].fd = fd[s - n]
          /\ ~socks'[s].done
          /\ inbox'[s] = <<>> /\ reader'[s].pc = "check"
    /\ dhcp' = [dhcp EXCEPT ![i] = n + 1 .. n + m]
    /\ fdTable' \in [FDs -> 0 .. n + m]
    /\ \A s \in n + 1 .. n + m : fdTable'[fd[s - n]] = s
    /\ \A s \in (1 .. n) \ dhcp[i] : \A d \in FDs : fdTable[d] = s => fdTable'[d] = s
    /\ UNCHANGED <<events, packets, relayed, stolen>>

\* Closing the sockets of i changes nothing else about them.
LEMMA ClosedType ==
    ASSUME SockType, NEW i \in Ifaces, NEW n \in Nat, n = Len(socks)
    PROVE  /\ ClosedSocks(i) \in Seq(Sock) /\ Len(ClosedSocks(i)) = n
           /\ \A s \in 1 .. n :
                 /\ ClosedSocks(i)[s].iface = socks[s].iface
                 /\ ClosedSocks(i)[s].port = socks[s].port
                 /\ ClosedSocks(i)[s].fd = socks[s].fd
                 /\ ~ClosedSocks(i)[s].done <=> Live(s) /\ s \notin dhcp[i]
<1>1. \A s \in 1 .. n : socks[s] \in Sock
  BY Elements DEF Id
<1>2. /\ ClosedSocks(i) = [s \in 1 .. n |-> ClosedSocks(i)[s]]
      /\ \A s \in 1 .. n :
            ClosedSocks(i)[s] = IF s \in dhcp[i] THEN [socks[s] EXCEPT !.done = TRUE] ELSE socks[s]
  BY DEF ClosedSocks, Id
<1>3. ASSUME NEW s \in 1 .. n PROVE ClosedSocks(i)[s] \in Sock
  <2>1. socks[s] \in Sock /\ [socks[s] EXCEPT !.done = TRUE] \in Sock
    BY <1>1 DEF Sock
  <2> QED BY <1>2, <2>1
<1>4. ClosedSocks(i) \in Seq(Sock) /\ Len(ClosedSocks(i)) = n
  BY <1>2, <1>3
<1> QED BY <1>1, <1>2, <1>4 DEF Sock, Live

\* Each new socket gets its own descriptor, one that was free.
LEMMA ReopenTable ==
    ASSUME SockType, NEW i \in Ifaces, NEW n \in Nat, n = Len(socks),
           NEW ports, NEW m \in Nat, m = Len(ports),
           NEW fd \in [1 .. m -> {d \in FDs : TableWithout(i)[d] = NoFile}],
           Reopen(i, ports, fd)
    PROVE  /\ fdTable' \in [FDs -> 0 .. n + m]
           /\ \A s \in n + 1 .. n + m : fdTable'[fd[s - n]] = s
           /\ \A s \in (1 .. n) \ dhcp[i] : \A d \in FDs : fdTable[d] = s => fdTable'[d] = s
<1>1. /\ fdTable' = [d \in FDs |-> IF \E j \in 1 .. m : fd[j] = d
                                   THEN CHOOSE s \in n + 1 .. n + m : fd[s - n] = d
                                   ELSE TableWithout(i)[d]]
      /\ \A j, k \in 1 .. m : fd[j] = fd[k] => j = k
  BY DEF Reopen
<1>2. \A s \in n + 1 .. n + m : fdTable'[fd[s - n]] = s
  <2> SUFFICES ASSUME NEW s \in n + 1 .. n + m PROVE fdTable'[fd[s - n]] = s
    OBVIOUS
  <2>1. s - n \in 1 .. m /\ fd[s - n] \in FDs
    OBVIOUS
  <2>2. fdTable'[fd[s - n]] = CHOOSE t \in n + 1 .. n + m : fd[t - n] = fd[s - n]
    BY <1>1, <2>1
  <2>3. \A t \in n + 1 .. n + m : fd[t - n] = fd[s - n] => t = s
    <3> SUFFICES ASSUME NEW t \in n + 1 .. n + m, fd[t - n] = fd[s - n] PROVE t = s
      OBVIOUS
    <3>1. t - n \in 1 .. m
      OBVIOUS
    <3>2. t - n = s - n
      BY <1>1, <2>1, <3>1
    <3> QED BY <3>2
  <2> QED BY <2>2, <2>3
<1>3. fdTable' \in [FDs -> 0 .. n + m]
  <2>1. \A d \in FDs : TableWithout(i)[d] \in 0 .. n + m
    BY DEF SockType, NoFile, TableWithout
  <2>2. ASSUME NEW j \in 1 .. m, NEW d \in FDs, fd[j] = d
        PROVE  (CHOOSE s \in n + 1 .. n + m : fd[s - n] = d) \in 0 .. n + m
    <3>1. n + j \in n + 1 .. n + m /\ (n + j) - n = j
      OBVIOUS
    <3>2. \E s \in n + 1 .. n + m : fd[s - n] = d
      BY <2>2, <3>1
    <3>3. (CHOOSE s \in n + 1 .. n + m : fd[s - n] = d) \in n + 1 .. n + m
      BY <3>2
    <3> QED BY <3>3
  <2> QED BY <1>1, <2>1, <2>2
<1>4. \A s \in (1 .. n) \ dhcp[i] : \A d \in FDs : fdTable[d] = s => fdTable'[d] = s
  <2> SUFFICES ASSUME NEW s \in (1 .. n) \ dhcp[i], NEW d \in FDs, fdTable[d] = s
               PROVE  fdTable'[d] = s
    OBVIOUS
  <2>1. TableWithout(i)[d] = s /\ s # NoFile
    BY DEF NoFile, TableWithout
  <2>2. \A j \in 1 .. m : fd[j] # d
    BY <2>1
  <2> QED BY <1>1, <2>1, <2>2
<1> QED BY <1>2, <1>3, <1>4

\* dhcpv4Setup has that effect, with at most one new socket per port.
LEMMA SetupActs ==
    ASSUME SockType, NEW i \in Ifaces, NEW enable \in BOOLEAN, dhcpv4Setup(i, enable),
           NEW n \in Nat, n = Len(socks)
    PROVE  \E m \in Nat, ports \in Seq(Ports) : \E fd :
               /\ SetupEffect(i, n, m, ports, fd)
               /\ \A j, k \in 1 .. m : ports[j] = ports[k] => j = k
<1> DEFINE empty(m) == [j \in 1 .. m |-> <<>>]
           start(m) == [j \in 1 .. m |-> [pc |-> "check", file |-> NoFile, pkt |-> 0]]
<1>1. PICK ports \in Outcomes(i, enable) :
        \E fd \in [1 .. Len(ports) -> {d \in FDs : TableWithout(i)[d] = NoFile}] :
            Reopen(i, ports, fd)
  BY DEF dhcpv4Setup
<1>2. ports \in {<<>>, <<67>>, <<67, 68>>}
  BY DEF Outcomes
<1>3. /\ ports \in Seq(Ports) /\ Len(ports) \in Nat
      /\ \A j, k \in 1 .. Len(ports) : ports[j] = ports[k] => j = k
  <2>1. CASE ports = <<>>
    BY <2>1
  <2>2. CASE ports = <<67>>
    BY <2>2 DEF Ports
  <2>3. CASE ports = <<67, 68>>
    BY <2>3 DEF Ports
  <2> QED BY <1>2, <2>1, <2>2, <2>3
<1>4. PICK m \in Nat : m = Len(ports)
  BY <1>3
<1>5. PICK fd \in [1 .. m -> {d \in FDs : TableWithout(i)[d] = NoFile}] : Reopen(i, ports, fd)
  BY <1>1, <1>4
<1>6. /\ socks' = ClosedSocks(i) \o OpenedSocks(i, ports, fd)
      /\ inbox' = inbox \o empty(m) /\ reader' = reader \o start(m)
      /\ dhcp' = [dhcp EXCEPT ![i] = n + 1 .. n + m]
      /\ UNCHANGED <<events, packets, relayed, stolen>>
  BY <1>4, <1>5 DEF Reopen
<1>7. /\ OpenedSocks(i, ports, fd) \in Seq(Sock) /\ Len(OpenedSocks(i, ports, fd)) = m
      /\ \A j \in 1 .. m : OpenedSocks(i, ports, fd)[j] =
                              [iface |-> i, port |-> ports[j], fd |-> fd[j], done |-> FALSE]
  <2>1. OpenedSocks(i, ports, fd) =
          [j \in 1 .. m |-> [iface |-> i, port |-> ports[j], fd |-> fd[j], done |-> FALSE]]
    BY <1>4 DEF OpenedSocks
  <2>2. \A j \in 1 .. m : ports[j] \in Ports /\ fd[j] \in FDs
    BY <1>3, <1>4
  <2> QED BY <2>1, <2>2 DEF Sock
<1>8. empty(m) \in Seq(Seq(PacketId)) /\ Len(empty(m)) = m /\ \A j \in 1 .. m : empty(m)[j] = <<>>
  OBVIOUS
<1>9. start(m) \in Seq(Reader) /\ Len(start(m)) = m /\ \A j \in 1 .. m : start(m)[j].pc = "check"
  BY DEF Reader, NoFile
<1> HIDE DEF empty, start
<1>10. \A s \in n + 1 .. n + m : s - n \in 1 .. m
  OBVIOUS
<1>11. /\ socks' \in Seq(Sock) /\ Len(socks') = n + m
       /\ \A s \in 1 .. n : socks'[s] = ClosedSocks(i)[s]
       /\ \A s \in n + 1 .. n + m : socks'[s] = OpenedSocks(i, ports, fd)[s - n]
  <2>1. ClosedSocks(i) \in Seq(Sock) /\ Len(ClosedSocks(i)) = n
    BY ClosedType
  <2> DEFINE old == ClosedSocks(i)
             new == OpenedSocks(i, ports, fd)
  <2> HIDE DEF old, new
  <2>2. /\ old \o new \in Seq(Sock) /\ Len(old \o new) = Len(old) + Len(new)
        /\ \A j \in 1 .. Len(old) : (old \o new)[j] = old[j]
        /\ \A j \in Len(old) + 1 .. Len(old) + Len(new) : (old \o new)[j] = new[j - Len(old)]
    BY <1>7, <2>1, Concatenated DEF old, new
  <2> QED BY <1>6, <1>7, <2>1, <2>2 DEF old, new
<1>12. /\ inbox' \in Seq(Seq(PacketId)) /\ Len(inbox') = n + m
       /\ \A s \in 1 .. n : inbox'[s] = inbox[s]
       /\ \A s \in n + 1 .. n + m : inbox'[s] = empty(m)[s - n]
  <2> HIDE DEF empty
  <2>1. PICK u, v \in Seq(Seq(PacketId)) : u = inbox /\ v = empty(m)
    BY <1>8 DEF SockType
  <2>2. Len(u) = n /\ Len(v) = m /\ inbox' = u \o v
    BY <1>6, <1>8, <2>1 DEF SockType
  <2>3. /\ u \o v \in Seq(Seq(PacketId)) /\ Len(u \o v) = Len(u) + Len(v)
        /\ \A j \in 1 .. Len(u) : (u \o v)[j] = u[j]
        /\ \A j \in Len(u) + 1 .. Len(u) + Len(v) : (u \o v)[j] = v[j - Len(u)]
    BY Concatenated
  <2> QED BY <2>1, <2>2, <2>3
<1>13. /\ reader' \in Seq(Reader) /\ Len(reader') = n + m
       /\ \A s \in 1 .. n : reader'[s] = reader[s]
       /\ \A s \in n + 1 .. n + m : reader'[s] = start(m)[s - n]
  <2>1. reader \in Seq(Reader) /\ Len(reader) = n
    BY DEF SockType
  <2>2. /\ reader \o start(m) \in Seq(Reader) /\ Len(reader \o start(m)) = Len(reader) + Len(start(m))
        /\ \A j \in 1 .. Len(reader) : (reader \o start(m))[j] = reader[j]
        /\ \A j \in Len(reader) + 1 .. Len(reader) + Len(start(m)) : (reader \o start(m))[j] = start(m)[j - Len(reader)]
    BY <1>9, <2>1, Concatenated
  <2> QED BY <1>6, <1>9, <2>1, <2>2
<1>14. /\ fdTable' \in [FDs -> 0 .. n + m]
       /\ \A s \in n + 1 .. n + m : fdTable'[fd[s - n]] = s
       /\ \A s \in (1 .. n) \ dhcp[i] : \A d \in FDs : fdTable[d] = s => fdTable'[d] = s
  BY <1>4, <1>5, ReopenTable
<1>15. SetupEffect(i, n, m, ports, fd)
  <2>1. \A s \in 1 .. n :
          /\ socks'[s].iface = socks[s].iface /\ socks'[s].port = socks[s].port
          /\ socks'[s].fd = socks[s].fd
          /\ ~socks'[s].done <=> Live(s) /\ s \notin dhcp[i]
    BY <1>11, ClosedType
  <2>2. \A s \in n + 1 .. n + m :
          /\ socks'[s].iface = i /\ socks'[s].port = ports[s - n] /\ socks'[s].fd = fd[s - n]
          /\ ~socks'[s].done
          /\ inbox'[s] = <<>> /\ reader'[s].pc = "check"
    <3> TAKE s \in n + 1 .. n + m
    <3>1. s - n \in 1 .. m
      BY <1>10
    <3>2. socks'[s] = [iface |-> i, port |-> ports[s - n], fd |-> fd[s - n], done |-> FALSE]
      BY <1>7, <1>11, <3>1
    <3>3. inbox'[s] = <<>> /\ reader'[s].pc = "check"
      <4> HIDE DEF empty, start
      <4>1. inbox'[s] = empty(m)[s - n] /\ reader'[s] = start(m)[s - n]
        BY <1>12, <1>13
      <4> QED BY <1>8, <1>9, <3>1, <4>1
    <3> QED BY <3>2, <3>3
  <2> QED BY <1>6, <1>11, <1>12, <1>13, <1>14, <2>1, <2>2 DEF SetupEffect
<1> QED BY <1>3, <1>4, <1>15

\* Closed sockets hold no claim any more, new ones hold none yet.
LEMMA SetupKeeps ==
    ASSUME SockInv, NEW i \in Ifaces, NEW enable \in BOOLEAN, dhcpv4Setup(i, enable)
    PROVE  SockInv'
<1>0. PICK n \in Nat : n = Len(socks)
  BY Elements DEF SockInv
<1>1. /\ SockType /\ Id = 1 .. n
      /\ \A s \in 1 .. n : socks[s] \in Sock
  BY <1>0, Elements DEF SockInv, Id
<1>2a. PICK m \in Nat, port \in Seq(Ports) : \E fd :
        SetupEffect(i, n, m, port, fd) /\ \A j, k \in 1 .. m : port[j] = port[k] => j = k
  BY <1>0, <1>1, SetupActs
<1>2. PICK fd :
        SetupEffect(i, n, m, port, fd) /\ \A j, k \in 1 .. m : port[j] = port[k] => j = k
  BY <1>2a
<1>3. /\ Id' = 1 .. n + m /\ Id \subseteq Id' /\ PacketId' = PacketId
      /\ \A s \in Id' : s \in 1 .. n \/ s \in n + 1 .. n + m
      /\ \A s \in n + 1 .. n + m : s - n \in 1 .. m /\ s \notin Id /\ s \in Id'
  <2>1. Len(socks') = n + m /\ packets' = packets
    BY <1>2 DEF SetupEffect
  <2>2. Id' = 1 .. n + m /\ PacketId' = PacketId
    BY <2>1 DEF Id, PacketId
  <2> QED BY <1>1, <2>2
<1>4. /\ \A s \in 1 .. n : /\ socks'[s].iface = socks[s].iface /\ socks'[s].port = socks[s].port
                           /\ socks'[s].fd = socks[s].fd
                           /\ ~socks'[s].done <=> Live(s) /\ s \notin dhcp[i]
                           /\ inbox'[s] = inbox[s] /\ reader'[s] = reader[s]
      /\ \A s \in n + 1 .. n + m : /\ socks'[s].iface = i /\ socks'[s].port = port[s - n]
                                   /\ socks'[s].fd = fd[s - n] /\ ~socks'[s].done
                                   /\ inbox'[s] = <<>> /\ reader'[s].pc = "check"
      /\ UNCHANGED <<events, packets, relayed, stolen>>
  BY <1>2 DEF SetupEffect
<1>5. /\ dhcp' = [dhcp EXCEPT ![i] = n + 1 .. n + m] /\ dhcp \in [Ifaces -> SUBSET Id]
      /\ \A s \in n + 1 .. n + m : fdTable'[fd[s - n]] = s
      /\ \A s \in (1 .. n) \ dhcp[i] : \A d \in FDs : fdTable[d] = s => fdTable'[d] = s
  BY <1>1, <1>2 DEF SetupEffect, SockType
<1>6. SockType'
  <2>1. dhcp' \in [Ifaces -> SUBSET Id']
    BY <1>3, <1>5
  <2>2. \A s \in Id' : /\ reader'[s].pc = "blocked" => reader'[s].file \in Id'
                       /\ reader'[s].pc = "post" => reader'[s].pkt \in PacketId'
    <3> TAKE s \in Id'
    <3>1. CASE s \in 1 .. n
      <4>1. reader'[s] = reader[s] /\ s \in Id
        BY <1>1, <1>4, <3>1
      <4>2. /\ reader[s].pc = "blocked" => reader[s].file \in Id
            /\ reader[s].pc = "post" => reader[s].pkt \in PacketId
        BY <1>1, <4>1 DEF SockType
      <4> QED BY <1>3, <4>1, <4>2
    <3>2. CASE s \in n + 1 .. n + m
      <4>1. reader'[s].pc = "check"
        BY <1>4, <3>2
      <4> QED BY <4>1
    <3> QED BY <1>3, <3>1, <3>2
  <2>3. /\ events \in Seq(Id \X PacketId) /\ relayed \subseteq Id \X PacketId
        /\ stolen \subseteq Id \X PacketId /\ Id \X PacketId \subseteq Id' \X PacketId
    BY <1>1, <1>3 DEF SockType
  <2>4. events' \in Seq(Id' \X PacketId')
    <3>1. \A j \in 1 .. Len(events) : events[j] \in Id' \X PacketId
      BY <2>3
    <3> QED BY <1>3, <1>4, <2>3, <3>1
  <2>5. relayed' \subseteq Id' \X PacketId' /\ stolen' \subseteq Id' \X PacketId'
    BY <1>3, <1>4, <2>3
  <2>6. packets' \in Seq(Packet)
    BY <1>1, <1>4 DEF SockType
  <2>7. /\ socks' \in Seq(Sock) /\ inbox' \in Seq(Seq(PacketId')) /\ reader' \in Seq(Reader)
        /\ Len(socks') = n + m /\ Len(inbox') = n + m /\ Len(reader') = n + m
        /\ fdTable' \in [FDs -> 0 .. n + m]
    BY <1>2, <1>3 DEF SetupEffect
  <2> QED BY <2>1, <2>2, <2>4, <2>5, <2>6, <2>7 DEF SockType
<1>7. ASSUME NEW s \in 1 .. n, ~socks'[s].done PROVE Live(s) /\ s \notin dhcp[i] /\ socks[s].iface # i
  BY <1>1, <1>4, <1>7 DEF SockInv, SocketsOwned
<1>8. SocketsOwned'
  <2>1. ASSUME NEW h \in Ifaces, NEW s \in dhcp'[h] PROVE socks'[s].iface = h /\ ~socks'[s].done
    <3>1. CASE h = i
      BY <1>4, <1>5, <2>1, <3>1
    <3>2. CASE h # i
      <4>1. s \in dhcp[h] /\ s \in 1 .. n /\ socks[s].iface = h /\ Live(s)
        BY <1>1, <1>5, <2>1, <3>2 DEF SockInv, SocketsOwned
      <4>2. s \notin dhcp[i]
        BY <3>2, <4>1 DEF SockInv, SocketsOwned
      <4> QED BY <1>4, <4>1, <4>2
    <3> QED BY <3>1, <3>2
  <2>2. ASSUME NEW s \in Id', ~socks'[s].done
        PROVE  s \in dhcp'[socks'[s].iface] /\ fdTable'[socks'[s].fd] = s
    <3>1. CASE s \in n + 1 .. n + m
      BY <1>4, <1>5, <3>1
    <3>2. CASE s \in 1 .. n
      <4>1. /\ Live(s) /\ s \notin dhcp[i] /\ socks[s].iface # i /\ socks[s] \in Sock /\ s \in Id
            /\ socks'[s].iface = socks[s].iface /\ socks'[s].fd = socks[s].fd
        BY <1>1, <1>4, <1>7, <2>2, <3>2
      <4>2. s \in dhcp[socks[s].iface] /\ fdTable[socks[s].fd] = s
        BY <4>1 DEF SockInv, SocketsOwned
      <4>3. socks[s].iface \in Ifaces /\ socks[s].fd \in FDs
        BY <4>1 DEF Sock
      <4> QED BY <1>5, <3>2, <4>1, <4>2, <4>3
    <3> QED BY <1>3, <3>1, <3>2
  <2>3. ASSUME NEW s \in Id', NEW t \in Id', ~socks'[s].done, ~socks'[t].done,
               socks'[s].iface = socks'[t].iface, socks'[s].port = socks'[t].port
        PROVE  s = t
    <3>1. CASE s \in 1 .. n /\ t \in 1 .. n
      BY <1>1, <1>4, <1>7, <2>3, <3>1 DEF SockInv, SocketsOwned
    <3>2. CASE s \in n + 1 .. n + m /\ t \in n + 1 .. n + m
      <4>1. s - n \in 1 .. m /\ t - n \in 1 .. m /\ port[s - n] = port[t - n]
        BY <1>3, <1>4, <2>3, <3>2
      <4>2. s - n = t - n
        BY <1>2, <4>1
      <4> QED BY <3>2, <4>2
    <3>3. CASE s \in 1 .. n /\ t \in n + 1 .. n + m
      BY <1>4, <1>7, <2>3, <3>3
    <3>4. CASE s \in n + 1 .. n + m /\ t \in 1 .. n
      BY <1>4, <1>7, <2>3, <3>4
    <3> QED BY <1>3, <3>1, <3>2, <3>3, <3>4
  <2> QED BY <2>1, <2>2, <2>3 DEF SocketsOwned, Live
<1>9. OwnFile'
  BY <1>1, <1>3, <1>4, <1>7 DEF SockInv, OwnFile, Live
<1>10. Matched'
  <2> DEFINE After(s, p) == /\ socks'[s].iface = packets'[p].iface
                            /\ socks'[s].port = packets'[p].port
  <2>1. \A s \in Id : \A p : Match(s, p) => After(s, p)
    BY <1>1, <1>4 DEF Match
  <2> HIDE DEF After
  <2>2. ASSUME NEW s \in Id' PROVE \A k \in 1 .. Len(inbox'[s]) : After(s, inbox'[s][k])
    <3>1. CASE s \in Id
      BY <1>1, <1>4, <2>1, <3>1 DEF SockInv, Matched
    <3>2. CASE s \in n + 1 .. n + m
      BY <1>4, <3>2
    <3> QED BY <1>1, <1>3, <3>1, <3>2
  <2>3. ASSUME NEW s \in Id', ~socks'[s].done, reader'[s].pc = "post" PROVE After(s, reader'[s].pkt)
    BY <1>1, <1>3, <1>4, <1>7, <2>1, <2>3 DEF SockInv, Matched
  <2>4. \A k \in 1 .. Len(events) : events[k][1] \in Id
    BY <1>1 DEF SockType
  <2>5. ASSUME NEW k \in 1 .. Len(events), ~socks'[events[k][1]].done
        PROVE  After(events[k][1], events[k][2])
    BY <1>1, <1>7, <2>1, <2>4, <2>5 DEF SockInv, Matched
  <2>6. \A r \in relayed : After(r[1], r[2])
    <3>1. \A r \in relayed : r[1] \in Id /\ Match(r[1], r[2])
      BY <1>1 DEF SockInv, Matched, Attributed, Match, SockType
    <3> QED BY <2>1, <3>1
  <2>7. Attributed'
    BY <1>4, <2>6 DEF Attributed, After
  <2> QED BY <1>4, <2>2, <2>3, <2>5, <2>7 DEF Matched, Live, Match, After
<1>11. OneClaim'
  <2>1. ASSUME NEW s \in Id', NEW p \in PacketId, Claims(s, p)' PROVE s \in Id /\ Claims(s, p)
    <3>1. CASE s \in Id
      BY <1>1, <1>4, <1>7, <2>1, <3>1 DEF Claims, Holds, Live
    <3>2. CASE s \in n + 1 .. n + m
      <4>1. s \notin Id
        BY <1>3, <3>2
      <4>2. <<s, p>> \notin relayed /\ \A k \in 1 .. Len(events) : events[k] # <<s, p>>
        BY <1>1, <4>1 DEF SockType
      <4> QED BY <1>4, <2>1, <3>2, <4>2 DEF Claims, Holds
    <3> QED BY <1>1, <1>3, <3>1, <3>2
  <2> QED BY <1>3, <2>1 DEF SockInv, OneClaim
<1>12. Spent'
  <2>1. \A r \in stolen : r[1] \in Id
    BY <1>1 DEF SockType
  <2> QED BY <1>1, <1>4, <1>7, <2>1 DEF SockInv, Spent, Live
<1> QED BY <1>6, <1>8, <1>9, <1>10, <1>11, <1>12 DEF SockInv

-----------------------------------------------------------------------------
(* The theorems.                                                           *)

\* The invariant holds when no socket has been opened.
LEMMA SockInit == Init => SockInv
<1> SUFFICES ASSUME Init PROVE SockInv
  OBVIOUS
<1>1. /\ socks = <<>> /\ inbox = <<>> /\ reader = <<>> /\ events = <<>> /\ packets = <<>>
      /\ relayed = {} /\ stolen = {} /\ Len(socks) = 0 /\ Id = {}
      /\ dhcp = [i \in Ifaces |-> {}] /\ fdTable = [fd \in FDs |-> 0]
  BY DEF Init, Id, NoFile
<1>2. SockType
  BY <1>1 DEF SockType
<1> QED BY <1>1, <1>2
    DEF SockInv, SocketsOwned, OwnFile, Matched, Attributed, OneClaim, Spent

\* Every step of the engine, of a reader or of the network keeps it.
LEMMA SockStep == SockInv /\ [Next]_vars => SockInv'
<1> SUFFICES ASSUME SockInv, [Next]_vars PROVE SockInv'
  OBVIOUS
<1>1. ASSUME NEW s \in Id, ReaderStep(s) PROVE SockInv'
  <2>1. CASE ReaderCheck(s) \/ ReaderError(s) \/ ReaderAgain(s)
    <3>1. PICK pc \in {"check", "recv", "exited"} : Goto(s, pc) /\ (pc = "recv" => Live(s))
      BY <2>1 DEF ReaderCheck, ReaderError, ReaderAgain, Live
    <3> QED BY <2>1, <3>1, MoveKeeps DEF ReaderCheck, ReaderError, ReaderAgain
  <2> QED BY <1>1, <2>1, EnterKeeps, RecvKeeps, PostKeeps DEF ReaderStep
<1>2. CASE UNCHANGED vars
  <2>1. Id' = Id /\ PacketId' = PacketId /\ UNCHANGED vars
    BY <1>2 DEF vars, Id, PacketId
  <2>2. SockType' /\ SocketsOwned' /\ OwnFile' /\ Spent'
    BY <2>1 DEF vars, SockInv, SockType, SocketsOwned, OwnFile, Spent, Live
  <2>3. Matched'
    BY <2>1 DEF vars, SockInv, Matched, Attributed, Match, Live
  <2>4. OneClaim'
    BY <2>1 DEF vars, SockInv, OneClaim, Claims, Holds, Live
  <2> QED BY <2>2, <2>3, <2>4 DEF SockInv
<1> QED BY <1>1, <1>2, SetupKeeps, HandleKeeps, ArriveKeeps DEF Next

\* dhcpv4Setup, the readers and the engine's handler keep sockets, descriptors and
\* packets in the relation the next three theorems need.
THEOREM SockInvariant == Spec => []SockInv
BY SockInit, SockStep, PTL DEF Spec

\* Whatever descriptors are recycled under blocked readers, a packet is relayed
\* as coming from the interface and port it arrived on.
THEOREM RelayedAsReceived == Spec => []Attributed
<1>1. SockInv => Attributed
  BY DEF SockInv, Matched
<1> QED BY <1>1, SockInvariant, PTL

\* A packet that reaches several sockets, the closed ones of earlier reloads
\* among them, is relayed for one of them at most.
THEOREM RelayedAtMostOnce == Spec => []RelayedOnce
<1>1. SockInv => RelayedOnce
  <2> SUFFICES ASSUME SockInv, NEW r \in relayed, NEW q \in relayed, r[2] = q[2] PROVE r = q
    BY DEF RelayedOnce
  <2>1. /\ r = <<r[1], r[2]>> /\ q = <<q[1], q[2]>>
        /\ r[1] \in Id /\ q[1] \in Id /\ r[2] \in PacketId
    BY DEF SockInv, SockType
  <2>2. Claims(r[1], r[2]) /\ Claims(q[1], r[2])
    BY <2>1 DEF Claims
  <2> QED BY <2>1, <2>2 DEF SockInv, OneClaim
<1> QED BY <1>1, SockInvariant, PTL

\* A reader whose socket has been closed takes at most one packet more, however
\* often its descriptor is given to other sockets.
THEOREM StealsBounded == Spec => []StealsAtMostOne
<1>1. SockInv => StealsAtMostOne
  <2> SUFFICES ASSUME SockInv, NEW s \in Id PROVE Cardinality({r \in stolen : r[1] = s}) <= 1
    BY DEF StealsAtMostOne
  <2> DEFINE S == {r \in stolen : r[1] = s}
  <2>1. \A r, q \in S : r = q
    BY DEF SockInv, Spent
  <2>2. CASE S = {}
    BY <2>2, FS_EmptySet
  <2>3. CASE S # {}
    <3>1. PICK r : S = {r}
      BY <2>1, <2>3
    <3>2. Cardinality({r}) = 1
      BY FS_Singleton
    <3> QED BY <3>1, <3>2
  <2> QED BY <2>2, <2>3
<1> QED BY <1>1, SockInvariant, PTL

=============================================================================
