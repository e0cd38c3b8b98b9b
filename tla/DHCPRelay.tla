------------------------------ MODULE DHCPRelay ------------------------------
(***************************************************************************)
(* Relaying DHCP messages between slaves and masters: relayClientRequest,  *)
(* relayServerResponse and sendDHCPv4 (internal/relay/dhcpv4.go), with the *)
(* address cache they consult (refreshInterfaceAddresses, handleAddrEvent, *)
(* relayLinkAddress4), while addresses change, sockets come and go and a   *)
(* slave is re-created under a new index between a request and its reply.  *)
(*                                                                         *)
(* What an ACK, RELEASE or DECLINE does to the mirrors is NeighMirror's    *)
(* subject, the bytes of option 82 and of the router option DHCPOptions'.  *)
(***************************************************************************)
EXTENDS Integers, Sequences, FiniteSets, Functions

CONSTANTS
    Slaves, Masters,  \* config keys of the interfaces
    Ifindexes,        \* kernel interface indexes
    FirstIndex,       \* the index each netdev has at first
    Addrs,            \* IPv4 addresses
    Lists,            \* the IPv4 address lists each interface may have
    Sent,             \* the messages clients, or relays below us, may send
    Looped,           \* <<m, s>>: broadcasts on m's segment are heard on s
    dhcpMaxHops,      \* RFC 1542 hop limit (16 in the code)
    MaxSent,          \* bound: number of client messages
    MaxChanges        \* bound: number of address, socket and index changes

Names == Slaves \cup Masters
NoAddr == "none"
Router == "router"   \* what a server's reply says of routers, if anything
NoCircuit == 0

\* in: the slave it is heard on; from: the slave it was first heard on; foreign:
\* the circuit-id is another relay's; fits: option 82 can be inserted.
Request == [in : Slaves, from : Slaves, foreign : BOOLEAN, hops : 0 .. dhcpMaxHops,
            giaddr : Addrs \cup {NoAddr}, circuit : Ifindexes \cup {NoCircuit},
            fits : BOOLEAN]

\* usable: not tentative, loopback, link-local or multicast.
Address == [addr : Addrs, usable : BOOLEAN]

\* A client itself sends neither giaddr nor option 82.
ASSUME RelayAssumption ==
    /\ Slaves \cap Masters = {} /\ IsFiniteSet(Names)
    /\ Ifindexes \subseteq Nat \ {0}
    /\ FirstIndex \in [Names -> Ifindexes] /\ IsInjective(FirstIndex)
    /\ NoAddr \notin Addrs /\ Router \notin Addrs
    /\ Lists \in [Names -> SUBSET Seq(Address)]
    /\ Sent \subseteq Request
    /\ \A r \in Sent : /\ r.hops = 0 /\ r.in = r.from
                       /\ ~r.foreign => r.giaddr = NoAddr /\ r.circuit = NoCircuit
    /\ Looped \subseteq Masters \X Slaves
    /\ dhcpMaxHops \in Nat /\ MaxSent \in Nat /\ MaxChanges \in Nat

VARIABLES
    index,     \* kernel: the index of each netdev
    addrs,     \* kernel: the address list of each netdev
    events,    \* kernel: unhandled link and address notifications
    table,     \* daemon: index, cached addresses and socket of each interface
    requests,  \* BOOTREQUESTs in slave sockets
    upstream,  \* BOOTREQUESTs on masters' segments
    replies,   \* BOOTREPLYs in master sockets
    clients,   \* the BOOTREPLYs sent to slaves' segments for the last reply
    sent, changes

kernelVars == <<index, addrs, events>>
netVars == <<requests, upstream, replies, clients>>
vars == <<kernelVars, table, netVars, sent, changes>>

-----------------------------------------------------------------------------
(* Interfaces.                                                             *)

\* The first address that is usable.
relayLinkAddress4(list) ==
    LET usable == {j \in DOMAIN list : list[j].usable}
    IN  IF usable = {} THEN NoAddr
        ELSE list[CHOOSE j \in usable : \A k \in usable : j <= k].addr

Has(n, a) == \E j \in DOMAIN addrs[n] : addrs[n][j].addr = a

\* fetchAddr4(i) for the netdev of n: nothing if it no longer has index i.
fetchAddr4(n, i) == IF index[n] = i THEN addrs[n] ELSE <<>>

AddrChange(n, list) ==
    /\ changes < MaxChanges /\ list # addrs[n]
    /\ changes' = changes + 1
    /\ addrs' = [addrs EXCEPT ![n] = list]
    /\ events' = Append(events, [type |-> "addr", name |-> n, index |-> index[n]])
    /\ UNCHANGED <<index, table, netVars, sent>>

\* The netdev of n is re-created, with the address list it is given then.
Recreate(n) ==
    /\ changes < MaxChanges
    /\ changes' = changes + 1
    /\ \E i \in Ifindexes : /\ \A m \in Names : index[m] < i /\ table[m].index < i
                            /\ index' = [index EXCEPT ![n] = i]
                            /\ events' = Append(events, [type |-> "link", name |-> n, index |-> i])
    /\ UNCHANGED <<addrs, table, netVars, sent>>

Purge(n) ==
    /\ requests' = {r \in requests : r.in # n}
    /\ replies' = {p \in replies : p.at # n}

\* The sockets of n are closed (carrier lost) or opened again, and what was
\* in them is lost.
Carrier(n) ==
    /\ changes < MaxChanges
    /\ changes' = changes + 1
    /\ table' = [table EXCEPT ![n].open = ~@,
                              ![n].addr4 = IF table[n].open THEN @ ELSE fetchAddr4(n, table[n].index)]
    /\ Purge(n)
    /\ UNCHANGED <<kernelVars, upstream, clients, sent>>

\* handleAddrEvent: an event of an index the table does not hold is ignored.
handleAddrEvent(n, i) ==
    IF table[n].index = i THEN [table EXCEPT ![n].addr4 = fetchAddr4(n, i)] ELSE table

\* handleLinkEvent for a new index; Lifecycle has the rest of it.
handleLinkEvent(n, i) ==
    [table EXCEPT ![n] = [index |-> i, addr4 |-> fetchAddr4(n, i), open |-> TRUE]]

HandleEvent ==
    /\ events # <<>>
    /\ events' = Tail(events)
    /\ LET e == Head(events) IN
       \/ /\ e.type = "addr"
          /\ table' = handleAddrEvent(e.name, e.index)
          /\ UNCHANGED <<requests, replies>>
       \/ /\ e.type = "link"
          /\ table' = handleLinkEvent(e.name, e.index)
          /\ Purge(e.name)
    /\ UNCHANGED <<index, addrs, upstream, clients, sent, changes>>

\* A socket hears its netdev's segment while it is open and the netdev is the
\* one it was bound to.
Hears(n) == table[n].open /\ table[n].index = index[n]

-----------------------------------------------------------------------------
(* Requests.                                                               *)

Send(r) ==
    /\ sent < MaxSent /\ Hears(r.in)
    /\ sent' = sent + 1
    /\ requests' = requests \cup {r}
    /\ UNCHANGED <<kernelVars, table, upstream, replies, clients, changes>>

\* The masters a request is relayed out of.
RelayedOn == {m \in Masters : table[m].open /\ relayLinkAddress4(table[m].addr4) # NoAddr}

\* insertAgentInfo: option 82 of another relay is kept.
Circuit(r) == IF r.circuit = NoCircuit /\ r.fits THEN table[r.in].index ELSE r.circuit

\* Mutant: the hop count is set, not increased.
FirstHop(r, m) ==
    [from |-> r.from, foreign |-> r.foreign, fits |-> r.fits, hops |-> 1, on |-> m,
     giaddr |-> IF r.giaddr = NoAddr THEN relayLinkAddress4(table[m].addr4) ELSE r.giaddr,
     circuit |-> Circuit(r)]

\* Mutant: one buffer serves every master, so the first giaddr written stays.
SharedCopy(r, m) ==
    [FirstHop(r, m) EXCEPT !.hops = r.hops + 1,
        !.giaddr = IF r.giaddr = NoAddr
                   THEN relayLinkAddress4(table[CHOOSE x \in RelayedOn : TRUE].addr4) ELSE @]

\* The per-master copy: hops and giaddr are ours to set.
Copy(r, m) ==
    [from |-> r.from, foreign |-> r.foreign, fits |-> r.fits, hops |-> r.hops + 1, on |-> m,
     giaddr |-> IF r.giaddr = NoAddr THEN relayLinkAddress4(table[m].addr4) ELSE r.giaddr,
     circuit |-> Circuit(r)]

\* A broadcast on m's segment, heard on a slave of the same segment.
Echoes(u) ==
    {[in |-> s, from |-> u.from, foreign |-> u.foreign, fits |-> u.fits, hops |-> u.hops,
      giaddr |-> u.giaddr, circuit |-> u.circuit] :
        s \in {s \in Slaves : <<u.on, s>> \in Looped /\ Hears(s)}}

\* Mutant: off by one.
HopLimitPassed(r) == r.hops > dhcpMaxHops

HopLimitReached(r) == r.hops >= dhcpMaxHops

relayClientRequest(r) ==
    LET copies == IF HopLimitReached(r) THEN {} ELSE {Copy(r, m) : m \in RelayedOn}
        out == {u \in copies : Hears(u.on)}
    IN
    /\ r \in requests
    /\ requests' = (requests \ {r}) \cup UNION {Echoes(u) : u \in out}
    /\ upstream' = upstream \cup out
    /\ UNCHANGED <<kernelVars, table, replies, clients, sent, changes>>

-----------------------------------------------------------------------------
(* Replies.                                                                *)

\* A server answers u, with or without its option 82, to giaddr or as a
\* broadcast on its segment.
Answer(u, m, circuit) ==
    /\ u \in upstream /\ Hears(m)
    /\ m = u.on \/ Has(m, u.giaddr)
    /\ circuit \in {u.circuit, NoCircuit}
    /\ replies' = replies \cup {[at |-> m, from |-> u.from, foreign |-> u.foreign,
                                circuit |-> circuit]}
    /\ upstream' = upstream \ {u}
    /\ UNCHANGED <<kernelVars, table, requests, clients, sent, changes>>

Named(p) == {s \in Slaves : table[s].index = p.circuit}

\* Mutant: a reply whose circuit-id names no slave is dropped.
NamedOnly(p) == Named(p)

\* The slave the circuit-id names, else every slave with an open socket.
Targets(p) == IF Named(p) # {} THEN Named(p) ELSE {s \in Slaves : table[s].open}

\* The target's own address, unless it has none or rewriteGateway finds nothing
\* it may patch: what the server wrote then stays.
Gateway(t, one) ==
    LET gw == relayLinkAddress4(table[t].addr4)
    IN  IF gw # NoAddr /\ one THEN gw ELSE Router

\* Mutant: the payload is shared, so a rewritten gateway stays for the targets
\* that have no address of their own.
SharedPayload(p, t, one) ==
    [on |-> t, gw |-> IF Gateway(t, one) # Router THEN Gateway(t, one)
                      ELSE Gateway(CHOOSE x \in Targets(p) : \A y \in Targets(p) :
                                       Gateway(y, one) # Router => Gateway(x, one) # Router, one)]

\* The per-target copy, with the target's own address as gateway.
Payload(p, t, one) == [on |-> t, gw |-> Gateway(t, one)]

\* one: option 3 of the reply is there and holds one address.
relayServerResponse(p, one) ==
    /\ p \in replies
    /\ replies' = replies \ {p}
    /\ clients' = {Payload(p, t, one) : t \in {t \in Targets(p) : Hears(t)}}
    /\ UNCHANGED <<kernelVars, table, requests, upstream, sent, changes>>

-----------------------------------------------------------------------------
Init ==
    /\ index = FirstIndex
    /\ addrs \in [Names -> UNION {Lists[n] : n \in Names}] /\ \A n \in Names : addrs[n] \in Lists[n]
    /\ table = [n \in Names |-> [index |-> index[n], addr4 |-> addrs[n], open |-> TRUE]]
    /\ events = <<>>
    /\ requests = {} /\ upstream = {} /\ replies = {} /\ clients = {}
    /\ sent = 0 /\ changes = 0

Next ==
    \/ \E n \in Names : \/ Recreate(n) \/ Carrier(n)
                        \/ \E list \in Lists[n] : AddrChange(n, list)
    \/ HandleEvent
    \/ \E r \in Sent : Send(r)
    \/ \E r \in requests : relayClientRequest(r)
    \/ \E u \in upstream, m \in Masters, c \in Ifindexes \cup {NoCircuit} : Answer(u, m, c)
    \/ \E p \in replies, one \in BOOLEAN : relayServerResponse(p, one)

Spec == Init /\ [][Next]_vars

\* The engine runs what readers and the netlink monitor post.
FairSpec == Spec /\ WF_vars(\E r \in requests : relayClientRequest(r))
                 /\ WF_vars(\E p \in replies, one \in BOOLEAN : relayServerResponse(p, one))

-----------------------------------------------------------------------------
(* Properties.                                                             *)

Row == [index : Ifindexes, addr4 : Seq(Address), open : BOOLEAN]
Event == [type : {"addr", "link"}, name : Names, index : Ifindexes]
Relayed == [on : Masters, from : Slaves, foreign : BOOLEAN, hops : 1 .. dhcpMaxHops,
            giaddr : Addrs, circuit : Ifindexes \cup {NoCircuit}, fits : BOOLEAN]
Reply == [at : Masters, from : Slaves, foreign : BOOLEAN, circuit : Ifindexes \cup {NoCircuit}]

TypeOK ==
    /\ index \in [Names -> Ifindexes] /\ events \in Seq(Event)
    /\ addrs \in [Names -> Seq(Address)] /\ \A n \in Names : addrs[n] \in Lists[n]
    /\ table \in [Names -> Row] /\ \A n \in Names : table[n].addr4 \in Lists[n] \cup {<<>>}
    /\ requests \subseteq Request /\ upstream \subseteq Relayed /\ replies \subseteq Reply
    /\ clients \subseteq [on : Slaves, gw : Addrs \cup {Router}]
    /\ sent \in 0 .. MaxSent /\ changes \in 0 .. MaxChanges

\* "The server unicasts its reply back to that giaddr": a request relayed for a
\* client of ours when no notification is outstanding carries an address the
\* master it leaves by really has.
GiaddrReachable ==
    [][\A u \in upstream' \ upstream :
          events = <<>> /\ u.hops = 1 /\ ~u.foreign => Has(u.on, u.giaddr)]_vars

\* A reply to a request we relayed is sent to the slave the request came in by,
\* and to no other if the circuit-id still names it, even if that slave has
\* been re-created since (its circuit-id then names nobody).
ReplyRouted ==
    [][\A p \in replies, one \in BOOLEAN :
          relayServerResponse(p, one) /\ Hears(p.from) /\ ~p.foreign =>
              /\ \E d \in clients' : d.on = p.from
              /\ p.circuit = table[p.from].index => \A d \in clients' : d.on = p.from]_vars

\* A reply that names one router tells each slave's clients that slave's own
\* address instead, never another slave's; it stays as the server wrote it if the
\* slave has no address, and always if it names no router or several.
GatewayOwn ==
    [][\A p \in replies, one \in BOOLEAN :
          relayServerResponse(p, one) /\ events = <<>> =>
              \A d \in clients' : LET own == relayLinkAddress4(addrs[d.on])
                                 IN  d.gw = IF own # NoAddr /\ one THEN own ELSE Router]_vars

\* A relayed broadcast that comes back on a slave bridged to the master's
\* segment circulates no longer than the hop limit allows.
LoopEnds == <>[](requests = {})

=============================================================================
