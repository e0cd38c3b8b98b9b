--------------------------- MODULE DHCPRelayProofs ---------------------------
(***************************************************************************)
(* Proofs about DHCPRelay, for any interfaces, address lists, messages,    *)
(* loops and hop limit: what is relayed carries an address the server can  *)
(* answer to, and what comes back goes to the slave the request came from. *)
(***************************************************************************)
EXTENDS DHCPRelay, WellFoundedInduction, TLAPS

-----------------------------------------------------------------------------
(* The inductive invariant.                                                *)

LinkPending(n) == \E q \in 1 .. Len(events) : events[q].type = "link" /\ events[q].name = n
Pending(n) == \E q \in 1 .. Len(events) : events[q].name = n

\* A notification that was overtaken by a re-creation is followed by the
\* notification of that re-creation.
Overtaken ==
    \A q \in 1 .. Len(events) :
        \/ events[q].index = index[events[q].name]
        \/ \E k \in q + 1 .. Len(events) :
               events[k].type = "link" /\ events[k].name = events[q].name

\* The row of n is what the kernel has, or a notification will make it so.
CacheFollows ==
    \A n \in Names : /\ table[n].index = index[n] \/ LinkPending(n)
                     /\ table[n].addr4 = addrs[n] \/ Pending(n)

\* n has, is believed to have, or will be told to have index i.
Claims(i, n) ==
    \/ index[n] = i
    \/ table[n].index = i
    \/ \E q \in 1 .. Len(events) :
           events[q].type = "link" /\ events[q].name = n /\ events[q].index = i

\* Indexes grow, and no index is ever claimed for two netdevs.
IndexesOwned ==
    \A i \in Ifindexes, n \in Names :
        Claims(i, n) => /\ i <= index[n]
                        /\ \A m \in Names : Claims(i, m) => m = n

\* Circuit-id c was written for slave s, and no one else has the index it is.
Stamped(c, s) ==
    c # NoCircuit => /\ c <= index[s]
                     /\ \A n \in Names : Claims(c, n) => n = s

RequestsStamped ==
    \A r \in requests : ~r.foreign =>
        /\ Stamped(r.circuit, r.from)
        /\ r.circuit = NoCircuit /\ r.fits => r.in = r.from
        /\ r.hops = 0 => r.giaddr = NoAddr

UpstreamStamped ==
    \A u \in upstream : ~u.foreign =>
        /\ Stamped(u.circuit, u.from)
        /\ u.fits => u.circuit # NoCircuit

RepliesStamped == \A p \in replies : ~p.foreign => Stamped(p.circuit, p.from)

RelayInv ==
    /\ TypeOK /\ Overtaken /\ CacheFollows /\ IndexesOwned
    /\ RequestsStamped /\ UpstreamStamped /\ RepliesStamped

-----------------------------------------------------------------------------
(* The model's operators.                                                  *)

\* A nonempty set of naturals has a least element.
LEMMA Least ==
    ASSUME NEW T \in SUBSET Nat, T # {}
    PROVE  \E x \in T : \A y \in T : x <= y
<1> DEFINE R == {ss \in Nat \X Nat : ss[1] < ss[2]}
<1>1. IsWellFoundedOn(R, Nat)
  BY NatLessThanWellFounded, Zenon DEF OpToRel
<1>2. PICK x \in T : \A y \in T : ~ (<<y, x>> \in R)
  <2> HIDE DEF R
  <2> QED BY <1>1, WFMin
<1>3. ASSUME NEW y \in T PROVE x <= y
  <2>1. x \in Nat /\ y \in Nat
    OBVIOUS
  <2>2. ~ (<<y, x>> \in R)
    BY <1>2
  <2> QED BY <2>1, <2>2
<1> QED BY <1>3

\* relayLinkAddress4 finds an address of the list, if it finds any.
LEMMA LinkAddress ==
    ASSUME NEW list \in Seq(Address)
    PROVE  /\ relayLinkAddress4(list) \in Addrs \cup {NoAddr}
           /\ relayLinkAddress4(list) # NoAddr =>
                \E j \in DOMAIN list : list[j].addr = relayLinkAddress4(list)
<1> DEFINE usable == {j \in DOMAIN list : list[j].usable}
           first == CHOOSE j \in usable : \A k \in usable : j <= k
<1>1. CASE usable = {}
  <2>1. relayLinkAddress4(list) = NoAddr
    BY <1>1, Zenon DEF relayLinkAddress4
  <2> QED BY <2>1, Zenon
<1>2. CASE usable # {}
  <2>1. usable \in SUBSET Nat
    OBVIOUS
  <2>2. \E j \in usable : \A k \in usable : j <= k
    <3> HIDE DEF usable
    <3> QED BY <1>2, <2>1, Least
  <2>3. first \in usable
    <3> HIDE DEF usable
    <3> QED BY <2>2
  <2>4. first \in DOMAIN list
    <3> HIDE DEF first
    <3> QED BY <2>3
  <2>5. list[first] \in Address
    <3> HIDE DEF first
    <3> QED BY <2>4
  <2>6. relayLinkAddress4(list) = list[first].addr
    BY <1>2 DEF relayLinkAddress4
  <2>7. list[first].addr \in Addrs
    <3> HIDE DEF first
    <3> QED BY <2>5 DEF Address
  <2> HIDE DEF first
  <2> QED BY <2>4, <2>6, <2>7
<1> QED BY <1>1, <1>2

\* The addresses fetched for n are those of one of its lists, or none.
LEMMA Fetched ==
    ASSUME TypeOK, NEW n \in Names, NEW i
    PROVE  fetchAddr4(n, i) \in Seq(Address) /\ fetchAddr4(n, i) \in Lists[n] \cup {<<>>}
BY DEF TypeOK, fetchAddr4

\* The copy for m of a request below the hop limit is a well-formed message.
LEMMA CopyRelayed ==
    ASSUME TypeOK, NEW r \in requests, ~HopLimitReached(r), NEW m \in RelayedOn
    PROVE  Copy(r, m) \in Relayed
<1>1. /\ r \in Request /\ m \in Masters /\ table[m] \in Row /\ table[r.in] \in Row
      /\ relayLinkAddress4(table[m].addr4) # NoAddr
  BY DEF TypeOK, RelayedOn, Request, Names
<1>2. relayLinkAddress4(table[m].addr4) \in Addrs
  BY <1>1, LinkAddress DEF Row
<1>3. r.hops + 1 \in 1 .. dhcpMaxHops
  BY <1>1, RelayAssumption DEF HopLimitReached, Request
<1>4. Circuit(r) \in Ifindexes \cup {NoCircuit}
  BY <1>1 DEF Circuit, Request, Row
<1> QED BY <1>1, <1>2, <1>3, <1>4 DEF Copy, Relayed, Request

\* A broadcast heard again is a well-formed request.
LEMMA EchoRequest ==
    ASSUME NEW u \in Relayed
    PROVE  Echoes(u) \subseteq Request
<1> SUFFICES ASSUME NEW e \in Echoes(u) PROVE e \in Request
  OBVIOUS
<1>1. PICK s \in Slaves :
        e = [in |-> s, from |-> u.from, foreign |-> u.foreign, fits |-> u.fits,
             hops |-> u.hops, giaddr |-> u.giaddr, circuit |-> u.circuit]
  BY DEF Echoes
<1>2. u.hops \in 0 .. dhcpMaxHops
  BY RelayAssumption DEF Relayed
<1> QED BY <1>1, <1>2 DEF Relayed, Request

-----------------------------------------------------------------------------
(* What the actions do to the table and to the notifications.              *)

\* Losing or regaining the carrier may refetch the addresses of n.
LEMMA CarrierTable ==
    ASSUME TypeOK, NEW n \in Names, Carrier(n)
    PROVE  /\ table' \in [Names -> Row]
           /\ \A m \in Names : table'[m].index = table[m].index
           /\ \A m \in Names : m # n => table'[m].addr4 = table[m].addr4
           /\ \/ table'[n].addr4 = table[n].addr4
              \/ table'[n].addr4 = fetchAddr4(n, table[n].index)
<1> DEFINE fetched == fetchAddr4(n, table[n].index)
           list == IF table[n].open THEN table[n].addr4 ELSE fetched
           row == [table[n] EXCEPT !.open = ~table[n].open, !.addr4 = list]
<1>1. table \in [Names -> Row] /\ table[n] \in Row /\ fetched \in Seq(Address)
  BY Fetched DEF TypeOK
<1>2. list \in Seq(Address) /\ (list = table[n].addr4 \/ list = fetched)
  <2> HIDE DEF fetched
  <2> QED BY <1>1 DEF Row
<1>3. table' = [table EXCEPT ![n] = row]
  BY <1>1 DEF Carrier, Row
<1>4. row \in Row /\ row.index = table[n].index /\ row.addr4 = list
  <2> HIDE DEF list
  <2> QED BY <1>1, <1>2 DEF Row
<1>5. /\ table' \in [Names -> Row] /\ table'[n] = row
      /\ \A m \in Names : m # n => table'[m] = table[m]
  <2> HIDE DEF row
  <2> QED BY <1>1, <1>3, <1>4
<1> HIDE DEF row, list
<1> QED BY <1>2, <1>4, <1>5

\* Handling a notification takes it off the queue.
LEMMA HandleQueue ==
    ASSUME TypeOK, HandleEvent
    PROVE  /\ Len(events) >= 1 /\ Head(events) = events[1] /\ events[1] \in Event
           /\ events' \in Seq(Event) /\ Len(events') = Len(events) - 1
           /\ \A q \in 1 .. Len(events') : events'[q] = events[q + 1]
BY DEF TypeOK, HandleEvent

\* What handling a notification of n makes of the row of n.
LEMMA HandleTable ==
    ASSUME TypeOK, HandleEvent, NEW e \in Event, e = events[1], NEW n \in Names, n = e.name
    PROVE  /\ table' \in [Names -> Row]
           /\ \A m \in Names : m # n => table'[m] = table[m]
           /\ table'[n].index = IF e.type = "link" THEN e.index ELSE table[n].index
           /\ \/ table'[n].addr4 = fetchAddr4(n, e.index)
              \/ table[n].index # e.index /\ e.type = "addr" /\ table'[n] = table[n]
<1>1. table \in [Names -> Row] /\ table[n] \in Row /\ e.index \in Ifindexes
  BY DEF TypeOK, Event
<1>2. Head(events) = e
  BY HandleQueue
<1>3. PICK list : list = fetchAddr4(n, e.index)
  OBVIOUS
<1>4. list \in Seq(Address)
  BY <1>1, <1>3, Fetched
<1>5. CASE e.type = "link"
  <2>1. table' = [table EXCEPT ![n] = [index |-> e.index, addr4 |-> list, open |-> TRUE]]
    BY <1>2, <1>3, <1>5 DEF HandleEvent, handleLinkEvent
  <2>2. [index |-> e.index, addr4 |-> list, open |-> TRUE] \in Row
    BY <1>1, <1>4 DEF Row
  <2> QED BY <1>1, <1>3, <1>5, <2>1, <2>2
<1>6. CASE e.type = "addr" /\ table[n].index = e.index
  <2>1. table' = [table EXCEPT ![n].addr4 = list]
    BY <1>2, <1>3, <1>6 DEF HandleEvent, handleAddrEvent
  <2>2. table' = [table EXCEPT ![n] = [table[n] EXCEPT !.addr4 = list]]
    BY <1>1, <2>1
  <2>3. /\ [table[n] EXCEPT !.addr4 = list] \in Row
        /\ [table[n] EXCEPT !.addr4 = list].index = table[n].index
        /\ [table[n] EXCEPT !.addr4 = list].addr4 = list
    BY <1>1, <1>4 DEF Row
  <2> QED BY <1>1, <1>3, <1>6, <2>2, <2>3
<1>7. CASE e.type = "addr" /\ table[n].index # e.index
  <2>1. table' = table
    BY <1>2, <1>7 DEF HandleEvent, handleAddrEvent
  <2> QED BY <1>1, <1>7, <2>1
<1> QED BY <1>5, <1>6, <1>7 DEF Event

\* A change posts a notification at the end of the queue.
LEMMA Posted ==
    ASSUME NEW S, NEW q \in Seq(S), NEW e \in S
    PROVE  /\ Append(q, e) \in Seq(S) /\ Len(Append(q, e)) = Len(q) + 1
           /\ Append(q, e)[Len(q) + 1] = e
           /\ \A k \in 1 .. Len(q) : Append(q, e)[k] = q[k]
OBVIOUS

-----------------------------------------------------------------------------
(* Types.                                                                  *)

\* The first state has the types.
LEMMA RelayTypeInit == Init => TypeOK
<1> SUFFICES ASSUME Init PROVE TypeOK
  OBVIOUS
<1>1. \A n \in Names : addrs[n] \in Lists[n] /\ addrs[n] \in Seq(Address)
  BY RelayAssumption DEF Init
<1>2. addrs \in [Names -> Seq(Address)]
  BY <1>1 DEF Init
<1>3. index \in [Names -> Ifindexes]
  BY RelayAssumption DEF Init
<1>4. \A n \in Names : [index |-> index[n], addr4 |-> addrs[n], open |-> TRUE] \in Row
  BY <1>1, <1>3 DEF Row
<1>5. table \in [Names -> Row] /\ \A n \in Names : table[n].addr4 = addrs[n]
  BY <1>4 DEF Init
<1>6. events \in Seq(Event) /\ sent \in 0 .. MaxSent /\ changes \in 0 .. MaxChanges
  BY RelayAssumption DEF Init
<1> QED BY <1>1, <1>2, <1>3, <1>5, <1>6 DEF Init, TypeOK

\* Every action keeps the types.
LEMMA RelayTypeStep ==
    ASSUME TypeOK, [Next]_vars
    PROVE  TypeOK'
<1>1. CASE UNCHANGED vars
  BY <1>1 DEF TypeOK, vars, kernelVars, netVars
<1>2. ASSUME NEW n \in Names, NEW list \in Lists[n], AddrChange(n, list)
      PROVE  TypeOK'
  <2>1. list \in Seq(Address)
    BY RelayAssumption
  <2>2. /\ addrs' \in [Names -> Seq(Address)]
        /\ \A m \in Names : addrs'[m] \in Lists[m]
    BY <1>2, <2>1 DEF AddrChange, TypeOK
  <2>3. events' \in Seq(Event)
    <3>1. [type |-> "addr", name |-> n, index |-> index[n]] \in Event
      BY DEF TypeOK, Event
    <3> QED BY <1>2, <3>1, Posted DEF AddrChange, TypeOK
  <2>4. changes' \in 0 .. MaxChanges
    BY <1>2, RelayAssumption DEF AddrChange, TypeOK
  <2> QED BY <1>2, <2>2, <2>3, <2>4 DEF AddrChange, TypeOK, netVars
<1>3. ASSUME NEW n \in Names, Recreate(n)
      PROVE  TypeOK'
  <2>1. PICK i \in Ifindexes :
          /\ index' = [index EXCEPT ![n] = i]
          /\ events' = Append(events, [type |-> "link", name |-> n, index |-> i])
    BY <1>3 DEF Recreate
  <2>2. [type |-> "link", name |-> n, index |-> i] \in Event
    BY DEF Event
  <2>3. events' \in Seq(Event)
    BY <2>1, <2>2, Posted DEF TypeOK
  <2>4. index' \in [Names -> Ifindexes] /\ changes' \in 0 .. MaxChanges
    BY <1>3, <2>1, RelayAssumption DEF Recreate, TypeOK
  <2> QED BY <1>3, <2>3, <2>4 DEF Recreate, TypeOK, netVars
<1>4. ASSUME NEW n \in Names, Carrier(n)
      PROVE  TypeOK'
  <2>1. table' \in [Names -> Row] /\ \A m \in Names : table'[m].addr4 \in Lists[m] \cup {<<>>}
    <3>1. fetchAddr4(n, table[n].index) \in Lists[n] \cup {<<>>}
      BY Fetched
    <3> QED BY <1>4, <3>1, CarrierTable DEF TypeOK
  <2>2. requests' \subseteq Request /\ replies' \subseteq Reply
    BY <1>4 DEF Carrier, Purge, TypeOK
  <2>3. changes' \in 0 .. MaxChanges
    BY <1>4, RelayAssumption DEF Carrier, TypeOK
  <2> QED BY <1>4, <2>1, <2>2, <2>3 DEF Carrier, TypeOK, kernelVars
<1>5. ASSUME HandleEvent
      PROVE  TypeOK'
  <2>1. PICK e \in Event : e = events[1] /\ e = Head(events)
    BY <1>5, HandleQueue
  <2>2. PICK n \in Names : n = e.name
    BY DEF Event
  <2>3. table' \in [Names -> Row] /\ \A m \in Names : table'[m].addr4 \in Lists[m] \cup {<<>>}
    <3>1. fetchAddr4(n, e.index) \in Lists[n] \cup {<<>>}
      BY Fetched
    <3>2. table[n].addr4 \in Lists[n] \cup {<<>>}
      BY DEF TypeOK
    <3>3. /\ table' \in [Names -> Row]
          /\ \A m \in Names : m # n => table'[m] = table[m]
          /\ table'[n].addr4 = fetchAddr4(n, e.index) \/ table'[n] = table[n]
      BY <1>5, <2>1, <2>2, HandleTable
    <3>4. table'[n].addr4 \in Lists[n] \cup {<<>>}
      BY <3>1, <3>2, <3>3
    <3>5. ASSUME NEW m \in Names PROVE table'[m].addr4 \in Lists[m] \cup {<<>>}
      BY <3>3, <3>4 DEF TypeOK
    <3> QED BY <3>3, <3>5
  <2>4. requests' \subseteq Request /\ replies' \subseteq Reply
    BY <1>5 DEF HandleEvent, Purge, TypeOK
  <2>5. events' \in Seq(Event)
    BY <1>5, HandleQueue
  <2> QED BY <1>5, <2>3, <2>4, <2>5 DEF HandleEvent, TypeOK
<1>6. ASSUME NEW r \in Sent, Send(r)
      PROVE  TypeOK'
  <2>1. requests' \subseteq Request /\ sent' \in 0 .. MaxSent
    BY <1>6, RelayAssumption DEF Send, TypeOK
  <2> QED BY <1>6, <2>1 DEF Send, TypeOK, kernelVars
<1>7. ASSUME NEW r \in requests, relayClientRequest(r)
      PROVE  TypeOK'
  <2>1. PICK out : /\ out \subseteq Relayed
                   /\ requests' = (requests \ {r}) \cup UNION {Echoes(u) : u \in out}
                   /\ upstream' = upstream \cup out
    <3> DEFINE copies == IF HopLimitReached(r) THEN {} ELSE {Copy(r, m) : m \in RelayedOn}
    <3>1. copies \subseteq Relayed
      BY CopyRelayed
    <3> QED BY <1>7, <3>1 DEF relayClientRequest
  <2>2. requests' \subseteq Request /\ upstream' \subseteq Relayed
    <3>1. \A u \in out : Echoes(u) \subseteq Request
      BY <2>1, EchoRequest
    <3> QED BY <2>1, <3>1 DEF TypeOK
  <2> QED BY <1>7, <2>2 DEF relayClientRequest, TypeOK, kernelVars
<1>8. ASSUME NEW u \in upstream, NEW m \in Masters, NEW c \in Ifindexes \cup {NoCircuit},
             Answer(u, m, c)
      PROVE  TypeOK'
  <2>1. [at |-> m, from |-> u.from, foreign |-> u.foreign, circuit |-> c] \in Reply
    BY DEF TypeOK, Relayed, Reply
  <2>2. replies' \subseteq Reply /\ upstream' \subseteq Relayed
    BY <1>8, <2>1 DEF Answer, TypeOK
  <2> QED BY <1>8, <2>2 DEF Answer, TypeOK, kernelVars
<1>9. ASSUME NEW p \in replies, NEW one \in BOOLEAN, relayServerResponse(p, one)
      PROVE  TypeOK'
  <2>1. clients' \subseteq [on : Slaves, gw : Addrs \cup {Router}]
    <3> SUFFICES ASSUME NEW t \in Slaves
                 PROVE  Payload(p, t, one) \in [on : Slaves, gw : Addrs \cup {Router}]
      BY <1>9 DEF relayServerResponse, Targets, Named
    <3>1. table[t].addr4 \in Seq(Address)
      BY DEF TypeOK, Row, Names
    <3>2. Gateway(t, one) \in Addrs \cup {Router}
      BY <3>1, LinkAddress DEF Gateway
    <3> QED BY <3>2 DEF Payload
  <2>2. replies' \subseteq Reply
    BY <1>9 DEF relayServerResponse, TypeOK
  <2> QED BY <1>9, <2>1, <2>2 DEF relayServerResponse, TypeOK, kernelVars
<1> QED BY <1>1, <1>2, <1>3, <1>4, <1>5, <1>6, <1>7, <1>8, <1>9 DEF Next

-----------------------------------------------------------------------------
(* The address cache.                                                      *)

\* Where no change of the cache is needed Next leaves kernel and table alone.
LEMMA Traffic ==
    ASSUME [Next]_vars
    PROVE  \/ \E n \in Names : \/ Recreate(n) \/ Carrier(n)
                               \/ \E list \in Lists[n] : AddrChange(n, list)
           \/ HandleEvent
           \/ UNCHANGED <<kernelVars, table>>
BY DEF Next, vars, Send, relayClientRequest, Answer, relayServerResponse

\* The table starts as the kernel is.
LEMMA CacheInit ==
    ASSUME Init
    PROVE  Overtaken /\ CacheFollows
<1>1. \A n \in Names : table[n].index = index[n] /\ table[n].addr4 = addrs[n]
  BY DEF Init
<1>2. Len(events) = 0
  BY DEF Init
<1> QED BY <1>1, <1>2 DEF Overtaken, CacheFollows

\* A row out of step with the kernel always has its notification on the way.
LEMMA CacheStep ==
    ASSUME TypeOK, Overtaken, CacheFollows, [Next]_vars
    PROVE  Overtaken' /\ CacheFollows'
<1>1. ASSUME NEW n \in Names, NEW list \in Lists[n], AddrChange(n, list)
      PROVE  Overtaken' /\ CacheFollows'
  <2>1. PICK e \in Event : e = [type |-> "addr", name |-> n, index |-> index[n]]
    BY DEF TypeOK, Event
  <2>2. /\ events' = Append(events, e) /\ e.name = n /\ e.index = index[n]
        /\ index' = index /\ table' = table
    BY <1>1, <2>1 DEF AddrChange
  <2>3. /\ Len(events') = Len(events) + 1 /\ events'[Len(events) + 1] = e
        /\ \A k \in 1 .. Len(events) : events'[k] = events[k]
    BY <2>2, Posted DEF TypeOK
  <2>4. Len(events) \in Nat
    BY DEF TypeOK
  <2>5. Overtaken'
    BY <2>2, <2>3, <2>4 DEF Overtaken
  <2>6. Pending(n)'
    BY <2>2, <2>3, <2>4 DEF Pending
  <2>7. \A m \in Names : (LinkPending(m) => LinkPending(m)') /\ (Pending(m) => Pending(m)')
    BY <2>3, <2>4 DEF LinkPending, Pending
  <2>8. \A m \in Names : m # n => addrs'[m] = addrs[m]
    BY <1>1 DEF AddrChange, TypeOK
  <2> QED BY <2>2, <2>5, <2>6, <2>7, <2>8 DEF CacheFollows
<1>2. ASSUME NEW n \in Names, Recreate(n)
      PROVE  Overtaken' /\ CacheFollows'
  <2>1. PICK i \in Ifindexes :
          /\ index' = [index EXCEPT ![n] = i]
          /\ events' = Append(events, [type |-> "link", name |-> n, index |-> i])
          /\ table' = table /\ addrs' = addrs
    BY <1>2 DEF Recreate
  <2>2. PICK e \in Event : e = [type |-> "link", name |-> n, index |-> i]
    BY DEF Event
  <2>3. /\ Len(events') = Len(events) + 1 /\ events'[Len(events) + 1] = e
        /\ \A k \in 1 .. Len(events) : events'[k] = events[k]
    BY <2>1, <2>2, Posted DEF TypeOK
  <2>4. Len(events) \in Nat
    BY DEF TypeOK
  <2>5. e.type = "link" /\ e.name = n /\ e.index = i
    BY <2>2
  <2>6. index'[n] = i /\ \A m \in Names : m # n => index'[m] = index[m]
    BY <2>1 DEF TypeOK
  <2>7. Overtaken'
    <3> SUFFICES ASSUME NEW q \in 1 .. Len(events')
                 PROVE  \/ events'[q].index = index'[events'[q].name]
                        \/ \E k \in q + 1 .. Len(events') :
                             events'[k].type = "link" /\ events'[k].name = events'[q].name
      BY DEF Overtaken
    <3>1. CASE q = Len(events) + 1
      BY <2>3, <2>5, <2>6, <3>1
    <3>2. CASE q # Len(events) + 1
      <4>1. q \in 1 .. Len(events) /\ events'[q] = events[q] /\ events[q].name \in Names
        <5>1. q \in 1 .. Len(events)
          BY <2>3, <2>4, <3>2
        <5>2. events[q] \in Event
          BY <5>1 DEF TypeOK
        <5> QED BY <2>3, <5>1, <5>2 DEF Event
      <4>2. CASE events[q].name = n
        BY <2>3, <2>4, <2>5, <4>1, <4>2
      <4>3. CASE events[q].name # n
        <5>1. CASE events[q].index = index[events[q].name]
          BY <2>6, <4>1, <4>3, <5>1
        <5>2. CASE \E k \in q + 1 .. Len(events) :
                     events[k].type = "link" /\ events[k].name = events[q].name
          BY <2>3, <2>4, <4>1, <5>2
        <5> QED BY <4>1, <5>1, <5>2 DEF Overtaken
      <4> QED BY <4>2, <4>3
    <3> QED BY <3>1, <3>2
  <2>8. LinkPending(n)' /\ Pending(n)'
    BY <2>3, <2>4, <2>5 DEF LinkPending, Pending
  <2>9. \A m \in Names : (LinkPending(m) => LinkPending(m)') /\ (Pending(m) => Pending(m)')
    BY <2>3, <2>4 DEF LinkPending, Pending
  <2>10. ASSUME NEW m \in Names
         PROVE  /\ table'[m].index = index'[m] \/ LinkPending(m)'
                /\ table'[m].addr4 = addrs'[m] \/ Pending(m)'
    <3>1. CASE m = n
      BY <2>8, <3>1
    <3>2. CASE m # n
      BY <2>1, <2>6, <2>9, <3>2 DEF CacheFollows
    <3> QED BY <3>1, <3>2
  <2> QED BY <2>7, <2>10 DEF CacheFollows
<1>3. ASSUME NEW n \in Names, Carrier(n)
      PROVE  Overtaken' /\ CacheFollows'
  <2>1. index' = index /\ addrs' = addrs /\ events' = events
    BY <1>3 DEF Carrier, kernelVars
  <2>2. LinkPending(n) => Pending(n)
    BY DEF LinkPending, Pending
  <2>3. \/ table'[n].addr4 = table[n].addr4
        \/ table'[n].addr4 = addrs[n]
        \/ LinkPending(n)
    BY <1>3, CarrierTable DEF fetchAddr4, CacheFollows
  <2>4. /\ \A m \in Names : table'[m].index = table[m].index
        /\ \A m \in Names : m # n => table'[m].addr4 = table[m].addr4
    BY <1>3, CarrierTable
  <2>5. \A m \in Names : (LinkPending(m)' <=> LinkPending(m)) /\ (Pending(m)' <=> Pending(m))
    BY <2>1 DEF LinkPending, Pending
  <2>6. Overtaken'
    BY <2>1 DEF Overtaken
  <2> QED BY <2>1, <2>2, <2>3, <2>4, <2>5, <2>6 DEF CacheFollows
<1>4. ASSUME HandleEvent
      PROVE  Overtaken' /\ CacheFollows'
  <2>1. PICK e \in Event : e = events[1]
    BY <1>4, HandleQueue
  <2>2. PICK n \in Names : n = e.name
    BY DEF Event
  <2>3. /\ Len(events) \in Nat /\ Len(events) >= 1 /\ Len(events') = Len(events) - 1
        /\ \A q \in 1 .. Len(events') : events'[q] = events[q + 1]
    BY <1>4, HandleQueue DEF TypeOK
  <2>4. index' = index /\ addrs' = addrs
    BY <1>4 DEF HandleEvent
  <2>5. ASSUME NEW q \in 1 .. Len(events), q # 1
        PROVE  q - 1 \in 1 .. Len(events') /\ events'[q - 1] = events[q]
    <3>1. PICK k \in Int : k = q - 1
      BY <2>3
    <3>2. k \in 1 .. Len(events') /\ k + 1 = q
      BY <2>3, <2>5, <3>1
    <3>3. events'[k] = events[q]
      BY <2>3, <3>2
    <3> QED BY <3>1, <3>2, <3>3
  <2>6. Overtaken'
    <3> SUFFICES ASSUME NEW q \in 1 .. Len(events')
                 PROVE  \/ events'[q].index = index'[events'[q].name]
                        \/ \E k \in q + 1 .. Len(events') :
                             events'[k].type = "link" /\ events'[k].name = events'[q].name
      BY DEF Overtaken
    <3>1. events'[q] = events[q + 1] /\ q + 1 \in 1 .. Len(events)
      BY <2>3
    <3>2. CASE events[q + 1].index = index[events[q + 1].name]
      BY <2>4, <3>1, <3>2
    <3>3. CASE \E k \in q + 2 .. Len(events) :
                 events[k].type = "link" /\ events[k].name = events[q + 1].name
      <4>1. PICK k \in q + 2 .. Len(events) :
               events[k].type = "link" /\ events[k].name = events[q + 1].name
        BY <3>3
      <4>2. k - 1 \in q + 1 .. Len(events') /\ events'[k - 1] = events[k]
        BY <2>3, <2>5
      <4> QED BY <3>1, <4>1, <4>2
    <3> QED BY <3>1, <3>2, <3>3 DEF Overtaken
  <2>7. ASSUME NEW m \in Names, m # n
        PROVE  (LinkPending(m) => LinkPending(m)') /\ (Pending(m) => Pending(m)')
    <3>1. \A q \in 1 .. Len(events) : events[q].name = m => q # 1
      BY <2>1, <2>2, <2>7
    <3> QED BY <2>5, <3>1 DEF LinkPending, Pending
  <2>8. e.type = "addr" => (LinkPending(n) => LinkPending(n)')
    BY <2>1, <2>5 DEF LinkPending
  <2>9. e.index = index[n] \/ LinkPending(n)'
    <3>1. CASE \E k \in 2 .. Len(events) : events[k].type = "link" /\ events[k].name = n
      BY <2>5, <3>1 DEF LinkPending
    <3> QED BY <2>1, <2>2, <2>3, <3>1 DEF Overtaken
  <2>10. LinkPending(n)' => Pending(n)'
    BY DEF LinkPending, Pending
  <2>11. /\ \A m \in Names : m # n => table'[m] = table[m]
         /\ table'[n].index = IF e.type = "link" THEN e.index ELSE table[n].index
         /\ \/ table'[n].addr4 = fetchAddr4(n, e.index)
            \/ table[n].index # e.index /\ e.type = "addr" /\ table'[n] = table[n]
    BY <1>4, <2>1, <2>2, HandleTable
  <2>12. table'[n].index = index[n] \/ LinkPending(n)'
    BY <2>8, <2>9, <2>11 DEF CacheFollows, Event
  <2>13. table'[n].addr4 = addrs[n] \/ Pending(n)'
    BY <2>8, <2>9, <2>10, <2>11, <2>12 DEF fetchAddr4
  <2> QED BY <2>4, <2>6, <2>7, <2>11, <2>12, <2>13 DEF CacheFollows
<1>5. CASE UNCHANGED <<kernelVars, table>>
  BY <1>5 DEF kernelVars, Overtaken, CacheFollows, LinkPending, Pending
<1> QED BY <1>1, <1>2, <1>3, <1>4, <1>5, Traffic

-----------------------------------------------------------------------------
(* Indexes and circuit-ids.                                                *)

\* The netdevs start with indexes of their own.
LEMMA IndexInit ==
    ASSUME Init
    PROVE  IndexesOwned
<1>1. \A n \in Names : table[n].index = index[n] /\ index[n] \in Ifindexes
  BY RelayAssumption DEF Init
<1>2. Len(events) = 0
  BY DEF Init
<1>3. \A n \in Names, i \in Ifindexes : Claims(i, n) => index[n] = i
  BY <1>1, <1>2 DEF Claims
<1>4. \A n, m \in Names : index[n] = index[m] => n = m
  BY RelayAssumption DEF Init, IsInjective
<1>5. Ifindexes \subseteq Nat
  BY RelayAssumption
<1> QED BY <1>3, <1>4, <1>5 DEF IndexesOwned

\* A step claims no new index, or a re-creation claims one greater than all.
LEMMA ClaimStep ==
    ASSUME TypeOK, [Next]_vars
    PROVE  \/ /\ index' = index
              /\ \A i \in Ifindexes, m \in Names : Claims(i, m)' => Claims(i, m)
           \/ \E n \in Names, new \in Ifindexes :
                 /\ index' = [index EXCEPT ![n] = new]
                 /\ \A m \in Names : index[m] < new
                 /\ \A i \in Ifindexes, m \in Names :
                       Claims(i, m)' => Claims(i, m) \/ (m = n /\ i = new)
<1> DEFINE Kept == /\ index' = index
                   /\ \A i \in Ifindexes, m \in Names : Claims(i, m)' => Claims(i, m)
<1>1. ASSUME NEW n \in Names, NEW list \in Lists[n], AddrChange(n, list)
      PROVE  Kept
  <2>1. PICK e \in Event : e = [type |-> "addr", name |-> n, index |-> index[n]]
    BY DEF TypeOK, Event
  <2>2. events' = Append(events, e) /\ e.type = "addr" /\ index' = index /\ table' = table
    BY <1>1, <2>1 DEF AddrChange
  <2>3. /\ Len(events') = Len(events) + 1 /\ events'[Len(events) + 1] = e
        /\ \A k \in 1 .. Len(events) : events'[k] = events[k]
        /\ Len(events) \in Nat
    BY <2>2, Posted DEF TypeOK
  <2>4. \A q \in 1 .. Len(events') :
          events'[q].type = "link" => q \in 1 .. Len(events) /\ events'[q] = events[q]
    BY <2>2, <2>3
  <2> QED BY <2>2, <2>4 DEF Claims
<1>2. ASSUME NEW n \in Names, Recreate(n)
      PROVE  \E new \in Ifindexes :
                 /\ index' = [index EXCEPT ![n] = new]
                 /\ \A m \in Names : index[m] < new
                 /\ \A i \in Ifindexes, m \in Names :
                       Claims(i, m)' => Claims(i, m) \/ (m = n /\ i = new)
  <2>1. PICK i \in Ifindexes :
          /\ \A m \in Names : index[m] < i
          /\ index' = [index EXCEPT ![n] = i]
          /\ events' = Append(events, [type |-> "link", name |-> n, index |-> i])
          /\ table' = table
    BY <1>2 DEF Recreate
  <2>2. PICK e \in Event : e = [type |-> "link", name |-> n, index |-> i]
    BY DEF Event
  <2>3. /\ Len(events') = Len(events) + 1 /\ events'[Len(events) + 1] = e
        /\ \A k \in 1 .. Len(events) : events'[k] = events[k]
        /\ Len(events) \in Nat
    BY <2>1, <2>2, Posted DEF TypeOK
  <2>4. \A q \in 1 .. Len(events') :
          \/ q \in 1 .. Len(events) /\ events'[q] = events[q]
          \/ events'[q].name = n /\ events'[q].index = i
    BY <2>2, <2>3
  <2>5. index'[n] = i /\ \A m \in Names : m # n => index'[m] = index[m]
    BY <2>1 DEF TypeOK
  <2>6. ASSUME NEW j \in Ifindexes, NEW m \in Names, Claims(j, m)'
        PROVE  Claims(j, m) \/ (m = n /\ j = i)
    <3>1. CASE index'[m] = j
      BY <2>5, <3>1 DEF Claims
    <3>2. CASE table'[m].index = j
      BY <2>1, <3>2 DEF Claims
    <3>3. CASE \E q \in 1 .. Len(events') :
                 events'[q].type = "link" /\ events'[q].name = m /\ events'[q].index = j
      BY <2>4, <3>3 DEF Claims
    <3> QED BY <2>6, <3>1, <3>2, <3>3 DEF Claims
  <2> QED BY <2>1, <2>6
<1>3. ASSUME NEW n \in Names, Carrier(n)
      PROVE  Kept
  <2>1. index' = index /\ events' = events
    BY <1>3 DEF Carrier, kernelVars
  <2>2. \A m \in Names : table'[m].index = table[m].index
    BY <1>3, CarrierTable
  <2> QED BY <2>1, <2>2 DEF Claims
<1>4. ASSUME HandleEvent
      PROVE  Kept
  <2>1. PICK e \in Event : e = events[1]
    BY <1>4, HandleQueue
  <2>2. PICK n \in Names : n = e.name
    BY DEF Event
  <2>3. /\ Len(events) \in Nat /\ Len(events) >= 1 /\ Len(events') = Len(events) - 1
        /\ \A q \in 1 .. Len(events') : events'[q] = events[q + 1]
    BY <1>4, HandleQueue DEF TypeOK
  <2>4. \A q \in 1 .. Len(events') : q + 1 \in 1 .. Len(events) /\ events'[q] = events[q + 1]
    BY <2>3
  <2>5. index' = index
    BY <1>4 DEF HandleEvent
  <2>6. /\ \A m \in Names : m # n => table'[m] = table[m]
        /\ table'[n].index = IF e.type = "link" THEN e.index ELSE table[n].index
    BY <1>4, <2>1, <2>2, HandleTable
  <2>7. ASSUME NEW i \in Ifindexes, NEW m \in Names, Claims(i, m)'
        PROVE  Claims(i, m)
    <3>1. CASE index'[m] = i
      BY <2>5, <3>1 DEF Claims
    <3>2. CASE table'[m].index = i
      <4>1. CASE m = n /\ e.type = "link"
        <5>1. e.index = i
          BY <2>6, <3>2, <4>1
        <5>2. 1 \in 1 .. Len(events)
          BY <2>3
        <5> QED BY <2>1, <2>2, <4>1, <5>1, <5>2 DEF Claims
      <4>2. CASE ~ (m = n /\ e.type = "link")
        BY <2>6, <3>2, <4>2 DEF Claims
      <4> QED BY <4>1, <4>2
    <3>3. CASE \E q \in 1 .. Len(events') :
                 events'[q].type = "link" /\ events'[q].name = m /\ events'[q].index = i
      BY <2>4, <3>3 DEF Claims
    <3> QED BY <2>7, <3>1, <3>2, <3>3 DEF Claims
  <2> QED BY <2>5, <2>7
<1>5. CASE UNCHANGED <<kernelVars, table>>
  BY <1>5 DEF kernelVars, Claims
<1> QED BY <1>1, <1>2, <1>3, <1>4, <1>5, Traffic

\* No step lets two netdevs claim one index.
LEMMA IndexStep ==
    ASSUME TypeOK, IndexesOwned, [Next]_vars
    PROVE  IndexesOwned'
<1>1. index \in [Names -> Ifindexes] /\ Ifindexes \subseteq Nat
  BY RelayAssumption DEF TypeOK
<1>2. CASE /\ index' = index
           /\ \A i \in Ifindexes, m \in Names : Claims(i, m)' => Claims(i, m)
  BY <1>2 DEF IndexesOwned
<1>3. ASSUME NEW n \in Names, NEW new \in Ifindexes,
             index' = [index EXCEPT ![n] = new], \A m \in Names : index[m] < new,
             \A i \in Ifindexes, m \in Names :
                 Claims(i, m)' => Claims(i, m) \/ (m = n /\ i = new)
      PROVE  IndexesOwned'
  <2>1. index'[n] = new /\ \A m \in Names : m # n => index'[m] = index[m]
    BY <1>1, <1>3
  <2>2. ASSUME NEW m \in Names, Claims(new, m)
        PROVE  FALSE
    <3>1. new <= index[m] /\ index[m] < new
      BY <1>3, <2>2 DEF IndexesOwned
    <3>2. index[m] \in Nat /\ new \in Nat
      BY <1>1
    <3> QED BY <3>1, <3>2
  <2>3. ASSUME NEW i \in Ifindexes, NEW m \in Names, Claims(i, m)'
        PROVE  i <= index'[m] /\ \A k \in Names : Claims(i, k)' => k = m
    <3>1. CASE Claims(i, m)
      <4>1. i <= index[m] /\ i # new /\ \A k \in Names : Claims(i, k) => k = m
        BY <2>2, <3>1 DEF IndexesOwned
      <4>2. i \in Nat /\ index[m] \in Nat /\ new \in Nat /\ index[m] < new
        BY <1>1, <1>3
      <4>3. i <= index'[m]
        <5>1. index'[m] = index[m] \/ index'[m] = new
          BY <2>1
        <5> QED BY <4>1, <4>2, <5>1
      <4> QED BY <1>3, <4>1, <4>3
    <3>2. CASE m = n /\ i = new
      BY <1>1, <1>3, <2>1, <2>2, <3>2
    <3> QED BY <1>3, <2>3, <3>1, <3>2
  <2> QED BY <2>3 DEF IndexesOwned
<1> QED BY <1>2, <1>3, ClaimStep

\* A circuit-id that was the slave's own stays so: a re-created netdev takes an
\* index that no circuit-id on its way can be.
LEMMA StampKept ==
    ASSUME TypeOK, [Next]_vars, NEW s \in Slaves, NEW c \in Ifindexes \cup {NoCircuit},
           Stamped(c, s)
    PROVE  Stamped(c, s)'
<1> SUFFICES ASSUME c # NoCircuit
             PROVE  c <= index'[s] /\ \A n \in Names : Claims(c, n)' => n = s
  BY DEF Stamped
<1>1. /\ index \in [Names -> Ifindexes] /\ Ifindexes \subseteq Nat /\ s \in Names
      /\ c \in Ifindexes
  BY RelayAssumption DEF TypeOK, Names
<1>2. c <= index[s] /\ \A n \in Names : Claims(c, n) => n = s
  BY DEF Stamped
<1>3. CASE /\ index' = index
           /\ \A i \in Ifindexes, m \in Names : Claims(i, m)' => Claims(i, m)
  BY <1>1, <1>2, <1>3
<1>4. ASSUME NEW n \in Names, NEW new \in Ifindexes,
             index' = [index EXCEPT ![n] = new], \A m \in Names : index[m] < new,
             \A i \in Ifindexes, m \in Names :
                 Claims(i, m)' => Claims(i, m) \/ (m = n /\ i = new)
      PROVE  c <= index'[s] /\ \A m \in Names : Claims(c, m)' => m = s
  <2>1. index[s] \in Nat /\ new \in Nat /\ c \in Nat /\ index[s] < new
    BY <1>1, <1>4
  <2>2. index'[s] = new \/ index'[s] = index[s]
    BY <1>1, <1>4
  <2>3. c <= index'[s] /\ c # new
    BY <1>2, <2>1, <2>2
  <2> QED BY <1>1, <1>2, <1>4, <2>3
<1> QED BY <1>3, <1>4, ClaimStep

\* The copy of a client's request is stamped for the slave it was heard on.
LEMMA CopyStamped ==
    ASSUME TypeOK, IndexesOwned, RequestsStamped,
           NEW r \in requests, ~r.foreign, NEW m \in RelayedOn
    PROVE  Stamped(Circuit(r), r.from) /\ (r.fits => Circuit(r) # NoCircuit)
<1>1. /\ r \in Request /\ r.from \in Names /\ r.in \in Names /\ table[r.in].index \in Ifindexes
      /\ Stamped(r.circuit, r.from)
  BY DEF TypeOK, Request, Names, Row, RequestsStamped
<1>2. CASE r.circuit = NoCircuit /\ r.fits
  <2>1. PICK i \in Ifindexes : i = table[r.from].index /\ i = Circuit(r)
    BY <1>1, <1>2 DEF Circuit, RequestsStamped
  <2>2. Claims(i, r.from)
    BY <2>1 DEF Claims
  <2>3. Stamped(i, r.from)
    BY <1>1, <2>2 DEF IndexesOwned, Stamped
  <2>4. i # NoCircuit
    BY RelayAssumption DEF NoCircuit
  <2> QED BY <2>1, <2>3, <2>4
<1>3. CASE ~ (r.circuit = NoCircuit /\ r.fits)
  BY <1>1, <1>3 DEF Circuit
<1> QED BY <1>2, <1>3

\* At first no message is on its way.
LEMMA StampInit ==
    ASSUME Init
    PROVE  RequestsStamped /\ UpstreamStamped /\ RepliesStamped
BY DEF Init, RequestsStamped, UpstreamStamped, RepliesStamped

\* Whatever is on its way for a client carries that client's slave or nothing.
LEMMA StampStep ==
    ASSUME TypeOK, IndexesOwned, RequestsStamped, UpstreamStamped, RepliesStamped, [Next]_vars
    PROVE  RequestsStamped' /\ UpstreamStamped' /\ RepliesStamped'
<1> DEFINE ReqOK(r) == /\ Stamped(r.circuit, r.from)'
                       /\ r.circuit = NoCircuit /\ r.fits => r.in = r.from
                       /\ r.hops = 0 => r.giaddr = NoAddr
           UpOK(u) == Stamped(u.circuit, u.from)' /\ (u.fits => u.circuit # NoCircuit)
           RepOK(p) == Stamped(p.circuit, p.from)'
<1>1. ASSUME NEW r \in requests, ~r.foreign PROVE ReqOK(r)
  <2>1. r.from \in Slaves /\ r.circuit \in Ifindexes \cup {NoCircuit}
    BY DEF TypeOK, Request
  <2> QED BY <1>1, <2>1, StampKept DEF RequestsStamped
<1>2. ASSUME NEW u \in upstream, ~u.foreign PROVE UpOK(u)
  <2>1. u.from \in Slaves /\ u.circuit \in Ifindexes \cup {NoCircuit}
    BY DEF TypeOK, Relayed
  <2> QED BY <1>2, <2>1, StampKept DEF UpstreamStamped
<1>3. ASSUME NEW p \in replies, ~p.foreign PROVE RepOK(p)
  <2>1. p.from \in Slaves /\ p.circuit \in Ifindexes \cup {NoCircuit}
    BY DEF TypeOK, Reply
  <2> QED BY <1>3, <2>1, StampKept DEF RepliesStamped
<1>4. ASSUME requests' \subseteq requests PROVE RequestsStamped'
  BY <1>1, <1>4 DEF RequestsStamped
<1>5. ASSUME upstream' \subseteq upstream PROVE UpstreamStamped'
  BY <1>2, <1>5 DEF UpstreamStamped
<1>6. ASSUME replies' \subseteq replies PROVE RepliesStamped'
  BY <1>3, <1>6 DEF RepliesStamped
<1>7. ASSUME NEW r \in Sent, Send(r)
      PROVE  RequestsStamped' /\ UpstreamStamped' /\ RepliesStamped'
  <2>1. ~r.foreign => ReqOK(r)
    BY RelayAssumption DEF Stamped
  <2>2. requests' = requests \cup {r}
    BY <1>7 DEF Send
  <2>3. RequestsStamped'
    <3> HIDE DEF ReqOK
    <3>1. \A x \in requests' : ~x.foreign => ReqOK(x)
      BY <1>1, <2>1, <2>2
    <3> USE DEF ReqOK
    <3> QED BY <3>1 DEF RequestsStamped
  <2> QED BY <1>5, <1>6, <1>7, <2>3 DEF Send
<1>8. ASSUME NEW r \in requests, relayClientRequest(r)
      PROVE  RequestsStamped' /\ UpstreamStamped' /\ RepliesStamped'
  <2>1. PICK out : /\ \A u \in out : \E m \in RelayedOn : u = Copy(r, m) /\ u \in Relayed
                   /\ requests' = (requests \ {r}) \cup UNION {Echoes(u) : u \in out}
                   /\ upstream' = upstream \cup out
    <3> DEFINE copies == IF HopLimitReached(r) THEN {} ELSE {Copy(r, m) : m \in RelayedOn}
    <3>1. \A u \in copies : \E m \in RelayedOn : u = Copy(r, m) /\ u \in Relayed
      BY CopyRelayed
    <3> QED BY <1>8, <3>1 DEF relayClientRequest
  <2>2. ASSUME NEW u \in out, ~u.foreign
        PROVE  UpOK(u) /\ u \in Relayed
    <3>1. PICK m \in RelayedOn : u = Copy(r, m) /\ u \in Relayed
      BY <2>1
    <3>2. /\ u.foreign = r.foreign /\ u.from = r.from /\ u.fits = r.fits
          /\ u.circuit = Circuit(r)
      BY <3>1 DEF Copy
    <3>3. Stamped(Circuit(r), r.from) /\ (r.fits => Circuit(r) # NoCircuit)
      BY <2>2, <3>2, CopyStamped
    <3>4. u.from \in Slaves /\ u.circuit \in Ifindexes \cup {NoCircuit}
      BY <3>1 DEF Relayed
    <3>5. PICK c \in Ifindexes \cup {NoCircuit} : c = u.circuit
      BY <3>4
    <3>6. PICK s \in Slaves : s = u.from
      BY <3>4
    <3>7. Stamped(c, s)
      BY <3>2, <3>3, <3>5, <3>6
    <3>8. Stamped(c, s)'
      BY <3>7, StampKept
    <3> QED BY <3>1, <3>2, <3>3, <3>5, <3>6, <3>8
  <2>3. ASSUME NEW u \in out, NEW e \in Echoes(u), ~e.foreign
        PROVE  ReqOK(e)
    <3>1. /\ e.from = u.from /\ e.foreign = u.foreign /\ e.fits = u.fits
          /\ e.hops = u.hops /\ e.circuit = u.circuit
      <4>1. PICK s \in Slaves :
              e = [in |-> s, from |-> u.from, foreign |-> u.foreign, fits |-> u.fits,
                   hops |-> u.hops, giaddr |-> u.giaddr, circuit |-> u.circuit]
        BY DEF Echoes
      <4> QED BY <4>1
    <3>2. UpOK(u) /\ u \in Relayed
      BY <2>2, <2>3, <3>1
    <3>3. u.hops # 0
      BY <3>2, RelayAssumption DEF Relayed
    <3> QED BY <3>1, <3>2, <3>3
  <2>4. RequestsStamped'
    <3> HIDE DEF ReqOK
    <3>1. ASSUME NEW x \in requests', ~x.foreign PROVE ReqOK(x)
      <4>1. x \in requests \/ \E u \in out : x \in Echoes(u)
        BY <2>1
      <4> QED BY <1>1, <2>3, <3>1, <4>1
    <3> USE DEF ReqOK
    <3> QED BY <3>1 DEF RequestsStamped
  <2>5. UpstreamStamped'
    <3> HIDE DEF UpOK
    <3>1. \A x \in upstream' : ~x.foreign => UpOK(x)
      BY <1>2, <2>1, <2>2
    <3> USE DEF UpOK
    <3> QED BY <3>1 DEF UpstreamStamped
  <2> QED BY <1>6, <1>8, <2>4, <2>5 DEF relayClientRequest
<1>9. ASSUME NEW u \in upstream, NEW m \in Masters, NEW c \in Ifindexes \cup {NoCircuit},
             Answer(u, m, c)
      PROVE  RequestsStamped' /\ UpstreamStamped' /\ RepliesStamped'
  <2>1. PICK p : p = [at |-> m, from |-> u.from, foreign |-> u.foreign, circuit |-> c]
    OBVIOUS
  <2>2. replies' = replies \cup {p} /\ (c = u.circuit \/ c = NoCircuit)
    BY <1>9, <2>1 DEF Answer
  <2>3. ~p.foreign => RepOK(p)
    BY <1>2, <2>1, <2>2 DEF Stamped
  <2>4. RepliesStamped'
    <3> HIDE DEF RepOK
    <3>1. \A x \in replies' : ~x.foreign => RepOK(x)
      BY <1>3, <2>2, <2>3
    <3> USE DEF RepOK
    <3> QED BY <3>1 DEF RepliesStamped
  <2>5. requests' \subseteq requests /\ upstream' \subseteq upstream
    BY <1>9 DEF Answer
  <2> QED BY <1>4, <1>5, <2>4, <2>5
<1>10. CASE \/ \E n \in Names : \/ Recreate(n) \/ Carrier(n)
                                \/ \E list \in Lists[n] : AddrChange(n, list)
            \/ HandleEvent
            \/ \E p \in replies, one \in BOOLEAN : relayServerResponse(p, one)
            \/ UNCHANGED vars
  <2>1. /\ requests' \subseteq requests /\ upstream' \subseteq upstream
        /\ replies' \subseteq replies
    BY <1>10 DEF Recreate, Carrier, AddrChange, HandleEvent, relayServerResponse, Purge,
                 vars, netVars
  <2> QED BY <1>4, <1>5, <1>6, <2>1
<1> QED BY <1>7, <1>8, <1>9, <1>10 DEF Next

-----------------------------------------------------------------------------
(* The theorems.                                                           *)

\* The invariant holds at first.
LEMMA RelayInvInit == Init => RelayInv
BY RelayTypeInit, CacheInit, IndexInit, StampInit DEF RelayInv

\* Every step keeps it.
LEMMA RelayInvStep == RelayInv /\ [Next]_vars => RelayInv'
BY RelayTypeStep, CacheStep, IndexStep, StampStep DEF RelayInv

\* Every variable of the relay keeps its type, for every hop limit: in
\* particular no message relayed by relayClientRequest, and no echo of it on
\* another slave, has more hops than dhcpMaxHops.
THEOREM RelayTypeCorrect == Spec => []TypeOK
<1>1. RelayInv => TypeOK
  BY DEF RelayInv
<1> QED BY RelayInvInit, RelayInvStep, <1>1, PTL DEF Spec

\* With nothing left to handle the rows are what the kernel has.
LEMMA Fresh ==
    ASSUME RelayInv, events = <<>>, NEW n \in Names
    PROVE  table[n].index = index[n] /\ table[n].addr4 = addrs[n]
<1>1. Len(events) = 0
  OBVIOUS
<1>2. ~ LinkPending(n) /\ ~ Pending(n)
  BY <1>1 DEF LinkPending, Pending
<1> QED BY <1>2 DEF RelayInv, CacheFollows

\* The giaddr relayClientRequest writes into a client's message is an address
\* the master has, once every notification has been handled: no order of
\* address changes, re-creations, carrier losses and their late or overtaken
\* notifications leaves the address cache stale.
THEOREM GiaddrIsReachable == Spec => GiaddrReachable
<1> DEFINE Reaches == \A u \in upstream' \ upstream :
                         events = <<>> /\ u.hops = 1 /\ ~u.foreign => Has(u.on, u.giaddr)
<1>1. RelayInv /\ [Next]_vars => [Reaches]_vars
  <2> SUFFICES ASSUME RelayInv, [Next]_vars, NEW u \in upstream' \ upstream,
                      events = <<>>, u.hops = 1, ~u.foreign
               PROVE  Has(u.on, u.giaddr)
    OBVIOUS
  <2>1. PICK r \in requests : relayClientRequest(r)
    BY DEF Next, vars, netVars, Recreate, Carrier, AddrChange, HandleEvent, Send, Answer,
           relayServerResponse
  <2>2. PICK m \in RelayedOn : u = Copy(r, m)
    BY <2>1 DEF relayClientRequest
  <2>3. r \in Request /\ m \in Names /\ relayLinkAddress4(table[m].addr4) # NoAddr
    BY DEF RelayInv, TypeOK, RelayedOn, Names
  <2>4. r.hops + 1 = 1 /\ ~r.foreign /\ u.on = m
    BY <2>2 DEF Copy
  <2>5. r.hops = 0
    BY <2>3, <2>4, RelayAssumption DEF Request
  <2>6. u.giaddr = relayLinkAddress4(table[m].addr4)
    BY <2>2, <2>4, <2>5 DEF Copy, RelayInv, RequestsStamped
  <2>7. table[m].addr4 = addrs[m] /\ addrs[m] \in Seq(Address)
    BY <2>3, Fresh DEF RelayInv, TypeOK
  <2> QED BY <2>3, <2>4, <2>6, <2>7, LinkAddress DEF Has
<1> QED BY RelayInvInit, RelayInvStep, <1>1, PTL DEF Spec, GiaddrReachable

\* relayServerResponse delivers the reply to a client of slave s on s, whatever
\* was re-created since: an index is never claimed for two netdevs, so the
\* circuit-id names s or nobody.
THEOREM RepliesRouted == Spec => ReplyRouted
<1> DEFINE Routed == \A p \in replies, one \in BOOLEAN :
                        relayServerResponse(p, one) /\ Hears(p.from) /\ ~p.foreign =>
                            /\ \E d \in clients' : d.on = p.from
                            /\ p.circuit = table[p.from].index =>
                                  \A d \in clients' : d.on = p.from
<1>1. RelayInv => Routed
  <2> SUFFICES ASSUME RelayInv, NEW p \in replies,
                      NEW one \in BOOLEAN, relayServerResponse(p, one), Hears(p.from), ~p.foreign
               PROVE  /\ \E d \in clients' : d.on = p.from
                      /\ p.circuit = table[p.from].index => \A d \in clients' : d.on = p.from
    OBVIOUS
  <2>1. PICK s \in Slaves : s = p.from
    BY DEF RelayInv, TypeOK, Reply
  <2>2. p.circuit \in Ifindexes \cup {NoCircuit}
    BY DEF RelayInv, TypeOK, Reply
  <2>3. ASSUME NEW t \in Slaves, table[t].index = p.circuit
        PROVE  t = s
    <3>1. t \in Names /\ table[t].index \in Ifindexes
      BY DEF RelayInv, TypeOK, Row, Names
    <3>2. PICK c \in Ifindexes : c = p.circuit
      BY <2>3, <3>1
    <3>3. c # NoCircuit
      BY RelayAssumption DEF NoCircuit
    <3>4. Claims(c, t)
      BY <2>3, <3>2 DEF Claims
    <3>5. Stamped(c, s)
      BY <2>1, <3>2 DEF RelayInv, RepliesStamped
    <3> QED BY <3>1, <3>3, <3>4, <3>5 DEF Stamped
  <2>4. Named(p) \subseteq {s}
    BY <2>3 DEF Named
  <2>5. s \in Targets(p)
    BY <2>1, <2>4 DEF Targets, Hears
  <2>6. p.circuit = table[s].index => Targets(p) = {s}
    BY <2>4 DEF Targets, Named
  <2>7. /\ \A t \in Targets(p) : Payload(p, t, one).on = t
        /\ clients' = {Payload(p, t, one) : t \in {t \in Targets(p) : Hears(t)}}
    BY DEF relayServerResponse, Payload
  <2> QED BY <2>1, <2>5, <2>6, <2>7
<1> QED BY RelayInvInit, RelayInvStep, <1>1, PTL DEF Spec, ReplyRouted

\* Whenever no notification is outstanding, the gateway relayServerResponse writes
\* for a slave is that slave's own current address; a slave without one, and a reply
\* whose router option rewriteGateway refuses, keep what the server wrote.
THEOREM GatewaysOwn == Spec => GatewayOwn
<1> DEFINE Own == \A p \in replies, one \in BOOLEAN :
                     relayServerResponse(p, one) /\ events = <<>> =>
                         \A d \in clients' :
                             LET own == relayLinkAddress4(addrs[d.on])
                             IN  d.gw = IF own # NoAddr /\ one THEN own ELSE Router
<1>1. RelayInv => Own
  <2> SUFFICES ASSUME RelayInv, events = <<>>, NEW p \in replies, NEW one \in BOOLEAN,
                      relayServerResponse(p, one), NEW d \in clients'
               PROVE  d.gw = IF relayLinkAddress4(addrs[d.on]) # NoAddr /\ one
                             THEN relayLinkAddress4(addrs[d.on]) ELSE Router
    BY Zenon
  <2>1. PICK t \in Slaves : d = Payload(p, t, one)
    BY DEF relayServerResponse, Targets, Named
  <2>2. d.on = t /\ d.gw = Gateway(t, one)
    BY <2>1 DEF Payload
  <2>3. table[t].addr4 = addrs[t]
    BY Fresh DEF Names
  <2> QED BY <2>2, <2>3 DEF Gateway
<1> QED BY RelayInvInit, RelayInvStep, <1>1, PTL DEF Spec, GatewayOwn

=============================================================================
