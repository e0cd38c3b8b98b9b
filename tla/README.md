# A TLA+ verification of ipv4-relay

ipv4-relay joins downstream (slave, LAN) segments to an upstream (master, WAN)
broadcast domain: it relays DHCPv4 between them and makes the clients reachable
with proxy ARP and /32 host routes. This directory holds TLA+ models of its
logic, TLC configurations that check them on small instances, and TLAPS proofs
of the main safety properties for every instance. File names and line numbers
below refer to `src/internal/relay/`, `main.go` to `src/cmd/ipv4-relay/`.

## Inventory

| Component | State | Operations | Hard behaviour | Correct when |
|---|---|---|---|---|
| Proxy-ARP mirroring (`arp.go`) | kernel: NTF_PROXY entries, metric-1024 /32 routes, `proxy_arp` | `arpMirrorAddr`, `setupRoute4`, `setupProxyNeigh4`, `seedNeighbor4`, `deleteNeigh4`, `setProxyARP` | the tables are shared with the kernel, other programs and other keys of the same address | what is tracked is installed, what is installed is tracked |
| Neighbor handler (`netlink.go:418`) | `mirroredNeighs` | `handleNeighEvent` | events are snapshots, outdated when handled | a resolved host is mirrored |
| Route reconcile (`netlink.go:277-330`) | `reconcileScheduled` | `handleRouteEvent`, `scheduleReconcile`, `reconcileKernelState` | a burst of deletions races the debounce | a flush is always healed |
| Periodic sweep (`netlink.go:143-259`) | the running list | `sweepFailedAndOrphans`, `probeNeighbor` | lists, then acts while the kernel moves on; leftovers of an earlier run | dead clients go, live ones stay |
| Interface lifecycle (`config.go`, `netlink.go:334-406`) | `interfaces` | `Reload`, `parseInterfaceJSON`, `closeInterface`, `reloadServices`, `handleLinkEvent`, `clearMirroredState`, `arpSetup` | reloads and link events change the table under the mirrors and under each other | the table follows file and kernel, no mirror survives its interface |
| DHCP relay (`dhcpv4.go:436-659`, `iface.go:96`, `netlink.go:385`) | address cache `Addr4` | `relayClientRequest`, `relayServerResponse`, `sendDHCPv4`, `unmirrorClient`, `handleAddrEvent`, `relayLinkAddress4` | addresses, sockets and indexes change between request and reply; loops | the reply finds the relay and the client's slave |
| Options codec (`dhcpv4.go:245-434, 525-552`) | none | parse, insert, strip, rewrite | cut-off areas, lengths, pads, overloading | equals its reference |
| DHCP sockets (`dhcpv4.go:80-221`) | `Interface.dhcp`, descriptors, one goroutine per socket | `dhcpv4Setup`, `openDHCPSocket`, `dhcpReadLoop` | close under a blocked reader, descriptor reuse | no packet is misattributed, duplicated or lost to backlog |
| Engine, start-up, signals (`engine.go`, `main.go`) | a channel of 1024 closures, a channel of 4 signals | `Post`, `Run`, signal goroutine, timers | blocking senders, `Post` before `Run`, dropped signals | the daemon comes up, what is posted runs |
| Netlink monitor (`netlink.go:31-91`) | four subscriptions | forwarding goroutine | full channels, a subscription that fails | updates are handled in order, all of them |
| Logging, helpers; `tools/dhcp_probe.py` | - | - | input/output | not modelled |

All daemon state is touched by one goroutine only: socket readers, timers and
netlink subscriptions post closures to the engine. A closure is therefore
atomic with respect to the daemon, but not with respect to the kernel, whose
tables change at any time, and every event it handles is a message from the
past. `PROJECT.json` lists the hazards that follow from this, each at its line.

## Modules

| Module | Models | State |
|---|---|---|
| `Arp` | `arp.go`, the interface table, the kernel tables the daemon writes | `interfaces`, `proxyNeigh`, `hostRoute`, `routeEvents`, `proxyARP` |
| `NeighCache` (extends `Arp`) | the kernel's neighbor cache, `seedNeighbor4`, `deleteNeigh4` | `neigh`, `neighEvents` |
| `NeighMirror` (extends `NeighCache`) | the engine closures that drive the mirrors, and their environment | `mirroredNeighs`, `reconcileScheduled`, the running sweep, where hosts are, flushes |
| `HealingMirror` | abstract specification: what mirroring promises | `wanted`, `installed`, `owed` |
| `MirrorRestart` (extends `NeighMirror`) | the daemon stopped and started again | `restarts` |
| `Lifecycle` (extends `Arp`) | reloads, link events, services | `links`, `linkEvents`, `mirroredNeighs`, `reconcileScheduled`, the running `reload`, `abandoned` |
| `DHCPRelay` | requests, replies, the address cache | `index`, `addrs`, `events`, `table`, messages in flight |
| `DHCPOptions` | the options codec as functions on bytes | the area under test, by its parts |
| `DHCPSock` | sockets, descriptors, reader goroutines, the engine channel | `socks`, `dhcp`, `fdTable`, `inbox`, `reader`, `events`, packets and what became of them |
| `Engine` | goroutines and the bounded channel | `main`, `events`, subscriptions, `forwarder`, signals, timers |
| `NeighMirrorProofs`, `HealingProofs` | theorems about `NeighMirror` and its refinement of `HealingMirror` | |
| `LifecycleProofs`, `SettledProofs` | theorems about `Lifecycle` | |
| `DHCPRelayProofs`, `DHCPSockProofs`, `EngineProofs` | theorems about `DHCPRelay`, `DHCPSock`, `Engine` | |
| `OptionsProofs` | theorems about `DHCPOptions`, induction and recursion included | |
| `MCNeighMirror`, `MCMirrorRestart`, `MCLifecycle`, `MCDHCPRelay`, `MCDHCPOptions` | instances for TLC | |

**Arp** gives the effect of mirroring a *set* of keys at once: `InstallMirror`
and `RemoveMirror` are `arpMirrorAddr(_, _, true/false)` for each key.
`RoutesAfterReplace` is a set of possible outcomes because Go iterates over
maps in an arbitrary order and the last `RouteReplace` of an address wins.
`NeighMirror` (a fixed table, the details of neighbor events) and `Lifecycle` (a
changing table, neighbors that come and go at will) both build on it.

**NeighMirror** has one action per engine closure: `handleNeighEvent`,
`handleRouteEvent`, `reconcile` (the closure of the debounce timer),
`relayServerResponse` (a DHCPACK), `unmirrorClient` (a RELEASE or DECLINE). Only
the sweep is split: `SweepStart`, and per interface `SweepList` (NeighList) and
`SweepAct` (everything after it), so that the kernel can move in between; other
closures wait meanwhile (`EngineIdle`). The environment moves hosts, runs the
NUD state machine of each entry, and flushes routes and `proxy_arp`.

**HealingMirror** says what remains when the mechanism is taken away: hosts
appear and vanish with their mirror, damage done from outside leaves a repair
owed, a repair restores everything at once. `NeighMirror!Healing` maps `installed`
to the keys whose route and proxy-ARP entries are all present and `owed` to a
scheduled reconcile or a pending RTM_DELROUTE; `HealsItself` is the refinement.

**MirrorRestart** adds one action: the process ends at any moment, a sweep in
progress included. What the daemon knew and what was queued for it is lost; the
neighbor cache, the routes and the proxy-ARP entries stay.

**Lifecycle** runs every handler as one step except `Reload`, which reads each
netdev from the kernel as it goes: `ReloadStart`, `parseInterfaceJSON` per config
key in any order, `ReloadModes` (masters without slaves), `ReloadServe` per
interface. Link events queue up meanwhile. The optional JSON values are sets of
at most one element. `abandoned` records the indexes where the code leaves
something behind: closed interfaces and those whose routing was switched off.
`handleRouteEvent` and `reconcile` are the steps `NeighMirror` has, here with a
table that may change before the timer fires.

**DHCPRelay** keeps what the routing of a message depends on: where it was heard,
hops, giaddr, circuit-id, whether option 82 fits. The kernel's addresses and the
daemon's cache of them are separate. A reply either names one router, which
`rewriteGateway` replaces by the slave's address, or it does not (option 3 absent,
or with several addresses), and then stays as the server wrote it; `DHCPOptions`
has the bytes of both. The broadcast flag only chooses the
destination address on the segment and is left out, as is the early return for
a reply without options.

**DHCPOptions** translates each Go loop into a recursive function of the variables
the loop assigns (the offset, and what was collected so far) and compares it with
a definition over the *parts* the area was built from. `Whole` is the pair of
length checks every walk makes. `rewriteGateway` is checked on the output of `stripAgentInfo`, where the
code uses it.

**DHCPSock** tells descriptor numbers from the sockets behind them: a blocked
`recvfrom` keeps its socket alive after `close`, and a later `recvfrom` resolves
the number anew. `dhcpv4Setup` closes and opens in one step; a reader scheduled
between the two would get EBADF and exit, a state also reached when it looks at
`done` first.

**Engine** has one action per point where a goroutine can block: `main` posts and
then drains, the forwarder receives and posts, the signal goroutine receives and
posts, the timers post. Updates are numbered per subscription. Nothing bounds
what the monitor posts before `main` starts to drain: `Stuck` is the state in which
`main` itself waits for room.

### Assumptions about the kernel, the network and the runtime

- RouteReplace keeps one route per address and metric; RouteDel names the
  interface and fails (ESRCH, ignored) for a route through another one.
- NeighDel of a resolved entry announces FAILED before it removes it; garbage
  collection only sends RTM_DELNEIGH, which `handleNeighEvent` ignores.
- `probeNeighbor` has no effect on an entry that is no longer valid.
- A netdev that goes down loses its routes (without an RTM_DELROUTE) and its
  NTF_PROXY entries; indexes are not reused; a netdev comes into being running.
- In `NeighMirror` no netlink notification is lost, and those of one key arrive
  in order (`Engine!InOrder`, `Engine!UpdateHandled`). Nothing is assumed about the
  order between keys, which allows more than the single netlink queue does.
- netlink and sysctl requests succeed, apart from ESRCH and ENOENT, and in
  `Lifecycle` apart from netdevs that are gone or down.
- DELAY counts as STALE, PERMANENT and NOARP as REACHABLE. Loopback and
  multicast addresses are left out.
- `NeighMirror` starts with an empty neighbor cache and the interface table of
  its first Reload, which then stays.
- A server answers while the client is there: an ACK that is late is covered by
  the client leaving right after it.
- A UDP broadcast reaches every socket bound to the interface and port, a
  unicast one of them (SO_REUSEPORT).
- The netlink library closes a subscription's channel when its socket fails,
  which happens when it does not read because the channel is full.

## Runs

| Run | Shows | Bounds |
|---|---|---|
| `mirror_safety` | `TypeOK`; `ResolvedTracked`: no resolved host is forgotten; `NothingLeaked`: every route and proxy entry belongs to a tracked key; `MirrorInstalled`: what is tracked is in the kernel or a reconcile is due; `HealsItself`: the refinement of `HealingMirror` | four deployments (one slave, routing off, two masters, no slave), one client, two pending snapshots per key, two flushes |
| `mirror_liveness` | under fairness and restarts, `LeftoversReaped`: vanished clients go; `Relearned`: a neighbor resolved before the start becomes known unless traffic keeps it REACHABLE for ever; `FlushHealed` | one slave, one flush, one restart, one pending snapshot |
| `lifecycle` | `Settled`: once all link events are handled, table, services and kernel agree; `NothingStranded`: no key or route without its interface; `ConfigInForce`: the table has nothing the last file does not list, what it states is in force (an unstated `master` keeps its value), and nothing it lists is missing while no netdev has changed; `NonDisruptive`: mirrors and `proxy_arp` do not feel a reload where nothing changed | two netdevs, one host, five files, two reloads, three link changes |
| `dhcp_relay` | `GiaddrReachable`, `ReplyRouted`, `LoopEnds`; `GatewayOwn`: a reply that names one router tells each client its own slave's address, any other stays as it was | two slaves, two masters, one of them bridged to a slave; one message, two changes, a hop limit of 2 |
| `options_codec` | `ParseCorrect`, `StripCorrect`, `InsertRoundTrips`, `GatewayCorrect` | areas of at most 4 items out of 10, two tails, five cut-off ends |
| `dhcp_sock` | `Attributed`, `RelayedOnce`, `StealsAtMostOne`, `SocketServed` | two interfaces, two descriptors, two sockets, two packets, a channel of one |
| `engine` | `InOrder`; `EditApplied` and `UpdateHandled`, unless the daemon never came up | two subscriptions with channels of one, an engine channel of two, a signal channel of one, two updates each, one edit |

Why the bounds are enough:

- Keys of different addresses only meet in `routeEvents` and
  `reconcileScheduled`, which are per interface, so one client and repeated
  flushes exercise them; two pending snapshots give an outdated one followed by
  a fresh one; a second flush is one that falls between the clearing of
  `reconcileScheduled` and the next deletion. The theorems need no bound; they
  also cover roaming clients and servers that do not echo option 82.
- Two reloads are the first and one that changes the file; three link changes
  let a netdev vanish, return and go down, before, during or after a reload.
- One message suffices for `DHCPRelay`: messages share no state but the table.
  Two changes are an address and an index change in either order. The hop limit
  (16 in the code) only sets the length of a loop.
- Two sockets are a socket and its replacement, or another interface's socket,
  on the recycled descriptor.
- Channels of one or two are full after one or two posts; 1024, 256, 64 and 4 in
  the code only make that rarer.
- Four option items are two of any kind with something before and after.

Deadlock is checked except where the system really may stop: behaviours end when
the options area is complete, the process has exited, or the bounded changes and
messages are used up.

### Where comments and code disagree

Each of these runs checks what a comment says and TLC finds a behaviour that
contradicts it; `PROJECT.json` quotes the comment.

| Run | Behaviour |
|---|---|
| `roamed_mirror` | after a move the old interface's FAILED event deletes the proxy entry the new mirror shares |
| `orphan_proxy` | `arpproxy_routing` off: the sweep looks for orphans among routes and never finds the proxy entry |
| `reload_drops` | a netdev missing at the moment of a reload makes `Reload` drop an interface the file lists; its later link events find nothing |
| `link_flap` | a master that is re-created, or goes down and up, does not get the proxy entries of hosts that stay mirrored |
| `start_blocks` | updates fill the engine's channel before `main` posts the first `Reload`: `main` waits in `Post` for room that only its own `Run` would make |

### Known limits, not checked by a run of their own

- `MirrorInstalled` and `HealsItself` are about addresses that live behind one
  interface with servers that echo option 82 (`SingleHomed`). Without option 82 an
  ACK is mirrored behind every slave and the /32 route may end on the wrong one
  (`dhcpv4.go:589`); an ACK to a client of the upstream network, overheard on a
  master, moves that client's route to a slave (`dhcpv4.go:612`).
- A FAILED snapshot queued before an ACK deletes the entry the ACK has seeded;
  `ResolvedTracked` shows that the host is not forgotten.
- `proxy_arp` of a slave, reset while no route existed, is not restored by the
  next mirror (`arp.go:67` sets it on the other masters only).
- After a flush and a restart a proxy-ARP entry of a vanished client has no route
  left to be found by, and to the sweep an address that others keep asking for
  (INCOMPLETE) is live: the exceptions `LeftoversReaped` states.
- A neighbor that traffic keeps REACHABLE across a restart is announced no more
  and not probed by the sweep, so the restarted daemon never mirrors it: the
  exception `Relearned` states.
- An interface taken out of the file is closed with its keys in `mirroredNeighs`
  and its routes and proxy entries in the kernel (`config.go:157-164`), where
  nothing looks again: the `abandoned` indexes `NothingStranded` excepts.
- Every reload closes and reopens all DHCP sockets (`config.go:166-178`), also of
  an interface that did not change; `DHCPSock` shows what becomes of packets then.
- `rewriteGateway` refuses a router option with several addresses
  (`dhcpv4.go:544`): those clients keep the server's routers.
- A circuit-id of another relay that happens to be one of our indexes decides
  the target slave; `ReplyRouted` is about our own circuit-ids.
- When a subscription fails the forwarder stops for all four (`netlink.go:69`), the
  exception in `UpdateHandled`.
- A netdev named by two config keys, or by a key that a reload renames: closing
  the old entry may turn off the `proxy_arp` the new one needs. The instances of
  `Lifecycle` give each netdev one key, and `TableSettles` has it as its
  hypothesis `DistinctNetdevs`.
- Taking the last slave out of the file leaves the masters in relay mode until
  the next reload (`config.go:200-223` runs before the slave is closed).
- `master` left out of an entry keeps its last value (`config.go:112-114`), although
  `Reload` "re-reads the config file from scratch" (`config.go:185`); `ConfigInForce`
  exempts it.

### Fairness

`EngineFairness`: the engine loop never stops and its channel is FIFO, so each
posted closure runs although sweeps keep coming (strong fairness of each
handler); the sweep timer always re-arms; a sweep does not block. For
`handleRouteEvent` the fair step is the one that takes the last event of an
interface. `KernelFairness`: an entry its host no longer confirms leaves
REACHABLE, and a probe or a resolution ends. Nothing is assumed of hosts,
servers, traffic or garbage collection. In `DHCPSock` each goroutine that can
run does, and the engine drains its channel; no fairness is assumed of
`dhcpv4Setup` or of the network. In `DHCPRelay` the engine handles the messages in
its sockets. In `Engine` goroutines that can run do, and senders blocked on the
channel are served in turn (Go's channel queues), hence strong fairness of
`ForwardPost` and `SignalPost`; nothing is assumed of updates, signals or edits.

## Proofs

Every invariant and action property of the passing runs is proved with TLAPS for
every value of the constants. The only assumptions are the named ones of each module, which TLC evaluates on the
instances too: `ArpAssumption` and `MirrorAssumption` (interface indexes are
positive and unique in a table, a slave's services are enabled, as `Reload`
makes them), `LifecycleAssumption` (the kernel's netdev table is well formed),
`RelayAssumption` (netdevs start with indexes of their own, a client itself sends
neither giaddr nor option 82), `SockAssumption`, `EngineAssumption` and
`OptionsAssumption` (what an item, a cut-off option and an interface index are:
an index is a C `int` and not negative). Two
theorems have a further hypothesis, `SingleHomed` or `DistinctNetdevs`, which TLC
meets on an instance and without which they are false (see *Known limits*).
Each inductive invariant was checked with TLC before it was proved.

### The mirrors: `NeighMirrorProofs`, `HealingProofs`

- `TypeCorrect`: `Spec => []TypeOK`, one step per action, with typing lemmas for
  `Drive`, `InstallMirror` and `RemoveMirror`.
- `NothingIsLeaked`: `Spec => []NothingLeaked`. The invariant is inductive given
  `TypeOK`; `InstallLeaksNothing` and `RemoveLeaksNothing` say how each kind of
  kernel change preserves it.
- `ResolvedHostsTracked`: `Spec => []ResolvedTracked`. It is not inductive: the
  sweep tears down mirrors according to an outdated list. `SweepSound` adds what
  remains true of that list: an address it saw unresolved which is resolved now
  has an announcement pending. `TrackingInv` is the conjunction.
- `MirrorsInstalled`: `SingleHomed` implies `Spec => []MirrorInstalled`.
  `InstalledInv` adds `MirroredOnRelay` (mirrored keys are on relay interfaces, so
  the deletion of their routes is not ignored) and `Confined` (under `SingleHomed`
  every tracked or announced key is the host's only location, so no two keys
  compete for a route or a proxy entry).
- `Heals`: `SingleHomed` implies `Spec => HealsItself`, the refinement. The
  initial states map to initial states; each kind of step (hosts that come and
  go, a flush, a route event, a reconcile, a sweep) is shown to be a step of
  `HealingMirror` or to leave `wanted`, `installed` and `owed` alone. What the
  mapping needs of the state is `InstalledInv` before and after the step.

### Reload and link events: `LifecycleProofs`, `SettledProofs`

The proofs first say what each action does to the table (`LinkEventTable`,
`ParseTable`, `ServeTable`), and use only that afterwards.

- `LifecycleTypeCorrect`: `Spec => []TypeOK`. `TypeOK` says that an *idle* daemon
  has complete entries, so the invariant `Shape` has to say what holds in the
  middle of a reload (`Phases`: what is still to do, and that an entry without a
  name is never in use and is closed at the end).
- `ConfigStaysInForce`: `Spec => []ConfigInForce`. `ConfigInv` states it for the
  phases of a reload: `Defaults` before an entry is parsed, `Accepted` after. `Kept`
  adds that, until a netdev changes, an entry whose netdev exists is accepted in
  its turn, and an accepted one is never closed.
- `LeavesNothingStranded`: `Spec => []NothingStranded`. `Tracked` drops the
  restriction to quiet moments and adds that a route of ours is of a key
  `arpMirrorAddr` would still remove a route for: without it `clearMirroredState`
  could forget the key and leave the route.
- `ReloadsUnfelt`: `Spec => NonDisruptive`. Two invariants about indexes are
  needed: `OneOwner` (an index a link, an entry or an event in flight has is one
  netdev's only) and `PassedOver` (an entry the running reload passed over has
  lost its netdev, so closing it is not felt by one that has not).
- `TableSettles`: `DistinctNetdevs` implies `Spec => []Settled`. `Settled` is about
  quiet moments only. `Sync` finds in the queue of link events what the table
  does not know yet: the last event of a netdev tells its present state
  (`LastTells`), an event with an outdated index is followed by the RTM_DELLINK
  of that index (`Followed`), an entry out of step has an event in flight
  (`EntriesInStep`), and an entry without its services has the RTM_DELLINK in
  flight that excuses it (`ServedOrGone`).

### The DHCP relay: `DHCPRelayProofs`

One invariant, `RelayInv`, carries the four theorems.

- `RelayTypeCorrect`: `Spec => []TypeOK`, which bounds the hops of everything
  relayed and of its echoes.
- `GiaddrIsReachable`, `GatewaysOwn`: `Spec => GiaddrReachable` and
  `Spec => GatewayOwn`. The cache is right at quiet moments because of
  `CacheFollows` (a row that differs from the kernel has a notification in
  flight) and `Overtaken` (a notification of an index that is no longer the
  netdev's is followed by the one that tells the new index), without which
  `handleAddrEvent` could ignore the last notification. `LinkAddress` says that
  `relayLinkAddress4` returns an address of the list.
- `RepliesRouted`: `Spec => ReplyRouted`. `IndexesOwned` says that no index is, is
  believed to be or will be told to be that of two netdevs, and
  `RequestsStamped`, `UpstreamStamped` and `RepliesStamped` that a circuit-id
  written for a slave is nobody else's index for as long as the message is on
  its way, echoes on a looped segment included.

### Sockets and engine: `DHCPSockProofs`, `EngineProofs`

- `RelayedAsReceived`, `RelayedAtMostOnce`, `StealsBounded`: `Attributed`,
  `RelayedOnce` and `StealsAtMostOne` always hold. `SockInv` relates sockets,
  descriptors and readers: a socket that is not closed has its descriptor and its
  interface and port to itself (`SocketsOwned`), only the reader of a closed
  socket can read from another (`OwnFile`), a packet is on its way through one
  open socket at most (`OneClaim`), and a reader that took a packet not its own
  is past its last `recvfrom` (`Spent`).
- `UpdatesInOrder`: `Spec => InOrder`. `OrderInv` says where the updates between
  the last one handled and the last one received are: in the engine's channel, in
  the forwarder's hand and in the subscription's channel, consecutive and in
  this order.

### The options codec: `OptionsProofs`

The four theorems hold for areas of any number of items, of any codes and
payloads, and for every `MaxArea`. `EveryArea` shows that this leaves no input
out: every sequence of bytes is a run of items followed by End and a tail or by a
cut-off option, so they speak of every options area a peer can send.

The induction is first-order: instead of a predicate, a *set* is shown to be
everything. `LeastNumber` (a set of naturals has a least element) gives
`AllNumbers` and `AllSequences` (a set with `<<>>` that is closed under `Append`
has every sequence), and `Recursion`: a recursive function whose rounds make a
measure smaller satisfies its equation. On it rest, in this order,

1. the equation of one round of each loop (`ParseRound`, `StripRound`,
   `InsertRound`, `RouterRound`, `CircuitRound`); the measure is the bytes left, so
   termination of every walk is part of the proof. The same lemma gives
   `FlattenSeq`, on which `Encode`, `Options` and `Without82` rest, its equation
   (`Flatten`);
2. what a round does at an item (`ItemAt` says what the bytes there are), and by
   induction over the items what a walk over any run of them does (`ParseWalk`,
   `StripWalk`, `InsertWalk`, `RouterWalk`);
3. how a walk ends, at End (`EndAt`) or at a cut-off option (`CutAt`).

- `ParsesCorrectly`: `Spec => []ParseCorrect`; `Overloaded` relates
  `dhcpOptionByte` to the first one-byte option 52.
- `StripsCorrectly`: `Spec => []StripCorrect`.
- `InsertsCorrectly`: `Spec => []InsertRoundTrips`. `RoundTrip` composes the walks
  over the area with the inserted item; `Index32` says that `int32` undoes `le32`.
- `RewritesCorrectly`: `Spec => []GatewayCorrect`. A patched item is an item of the
  same length (`PatchedIsItem`), so the bytes around it stay where they were.

The inductive invariant is `WellFormed`, which only says that the state is an
area; the work is in the functions.

### Only model-checked

- Liveness, because fairness is out of the prover's reach: `LeftoversReaped`,
  `Relearned`, `FlushHealed`, `LoopEnds`, `SocketServed`, `EditApplied`, `UpdateHandled`.
- The five disagreements above are counterexamples and need no proof.

## What is left

For `MirrorRestart`, the invariants of the mirrors that survive a restart (`TypeOK`,
and `MirrorInstalled` for what is learned again; `ResolvedTracked` does not
survive it, which is why `Relearned` is a liveness property) are neither checked
by a run nor proved.

## Not modelled

Flag parsing, log levels and syslog output (`main.go:40-111`, `log.go`),
setsockopt and address-conversion wrappers (`rawsock.go`, `common.go`), `getMAC`
(unused by the relay) and the stand-alone probe script: they hold no state the
properties depend on. The data race on `staleClientSweepInterval`
(`netlink.go:152`) only changes when the next sweep starts, which the models
leave open anyway. Failures of netlink list requests, which end a sweep of an
interface early and leave the rest to the next one, are left out.
