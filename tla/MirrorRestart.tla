---------------------------- MODULE MirrorRestart -----------------------------
(***************************************************************************)
(* NeighMirror with a daemon that is stopped and started again: what it    *)
(* knew and what was queued for it is gone, the kernel's neighbor entries, *)
(* host routes and proxy-ARP entries stay, and no list of the neighbors    *)
(* already resolved is read at start-up (internal/relay/netlink.go:31-91). *)
(***************************************************************************)
EXTENDS NeighMirror

CONSTANT MaxRestarts  \* bound: number of restarts

ASSUME RestartAssumption == MaxRestarts \in Nat

VARIABLE restarts

restartVars == <<vars, restarts>>

\* The process ends, at any moment, and the next one has done its first Reload.
Restart ==
    /\ restarts < MaxRestarts
    /\ restarts' = restarts + 1
    /\ mirroredNeighs' = {} /\ reconcileScheduled' = FALSE
    /\ neighEvents' = [k \in Key |-> <<>>] /\ routeEvents' = {}
    /\ sweepTodo' = {} /\ sweepCur' = {} /\ sweepSeen' = NothingSeen
    /\ proxyARP' = setProxyARP(RelayNames)
    /\ UNCHANGED <<neigh, proxyNeigh, hostRoute, worldVars>>

RestartInit == Init /\ restarts = 0
RestartNext == (Next /\ UNCHANGED restarts) \/ Restart

\* The fairness of NeighMirror, across restarts.
RestartSpec ==
    RestartInit /\ [][RestartNext]_restartVars /\ EngineFairness /\ KernelFairness

-----------------------------------------------------------------------------
\* A host that is gone is reaped also by a daemon that never knew it: its route,
\* its key and its proxy-ARP entries go, those last unless both a flush (which
\* takes the route the sweep would find them by) and a restart came between.  The
\* exception is a host other hosts do not stop asking for: to the sweep an
\* INCOMPLETE entry is live.
LeftoversReaped ==
    \A a \in Addrs :
        (at[a] = Nowhere) ~>
            \/ at[a] # Nowhere
            \/ \E k \in Key : k[1] = a /\ neigh[k] = "incomplete"
            \/ /\ hostRoute[a] = NoRoute
               /\ \A k \in mirroredNeighs : k[1] # a
               /\ \/ \A p \in proxyNeigh : p[1] # a
                  \/ flushes > 0 /\ restarts > 0

\* A neighbor the kernel resolved before the daemon started does not stay
\* resolved and unknown to it: the sweep probes a STALE one, and the probe
\* announces it.  The exception is one whose entry traffic keeps REACHABLE from
\* some moment on: nothing announces it, and the sweep leaves it alone.
Relearned ==
    \A k \in Locations :
        \/ []<>~(Tracked(k) /\ neigh[k] \in Resolved /\ k \notin mirroredNeighs)
        \/ <>[](neigh[k] = "reachable")

=============================================================================
