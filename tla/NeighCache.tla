------------------------------ MODULE NeighCache ------------------------------
(***************************************************************************)
(* The kernel's neighbor cache and the requests the daemon makes of it     *)
(* (seedNeighbor4 and deleteNeigh4 in internal/relay/arp.go).              *)
(***************************************************************************)
EXTENDS Arp

VARIABLES
    neigh,       \* kernel: neighbor-cache state of each key
    neighEvents  \* kernel: RTM_NEWNEIGH snapshots of each key not yet handled

kernelVars == <<neigh, neighEvents, proxyNeigh, hostRoute, routeEvents, proxyARP>>

\* DELAY counts as stale (unconfirmed), PERMANENT and NOARP as reachable.
NUD == {"none", "incomplete", "reachable", "stale", "probe", "failed"}

\* handleNeighEvent's resolvedMask.
Resolved == {"reachable", "stale", "probe"}

-----------------------------------------------------------------------------
(* Neighbor-cache requests.                                                *)

\* __neigh_update: the kernel announces an entry that changes state.  NeighDel
\* first drives a resolved entry to FAILED, which is announced as a new state;
\* the RTM_DELNEIGH that follows is dropped by handleNeighEvent.
Announced(old, new) == new # old /\ (new # "none" \/ old \in Resolved)

\* The neighbors take the states in new; q holds the snapshots already pending.
Drive(new, q) ==
    /\ neigh' = new
    /\ neighEvents' = [k \in Key |->
           IF Announced(neigh[k], new[k])
           THEN Append(q[k], IF new[k] = "none" THEN "failed" ELSE new[k])
           ELSE q[k]]

\* seedNeighbor4: NeighSet(REACHABLE) creates or refreshes the entries of K.
seedNeighbor4(K) ==
    Drive([k \in Key |-> IF k \in K THEN "reachable" ELSE neigh[k]], neighEvents)

\* deleteNeigh4: NeighDel of the real (not NTF_PROXY) entries of K.
deleteNeigh4(K, q) ==
    Drive([k \in Key |-> IF k \in K THEN "none" ELSE neigh[k]], q)

=============================================================================
