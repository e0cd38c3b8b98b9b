---------------------------- MODULE HealingMirror -----------------------------
(***************************************************************************)
(* What mirroring promises, without its mechanism: the hosts the daemon    *)
(* answers for are mirrored in the kernel, and where another program has   *)
(* damaged the mirrors a repair is owed (the self-healing announced at     *)
(* internal/relay/netlink.go:25-30 and 261-276).                           *)
(***************************************************************************)
CONSTANT Keys

VARIABLES
    wanted,     \* the keys the daemon answers for
    installed,  \* those of them whose mirror is complete in the kernel
    owed        \* a repair is on its way

healVars == <<wanted, installed, owed>>

HealInit == wanted = {} /\ installed = {} /\ owed = FALSE

\* Hosts appear; a mirror that is damaged already stays so.
Appear(K) ==
    /\ wanted' = wanted \cup K
    /\ installed' = installed \cup (K \ wanted)
    /\ UNCHANGED owed

\* Hosts go; the kernel's notice of it may cause a repair nobody needs.
Vanish(K) ==
    /\ wanted' = wanted \ K
    /\ installed' = installed \ K
    /\ owed' \in {owed, TRUE}

\* Another program removes what was installed for K.
Damage(K) ==
    /\ installed' = installed \ K
    /\ owed' \in IF installed' = installed THEN {owed, TRUE} ELSE {TRUE}
    /\ UNCHANGED wanted

\* Everything is put back at once; damage noticed meanwhile is still owed.
Repair ==
    /\ owed
    /\ installed' = wanted
    /\ owed' \in BOOLEAN
    /\ UNCHANGED wanted

HealNext ==
    \/ \E K \in SUBSET Keys : Appear(K) \/ Vanish(K) \/ Damage(K)
    \/ Repair

HealSpec == HealInit /\ [][HealNext]_healVars

=============================================================================
