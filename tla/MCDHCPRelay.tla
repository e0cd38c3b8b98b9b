----------------------------- MODULE MCDHCPRelay -----------------------------
(***************************************************************************)
(* DHCPRelay for TLC: slaves lan and wifi, masters wan and wan2, and a     *)
(* cable between wan's segment and wifi's.                                 *)
(***************************************************************************)
EXTENDS DHCPRelay

Usable(a) == [addr |-> a, usable |-> TRUE]

\* wan has no address at first, or one behind a link-local one; wifi never has.
MCLists ==
    [lan  |-> {<<Usable("10.0.1.1")>>},
     wifi |-> {<<>>},
     wan  |-> {<<>>, <<[addr |-> "169.254.0.9", usable |-> FALSE], Usable("192.0.2.1")>>},
     wan2 |-> {<<Usable("198.51.100.1")>>}]

MCAddrs == {"10.0.1.1", "10.0.1.7", "169.254.0.9", "192.0.2.1", "198.51.100.1"}

ClientRequest(s, fits) ==
    [in |-> s, from |-> s, foreign |-> FALSE, hops |-> 0, giaddr |-> NoAddr,
     circuit |-> NoCircuit, fits |-> fits]

\* Clients of either slave, a message too long for option 82, and one another
\* relay below lan has already stamped.
MCSent ==
    {ClientRequest("lan", TRUE), ClientRequest("wifi", TRUE), ClientRequest("lan", FALSE),
     [ClientRequest("lan", TRUE) EXCEPT !.foreign = TRUE, !.giaddr = "10.0.1.7", !.circuit = 2]}

MCIndex == [lan |-> 1, wifi |-> 2, wan |-> 3, wan2 |-> 4]

MCLooped == {<<"wan", "wifi">>}

=============================================================================
