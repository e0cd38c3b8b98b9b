---------------------------- MODULE MCDHCPOptions ----------------------------
(***************************************************************************)
(* Areas for TLC: options that matter to the relay, with payloads that look *)
(* like codes, one and two router addresses, foreign and empty option 82.  *)
(***************************************************************************)
EXTENDS DHCPOptions

Opt(c, d) == [code |-> c, data |-> d]

MCItems ==
    {Opt(0, <<>>), Opt(53, <<5>>), Opt(12, <<255, 82, 0>>),
     Opt(3, <<10, 0, 0, 1>>), Opt(3, <<10, 0, 0, 1, 10, 0, 0, 2>>),
     Opt(82, <<>>), Opt(82, <<2, 1, 7, 1, 4, 2, 0, 0, 0>>),
     Opt(52, <<1>>), Opt(52, <<3>>), Opt(52, <<2, 2>>)}

MCTails == {<<>>, <<0, 82, 255>>}
MCCuts == {<<>>, <<3>>, <<82>>, <<3, 4, 10, 0>>, <<12, 9, 255>>}
MCFields == {<<0, 0>>, <<53, 1, 2, 255, 0>>, <<12, 1, 3, 255>>, <<53, 9, 255>>}
MCIndexes == {1, 255, 256, 16909060, 2147483647}
MCGateways == {<<192, 168, 3, 255>>}

=============================================================================
