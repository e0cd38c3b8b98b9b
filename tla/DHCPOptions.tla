----------------------------- MODULE DHCPOptions -----------------------------
(***************************************************************************)
(* The DHCP options codec (internal/relay/dhcpv4.go): how the relay walks, *)
(* reads, extends, strips and patches the options area of a packet, as     *)
(* functions on byte sequences, and what they must compute.                *)
(*                                                                         *)
(* Any byte sequence is a run of complete items followed either by End and *)
(* arbitrary bytes, or by a cut-off option.  The state is such an area,    *)
(* given by its parts; that the functions recover the parts from the bytes *)
(* is what is checked.  Offsets are Go's: area[off] is At(area, off).  A   *)
(* Go loop is a recursive function of the variables the loop assigns.      *)
(***************************************************************************)
EXTENDS Integers, Sequences, SequencesExt

CONSTANTS
    Items,     \* options [code, data] and pads (code 0) an area is made of
    Tails,     \* bytes that may follow the End option
    Cuts,      \* cut-off options: bytes that do not form a whole option
    Fields,    \* contents of the sname and file header fields
    Indexes,   \* interface indexes written as circuit-ids
    Gateways,  \* addresses, as 4 bytes
    MaxItems,  \* bound: items in an area
    MaxArea    \* dhcpMaxPktSize less the fixed header

dhcpOptPad == 0
dhcpOptRouter == 3
dhcpOptOverload == 52
dhcpOptAgentInfo == 82
dhcpOptEnd == 255
agentSubOptCircuitID == 1

Byte == 0 .. 255
MaxInt32 == 2147483647
Option == [code : Byte, data : Seq(Byte)]

At(area, off) == area[off + 1]
Slice(area, off, n) == SubSeq(area, off + 1, off + n)
From(area, off) == SubSeq(area, off + 1, Len(area))

\* A whole option, its length byte and its payload, starts at off.
Whole(area, off) ==
    /\ off + 2 <= Len(area)
    /\ off + 2 + At(area, off + 1) <= Len(area)

\* What an area is made of: pads, and options whose length fits its byte.
Item == {o \in Option : /\ o.code # dhcpOptEnd /\ Len(o.data) <= 255
                        /\ o.code = dhcpOptPad => o.data = <<>>}

\* What does not form a whole item: nothing, or the start of an option.
CutOff == {c \in Seq(Byte) : c # <<>> => c[1] \notin {dhcpOptPad, dhcpOptEnd} /\ ~Whole(c, 0)}

ASSUME OptionsAssumption ==
    /\ Items \subseteq Item /\ Tails \subseteq Seq(Byte) /\ Cuts \subseteq CutOff
    /\ Fields \subseteq Seq(Byte)
    /\ Indexes \subseteq 0 .. MaxInt32 /\ Gateways \subseteq [1 .. 4 -> Byte]
    /\ MaxItems \in Nat /\ MaxArea \in Nat

-----------------------------------------------------------------------------
(* parseOptionArea; a nil slice and an empty one are both <<>>.            *)

parseLoop(area) ==
    LET loop[s \in Nat \X Seq(Option)] ==
            LET off == s[1]
                out == s[2]
            IN  CASE off >= Len(area) -> <<>>
                  [] off < Len(area) /\ At(area, off) = dhcpOptEnd -> out
                  [] off < Len(area) /\ At(area, off) = dhcpOptPad -> loop[<<off + 1, out>>]
                  [] OTHER ->
                        IF ~Whole(area, off) THEN <<>>
                        ELSE LET l == At(area, off + 1)
                             IN  loop[<<off + 2 + l,
                                        Append(out, [code |-> At(area, off),
                                                     data |-> Slice(area, off + 2, l)])>>]
    IN  loop

\* Mutant: the End option is not required.
LenientParse(area) == parseLoop(Append(area, dhcpOptEnd))[<<0, <<>>>>]

parseOptionArea(area) == parseLoop(area)[<<0, <<>>>>]

\* The first one-byte option with that code, as a sequence of at most one byte.
dhcpOptionByte(opts, code) ==
    LET hits == {j \in 1 .. Len(opts) : opts[j].code = code /\ Len(opts[j].data) = 1}
    IN  IF hits = {} THEN <<>> ELSE opts[Min(hits)].data

\* The main area, then the header fields option 52 declares overloaded.
parseDHCPOptions(main, file, sname) ==
    LET out == parseOptionArea(main)
        ov == dhcpOptionByte(out, dhcpOptOverload)
    IN  IF out = <<>> \/ ov = <<>> THEN out
        ELSE out \o (IF ov[1] \in {1, 3} THEN parseOptionArea(file) ELSE <<>>)
                 \o (IF ov[1] \in {2, 3} THEN parseOptionArea(sname) ELSE <<>>)

-----------------------------------------------------------------------------
(* Option 82.                                                              *)

\* binary.LittleEndian.PutUint32.
le32(i) == <<i % 256, (i \div 256) % 256, (i \div 65536) % 256, (i \div 16777216) % 256>>

\* int(int32(binary.LittleEndian.Uint32(b))).
int32(b) == b[1] + 256 * b[2] + 65536 * b[3]
            + 16777216 * (IF b[4] >= 128 THEN b[4] - 256 ELSE b[4])

\* parseCircuitID: the index as a sequence of at most one number.
circuitLoop(info) ==
    LET loop[off \in Nat] ==
            IF ~Whole(info, off) THEN <<>>
            ELSE LET l == At(info, off + 1)
                 IN  IF At(info, off) = agentSubOptCircuitID /\ l = 4
                     THEN <<int32(Slice(info, off + 2, 4))>>
                     ELSE loop[off + 2 + l]
    IN  loop

parseCircuitID(info) == circuitLoop(info)[0]

\* insertAgentInfo's walk: where it stops, and why.
insertLoop(area) ==
    LET loop[off \in Nat] ==
            CASE off >= Len(area) -> [stop |-> "malformed", off |-> off]
              [] off < Len(area) /\ At(area, off) = dhcpOptEnd -> [stop |-> "end", off |-> off]
              [] off < Len(area) /\ At(area, off) = dhcpOptPad -> loop[off + 1]
              [] off < Len(area) /\ At(area, off) = dhcpOptAgentInfo ->
                    [stop |-> "relayed", off |-> off]
              [] OTHER ->
                    IF ~Whole(area, off) THEN [stop |-> "malformed", off |-> off]
                    ELSE loop[off + 2 + At(area, off + 1)]
    IN  loop

agentInfo(ifindex) ==
    <<dhcpOptAgentInfo, 6, agentSubOptCircuitID, 4>> \o le32(ifindex)

\* Mutant: option 82 is appended behind the End option.
AppendAgentInfo(area, ifindex) ==
    LET p == insertLoop(area)[0] IN
    CASE p.stop = "relayed" -> [ok |-> TRUE, out |-> area]
      [] p.stop = "end" /\ Len(area) + 8 <= MaxArea ->
            [ok |-> TRUE, out |-> area \o agentInfo(ifindex)]
      [] OTHER -> [ok |-> FALSE, out |-> <<>>]

insertAgentInfo(area, ifindex) ==
    LET p == insertLoop(area)[0] IN
    CASE p.stop = "relayed" -> [ok |-> TRUE, out |-> area]
      [] p.stop = "end" /\ Len(area) + 8 <= MaxArea ->
            [ok |-> TRUE,
             out |-> Slice(area, 0, p.off) \o agentInfo(ifindex) \o From(area, p.off)]
      [] OTHER -> [ok |-> FALSE, out |-> <<>>]

stripLoop(area) ==
    LET loop[s \in Nat \X Seq(Byte)] ==
            LET off == s[1]
                out == s[2]
            IN  CASE off >= Len(area) -> Append(out, dhcpOptEnd)
                  [] off < Len(area) /\ At(area, off) = dhcpOptEnd -> out \o From(area, off)
                  [] off < Len(area) /\ At(area, off) = dhcpOptPad ->
                        loop[<<off + 1, Append(out, dhcpOptPad)>>]
                  [] OTHER ->
                        IF ~Whole(area, off) THEN Append(out, dhcpOptEnd)
                        ELSE LET n == 2 + At(area, off + 1)
                             IN  loop[<<off + n, IF At(area, off) = dhcpOptAgentInfo THEN out
                                                 ELSE out \o Slice(area, off, n)>>]
    IN  loop

\* Mutant: a reply whose options are cut off is passed on as it is.
StripWellFormedOnly(area) ==
    IF parseOptionArea(area) = <<>> THEN area ELSE stripLoop(area)[<<0, <<>>>>]

stripAgentInfo(area) == stripLoop(area)[<<0, <<>>>>]

-----------------------------------------------------------------------------
(* rewriteGateway: the offset of the router payload it patches, or none.   *)

routerLoop(area) ==
    LET loop[off \in Nat] ==
            CASE off >= Len(area) -> <<>>
              [] off < Len(area) /\ At(area, off) = dhcpOptEnd -> <<>>
              [] off < Len(area) /\ At(area, off) = dhcpOptPad -> loop[off + 1]
              [] OTHER ->
                    IF off + 2 > Len(area) THEN <<>>
                    ELSE LET l == At(area, off + 1)
                         IN  IF At(area, off) = dhcpOptRouter
                             THEN IF l = 4 /\ off + 2 + l <= Len(area) THEN <<off + 2>> ELSE <<>>
                             ELSE loop[off + 2 + l]
    IN  loop

\* Mutant: the patch starts at the length byte.
ShiftedRewrite(area, gw) ==
    LET p == routerLoop(area)[0] IN
    IF p = <<>> THEN area
    ELSE Slice(area, 0, p[1] - 1) \o gw \o From(area, p[1] + 3)

rewriteGateway(area, gw) ==
    LET p == routerLoop(area)[0] IN
    IF p = <<>> THEN area
    ELSE Slice(area, 0, p[1]) \o gw \o From(area, p[1] + 4)

-----------------------------------------------------------------------------
(* The areas that are checked.                                             *)

VARIABLES
    items,  \* the complete items of the area
    ended,  \* is there an End option after them?
    rest    \* what follows: a tail after End, else a cut-off option

vars == <<items, ended, rest>>

Init ==
    /\ items = <<>>
    /\ \/ ended = TRUE /\ rest \in Tails
       \/ ended = FALSE /\ rest \in Cuts

\* One more item in front of what ends the area.
AddItem(o) ==
    /\ Len(items) < MaxItems
    /\ items' = Append(items, o)
    /\ UNCHANGED <<ended, rest>>

Next == \E o \in Items : AddItem(o)

Spec == Init /\ [][Next]_vars

-----------------------------------------------------------------------------
(* What the functions must compute, from the parts of the area.            *)

Bytes(o) == IF o.code = dhcpOptPad THEN <<dhcpOptPad>>
            ELSE <<o.code, Len(o.data)>> \o o.data

Encode(s) == FlattenSeq([j \in 1 .. Len(s) |-> Bytes(s[j])])

Area == Encode(items) \o (IF ended THEN <<dhcpOptEnd>> ELSE <<>>) \o rest

Options(s) ==
    FlattenSeq([j \in 1 .. Len(s) |-> IF s[j].code = dhcpOptPad THEN <<>> ELSE <<s[j]>>])

Without82(s) ==
    FlattenSeq([j \in 1 .. Len(s) |-> IF s[j].code = dhcpOptAgentInfo THEN <<>> ELSE <<s[j]>>])

\* The first one-byte option 52 declares field n (1 file, 2 sname) overloaded.
Overloads(s, n) ==
    \E j \in 1 .. Len(s) :
        /\ s[j].code = dhcpOptOverload /\ s[j].data \in {<<n>>, <<3>>}
        /\ \A k \in 1 .. j - 1 : ~(s[k].code = dhcpOptOverload /\ Len(s[k].data) = 1)

\* parseOptionArea yields the options in front of End, none of an area that is
\* cut off before it; an overloaded field that does not parse adds nothing.
ParseCorrect ==
    /\ parseOptionArea(Area) = (IF ended THEN Options(items) ELSE <<>>)
    /\ \A f, s \in Fields :
          parseDHCPOptions(Area, f, s)
              = parseOptionArea(Area)
                \o (IF ended /\ Overloads(items, 1) THEN parseOptionArea(f) ELSE <<>>)
                \o (IF ended /\ Overloads(items, 2) THEN parseOptionArea(s) ELSE <<>>)

\* stripAgentInfo removes every option 82 in front of End and nothing else, and
\* ends an area that was cut off.
StripCorrect ==
    stripAgentInfo(Area) = Encode(Without82(items)) \o <<dhcpOptEnd>>
                           \o (IF ended THEN rest ELSE <<>>)

\* What insertAgentInfo adds to a request, the relay's own reply path undoes:
\* stripping gives the client's bytes back, and the circuit-id read from it is
\* the index that was written.
InsertRoundTrips ==
    \A i \in Indexes :
        LET r == insertAgentInfo(Area, i)
            relayed == \/ \E j \in 1 .. Len(items) : items[j].code = dhcpOptAgentInfo
                       \/ ~ended /\ rest # <<>> /\ rest[1] = dhcpOptAgentInfo
            room == Len(Area) + 8 <= MaxArea
        IN  /\ r.ok <=> relayed \/ (ended /\ room)
            /\ relayed => r.out = Area
            /\ r.ok /\ ~relayed =>
                  /\ stripAgentInfo(r.out) = Area
                  /\ \E info \in {Last(parseOptionArea(r.out))} :
                        /\ parseOptionArea(r.out) = Append(parseOptionArea(Area), info)
                        /\ info.code = dhcpOptAgentInfo
                        /\ parseCircuitID(info.data) = <<i>>

\* On the stripped reply, rewriteGateway replaces the payload of the first
\* router option if that is one address, and changes no other byte.
GatewayCorrect ==
    \A gw \in Gateways :
        LET kept == Without82(items)
            routers == {j \in 1 .. Len(kept) : kept[j].code = dhcpOptRouter}
            first == {j \in routers : \A m \in routers : j <= m}
            patched == [j \in 1 .. Len(kept) |->
                           IF j \in first /\ Len(kept[j].data) = 4
                           THEN [kept[j] EXCEPT !.data = gw] ELSE kept[j]]
        IN  rewriteGateway(stripAgentInfo(Area), gw)
                = Encode(patched) \o <<dhcpOptEnd>> \o (IF ended THEN rest ELSE <<>>)

=============================================================================
