---------------------------- MODULE AddressPolicy ---------------------------
(* isPrivateHost of gateway-policy.ts, the one classifier of hosts and      *)
(* addresses, against a table of the prefixes it stands for.                *)
(*                                                                          *)
(* A host is taken as the code sees it once its text is split: its octets,  *)
(* its groups (empty when the text is no IPv6 address), or a name.          *)
EXTENDS Naturals, Sequences

CONSTANTS
    HostText,       \* the hosts to judge
    NoHost

VARIABLES
    judged          \* the host of the call at hand

apVars == <<judged>>

Octet == 0 .. 2 ^ 8 - 1
Group == 0 .. 2 ^ 16 - 1

HostKind ==
    [kind : {"name"}, local : BOOLEAN] \cup
    [kind : {"v4"}, parts : [1 .. 4 -> Octet]] \cup
    [kind : {"v6"}, parts : [1 .. 8 -> Group]] \cup
    [kind : {"malformed"}]

ASSUME AddressAssumption == HostText \subseteq HostKind /\ NoHost \notin HostKind

-----------------------------------------------------------------------------
(* The code.                                                                *)

(* Mutants: definitions named ..._Mutant are faults that the properties      *)
(* below must tell from the code; no other definition uses them.            *)

(* Mutant: the upper end of 172.16.0.0/12 is one short.                     *)
IsPrivateIPv4_Mutant(a, b, c) ==
    \/ a \in {0, 127, 10}
    \/ a = 100 /\ b \in 64 .. 127
    \/ a = 169 /\ b = 254
    \/ a = 172 /\ b \in 16 .. 30
    \/ a = 192 /\ (b = 168 \/ (b = 0 /\ c \in {0, 2}) \/ (b = 88 /\ c = 99))
    \/ a = 198 /\ (b \in {18, 19} \/ (b = 51 /\ c = 100))
    \/ a = 203 /\ b = 0 /\ c = 113
    \/ a >= 224

IsPrivateIPv4(a, b, c) ==
    \/ a \in {0, 127, 10}
    \/ a = 100 /\ b \in 64 .. 127
    \/ a = 169 /\ b = 254
    \/ a = 172 /\ b \in 16 .. 31
    \/ a = 192 /\ (b = 168 \/ (b = 0 /\ c \in {0, 2}) \/ (b = 88 /\ c = 99))
    \/ a = 198 /\ (b \in {18, 19} \/ (b = 51 /\ c = 100))
    \/ a = 203 /\ b = 0 /\ c = 113
    \/ a >= 224

Embedded(hi, lo) == IsPrivateIPv4(hi \div 256, hi % 256, lo \div 256)

Zeros(g, first, last) == \A i \in first .. last : g[i] = 0

(* The sub-blocks of 2001::/23 that are reachable.                          *)
Reachable(g) ==
    \/ g[2] = 1 /\ Zeros(g, 3, 7) /\ g[8] \in 1 .. 3
    \/ g[2] = 3
    \/ g[2] = 4 /\ g[3] = 274
    \/ g[2] \div 32 = 1

(* First what carries an IPv4 address, then what is not global unicast,     *)
(* then the exceptions within it.  0x64 = 100, 0xff9b = 65435, 0x2001 =     *)
(* 8193, 0xdb8 = 3512, 0x2002 = 8194, 0x3fff = 16383, 0x112 = 274.          *)
IsPrivateIPv6(g) ==
    IF Zeros(g, 1, 5) /\ g[6] = 65535 THEN Embedded(g[7], g[8])
    ELSE IF g[1] = 100 /\ g[2] = 65435 /\ Zeros(g, 3, 6) THEN Embedded(g[7], g[8])
    ELSE IF g[1] \div 8192 # 1 THEN TRUE
    ELSE IF g[1] = 8193 /\ g[2] < 512 /\ ~Reachable(g) THEN TRUE
    ELSE IF g[1] = 8193 /\ g[2] = 3512 THEN TRUE
    ELSE IF g[1] = 8194 THEN Embedded(g[2], g[3])
    ELSE g[1] = 16383 /\ g[2] \div 4096 = 0

IsPrivateHost(h) ==
    CASE h.kind = "name" -> h.local
      [] h.kind = "malformed" -> TRUE
      [] h.kind = "v4" -> IsPrivateIPv4(h.parts[1], h.parts[2], h.parts[3])
      [] h.kind = "v6" -> IsPrivateIPv6(h.parts)

ApInit == judged = NoHost

JudgeHost(h) == judged = NoHost /\ judged' = h

NextHost == judged # NoHost /\ judged' = NoHost

ApNext == (\E h \in HostText : JudgeHost(h)) \/ NextHost

ApSpec == ApInit /\ [][ApNext]_apVars

-----------------------------------------------------------------------------
(* The reference: prefixes as the registries write them.                    *)

(* How many of the i-th part's bits are among the first len of an address   *)
(* whose parts are of width bits each.                                      *)
BitsOf(i, width, len) ==
    LET before == width * (i - 1)
    IN  IF len <= before THEN 0 ELSE IF len - before < width THEN len - before ELSE width

Unit(i, width, len) == 2 ^ (width - BitsOf(i, width, len))

(* Whether an address has the first len bits of net.                        *)
HasPrefix(parts, width, net, len) ==
    \A i \in DOMAIN net :
        parts[i] \div Unit(i, width, len) = net[i] \div Unit(i, width, len)

InTable(parts, width, table) == \E p \in table : HasPrefix(parts, width, p[1], p[2])

NonPublicIPv4 ==
    {<<<<0>>, 8>>, <<<<10>>, 8>>, <<<<127>>, 8>>, <<<<224>>, 3>>,
     <<<<100, 64>>, 10>>, <<<<169, 254>>, 16>>, <<<<172, 16>>, 12>>, <<<<192, 168>>, 16>>,
     <<<<192, 0, 0>>, 24>>, <<<<192, 0, 2>>, 24>>, <<<<192, 88, 99>>, 24>>,
     <<<<198, 18>>, 15>>, <<<<198, 51, 100>>, 24>>, <<<<203, 0, 113>>, 24>>}

IPv4Of(hi, lo) == <<hi \div 256, hi % 256, lo \div 256, lo % 256>>

(* Prefixes whose addresses carry an IPv4 address, by where it starts.      *)
Carriers ==
    {[net |-> <<0, 0, 0, 0, 0, 65535>>, len |-> 96, at |-> 7],
     [net |-> <<100, 65435, 0, 0, 0, 0>>, len |-> 96, at |-> 7],
     [net |-> <<8194>>, len |-> 16, at |-> 2]}

Assignments == {<<<<8193, 0>>, 23>>}
Anycast(n) == <<8193, 1, 0, 0, 0, 0, 0, n>>
Anycasts == {<<Anycast(n), 128>> : n \in 1 .. 3}
ReachableBlocks ==
    {<<<<8193, 3>>, 32>>, <<<<8193, 4, 274>>, 48>>, <<<<8193, 32>>, 28>>, <<<<8193, 48>>, 28>>}
AssignedReachable == Anycasts \cup ReachableBlocks
Documentation == {<<<<8193, 3512>>, 32>>, <<<<16383, 0>>, 20>>}

PublicIPv4(parts) == ~InTable(parts, 8, NonPublicIPv4)

PublicIPv6(g) ==
    LET carrier == {c \in Carriers : HasPrefix(g, 16, c.net, c.len)}
    IN IF carrier # {}
         THEN \A c \in carrier : PublicIPv4(IPv4Of(g[c.at], g[c.at + 1]))
         ELSE /\ HasPrefix(g, 16, <<8192>>, 3)
              /\ ~InTable(g, 16, Documentation)
              /\ InTable(g, 16, Assignments) => InTable(g, 16, AssignedReachable)

(* A host is let through exactly when the registries list no prefix of it   *)
(* as not publicly reachable, judged by the IPv4 address where the address  *)
(* carries one; what is no address at all is not let through (the order and *)
(* the bounds of the tests in gateway-policy.ts).                           *)
PolicyMatchesRegistries ==
    judged # NoHost =>
        (IsPrivateHost(judged) <=>
            CASE judged.kind = "name" -> judged.local
              [] judged.kind = "malformed" -> TRUE
              [] judged.kind = "v4" -> ~PublicIPv4(judged.parts)
              [] judged.kind = "v6" -> ~PublicIPv6(judged.parts))
=============================================================================
