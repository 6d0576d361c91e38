----------------------------- MODULE ClientKeys -----------------------------
(* client-ip.ts: which limiter key a request is counted under, from the     *)
(* peer address the server stamps on it and the X-Forwarded-For header.     *)
(*                                                                          *)
(* An entry of the header is an address and the way it is written, or no    *)
(* address at all; the last entry is the last of the sequence.              *)
EXTENDS Naturals, Sequences

CONSTANTS
    Written,        \* addresses as they may be written
    Forged,         \* what a client may write in front of the proxies' entries
    MaxEntries,     \* bound: entries of a header
    NoAddress,      \* text that is no address
    NoClient

VARIABLES
    request         \* what the route sees of the request at hand

ckVars == <<request>>

Form == {"plain", "port", "bracketed", "zone"}
Byte == 0 .. 2 ^ 8 - 1
Word == 0 .. 2 ^ 16 - 1
Text == [family : {4}, parts : [1 .. 4 -> Byte], form : Form] \cup
        [family : {6}, parts : [1 .. 8 -> Word], form : Form]

Hops == {"", "1", "2", "-1"}

ASSUME KeyAssumption ==
    /\ Written \subseteq Text
    /\ NoAddress \notin Text
    /\ MaxEntries \in Nat

-----------------------------------------------------------------------------
(* The code.                                                                *)

Unknown == [key |-> <<"unknown">>, parent |-> <<>>]

(* Brackets and zones are for IPv6, whose port stands after the brackets.   *)
Legible(a) == a.family = 6 \/ a.form \in {"plain", "port"}

MappedIPv4(g) == (\A i \in 1 .. 5 : g[i] = 0) /\ g[6] = 65535

(* Mutants: definitions named ..._Mutant are faults that the properties      *)
(* below must tell from the code; no other definition uses them.            *)

(* Mutant: every IPv6 address is its own client.                            *)
ParseClient_Mutant(a) ==
    CASE a = NoAddress -> {}
      [] a # NoAddress /\ ~Legible(a) -> {}
      [] OTHER -> {[key |-> a.parts, parent |-> <<>>]}

(* parseClient(): the IPv4 address, or the /64 with the /48 around it.      *)
ParseClient(a) ==
    CASE a = NoAddress -> {}
      [] a # NoAddress /\ ~Legible(a) -> {}
      [] a # NoAddress /\ Legible(a) /\ a.family = 4 -> {[key |-> a.parts, parent |-> <<>>]}
      [] OTHER ->
           LET g == a.parts IN
           IF MappedIPv4(g)
             THEN {[key |-> <<g[7] \div 256, g[7] % 256, g[8] \div 256, g[8] % 256>>,
                    parent |-> <<>>]}
             ELSE {[key |-> SubSeq(g, 1, 4) \o <<"/64">>, parent |-> SubSeq(g, 1, 3)]}

(* parseTrustedProxyHops(): what is no plain number is 0.                   *)
ParseTrustedProxyHops(raw) == CASE raw = "1" -> 1 [] raw = "2" -> 2 [] OTHER -> 0

(* withPeerAddress(): the socket's address replaces what the client sent.   *)
StampPeerAddress(socketAddress, sent) == socketAddress

(* Mutant: the entries are counted from the left.                           *)
TrustedEntry_Mutant(entries, hops) ==
    IF hops = 0 \/ Len(entries) < hops THEN NoAddress ELSE entries[hops]

(* The entry the outermost trusted proxy wrote, if the header is as long as *)
(* the chain.  The header that is missing reads as one empty entry.         *)
TrustedEntry(entries, hops) ==
    IF hops = 0 \/ Len(entries) < hops THEN NoAddress ELSE entries[Len(entries) - hops + 1]

(* getClientKeys().                                                         *)
GetClientKeys(peer, entries, hops) ==
    LET fromPeer == ParseClient(peer)
        trusted == ParseClient(TrustedEntry(entries, hops))
    IN CHOOSE k \in (IF trusted # {} THEN trusted
                     ELSE IF fromPeer # {} THEN fromPeer
                     ELSE {Unknown}) : TRUE

KeysOf(r) ==
    GetClientKeys(StampPeerAddress(r.peer, r.sentPeer), r.entries, ParseTrustedProxyHops(r.hops))

CkInit == request = NoClient

Arrive(peer, sentPeer, entries, hops) ==
    /\ request = NoClient
    /\ request' = [peer |-> peer, sentPeer |-> sentPeer, entries |-> entries, hops |-> hops]

Leave == request # NoClient /\ request' = NoClient

Headers == UNION {[1 .. n -> Written \cup {NoAddress}] : n \in 1 .. MaxEntries}

CkNext ==
    \/ \E peer \in Written \cup {NoAddress}, sentPeer \in Forged, entries \in Headers, hops \in Hops :
         Arrive(peer, sentPeer, entries, hops)
    \/ Leave

CkSpec == CkInit /\ [][CkNext]_ckVars

-----------------------------------------------------------------------------
(* Properties.                                                              *)

(* What a client can write cannot choose its key: neither an entry to the   *)
(* left of the ones the proxies append nor a peer header of its own makes a *)
(* difference, and with no proxy configured, or a typo in its place, the    *)
(* whole header makes none (getClientKeys, withPeerAddress).                *)
ForgeryIsIgnored ==
    request # NoClient =>
        LET hops == ParseTrustedProxyHops(request.hops)
            n == Len(request.entries)
        IN /\ \A f \in Forged : KeysOf([request EXCEPT !.sentPeer = f]) = KeysOf(request)
           /\ n >= hops => \A f \in Forged :
                KeysOf([request EXCEPT !.entries = <<f>> \o @]) = KeysOf(request)
           /\ (hops = 0 \/ n < hops) => KeysOf(request) = KeysOf([request EXCEPT !.hops = ""])

SameClient(a, b) ==
    LET v4(x) == IF x.family = 4 THEN x.parts
                 ELSE <<x.parts[7] \div 256, x.parts[7] % 256, x.parts[8] \div 256, x.parts[8] % 256>>
        isV4(x) == x.family = 4 \/ MappedIPv4(x.parts)
    IN IF isV4(a) \/ isV4(b) THEN isV4(a) /\ isV4(b) /\ v4(a) = v4(b)
       ELSE \A i \in 1 .. 4 : a.parts[i] = b.parts[i]

(* However it is written, an IPv4 client has one key, also when it comes as *)
(* an IPv6 address, and so has an IPv6 subscriber in all of its /64; two    *)
(* clients never share a key (parseClient).                                 *)
OneClientOneKey ==
    request # NoClient /\ request.peer # NoAddress => \A b \in Written :
        (Legible(request.peer) /\ Legible(b)) =>
            ((ParseClient(request.peer) = ParseClient(b)) <=> SameClient(request.peer, b))
=============================================================================
