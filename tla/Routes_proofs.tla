---------------------------- MODULE Routes_proofs ---------------------------
(* Theorems about the routes: who may sign in, and what they ask others for.*)
(*                                                                          *)
(* PasswordRoutes, for any requests, browsers, passwords and environments:  *)
(* types, and which password a request is compared with.  ClientKeys, for   *)
(* any headers, peers and number of trusted hops: whose key the limiter     *)
(* counts by.  GatewayClient, for any calls, hosts, addresses, allowlist    *)
(* and URLs: types, where pinned connections lead, who uses the exemption   *)
(* of the default gateway, and the bodies that are left unread.  GithubCi,  *)
(* for any requests, repositories, commits and cache sizes: the cache of    *)
(* passed commits, and how old a shown success may be.  AddressPolicy, for  *)
(* every address: the classifier against the prefixes of the registries.    *)
EXTENDS PasswordRoutes, ClientKeys, GatewayClient, GithubCi, AddressPolicy, TLAPS

-----------------------------------------------------------------------------
(* Requests for a password.                                                 *)

(* What is said of a request.                                               *)
Current(r) == pwRequest[r].stale \/ pwRequest[r].against \in InForce(pwRequest[r].route)

(* A change carries the password it wants, and only changes hash one.       *)
Wanting(r) ==
    /\ pwRequest[r].route = "change" => pwRequest[r].wanted \in Chosen
    /\ pwRequest[r].stage = "hashing" => pwRequest[r].route = "change"

PwInv ==
    /\ PwTypeOK
    /\ \A r \in PwRequest : Busy(r) => Current(r) /\ Wanting(r)

(* The password a route picks is the one in force: an unreadable store      *)
(* yields none, and never the default.                                      *)
LEMMA VerifierInForce ==
    ASSUME PwTypeOK, NEW route \in Route, Verifier(route) # NoPassword
    PROVE  Verifier(route) \in InForce(route) /\ Verifier(route) \in Password
<1> USE PasswordAssumption DEF PwTypeOK
<1>1. readable /\ ReadPasswordConfig = stored
  BY DEF Verifier, ReadPasswordConfig
<1>2. env.hash \in {EnvHash, NoPassword} /\ env.plain \in {EnvPlain, NoPassword}
  BY DEF Environment
<1>3. ReadPasswordConfig # Unreadable
  BY <1>1 DEF Password
<1>4. CASE stored # NoPassword
  BY <1>1, <1>3, <1>4 DEF Verifier, InForce, Password
<1>5. CASE stored = NoPassword /\ env.hash # NoPassword
  BY <1>1, <1>2, <1>3, <1>5 DEF Verifier, InForce, Password
<1>6. CASE stored = NoPassword /\ env.hash = NoPassword /\ env.plain # NoPassword
  BY <1>1, <1>2, <1>3, <1>6 DEF Verifier, InForce, Password
<1>7. CASE stored = NoPassword /\ env.hash = NoPassword /\ env.plain = NoPassword
  <2>1. Verifier(route) = IF route = "login" /\ env.production THEN NoPassword ELSE DevDefault
    BY <1>1, <1>3, <1>7 DEF Verifier
  <2> QED  BY <1>7, <2>1 DEF InForce, Password, Route
<1> QED  BY <1>4, <1>5, <1>6, <1>7

LEMMA CountedType ==
    ASSUME PwTypeOK, NEW route \in Route, NEW b \in Browser, NEW n \in 0 .. AttemptLimit
    PROVE  CountedAs(route, b, n) \in [Route -> [Browser -> 0 .. AttemptLimit]]
BY DEF PwTypeOK, CountedAs

LEMMA OutdatedType ==
    ASSUME NEW requests \in [PwRequest -> AdmittedRequest \cup {NoRequest}]
    PROVE  /\ Outdated(requests) \in [PwRequest -> AdmittedRequest \cup {NoRequest}]
           /\ \A q \in PwRequest :
                Outdated(requests)[q] # NoRequest => Outdated(requests)[q].stale
<1>1. ASSUME NEW r \in AdmittedRequest
      PROVE  [r EXCEPT !.stale = TRUE] \in AdmittedRequest /\ [r EXCEPT !.stale = TRUE].stale
  <2>1. [r EXCEPT !.stale = TRUE] \in AdmittedRequest
    BY Zenon DEF AdmittedRequest
  <2> QED  BY <2>1, SMT DEF AdmittedRequest
<1> QED  BY <1>1 DEF Outdated

LEMMA PwInitHolds == PwInit => PwInv
<1> SUFFICES ASSUME PwInit PROVE PwInv
  OBVIOUS
<1>1. \A r \in PwRequest : ~Busy(r)
  BY DEF PwInit, Busy
<1>2. 0 \in 0 .. AttemptLimit
  BY PasswordAssumption
<1>3. PwTypeOK
  BY <1>2, PasswordAssumption DEF PwInit, PwTypeOK
<1> QED  BY <1>1, <1>3 DEF PwInv

LEMMA AdmitPreserves ==
    ASSUME PwInv, NEW r \in PwRequest, NEW route \in Route, NEW b \in Browser,
           NEW right \in BOOLEAN, NEW wanted \in Chosen \cup {NoPassword},
           Admit(r, route, b, right, wanted),
           route = "change" => wanted \in Chosen
    PROVE  PwInv'
<1> USE DEF PwInv
<1> DEFINE new == [route |-> route, browser |-> b, right |-> right, wanted |-> wanted,
                   against |-> Verifier(route), stage |-> "verifying", stale |-> FALSE]
<1>1. /\ pwRequest' = [pwRequest EXCEPT ![r] = new]
      /\ attempts' = CountedAs(route, b, attempts[route][b] + 1)
      /\ attempts[route][b] < AttemptLimit
      /\ UNCHANGED <<env, stored, readable, writable, signedIn>>
  BY DEF Admit
<1>2. Verifier(route) \in InForce(route) /\ Verifier(route) \in Password
  BY VerifierInForce DEF Admit
<1>3. new \in AdmittedRequest
  BY <1>2, Zenon DEF AdmittedRequest
<1>4. /\ new.route = route /\ new.against = Verifier(route)
      /\ new.wanted = wanted /\ new.stage = "verifying"
  OBVIOUS
<1> HIDE DEF new
<1>5. attempts[route][b] + 1 \in 0 .. AttemptLimit
  <2>1. attempts[route][b] \in 0 .. AttemptLimit /\ AttemptLimit \in Nat
    BY PasswordAssumption DEF PwTypeOK
  <2> QED  BY <1>1, <2>1
<1>6. PwTypeOK'
  BY <1>1, <1>3, <1>5, CountedType DEF PwTypeOK
<1>7. ASSUME NEW q \in PwRequest, Busy(q)' PROVE Current(q)' /\ Wanting(q)'
  <2>1. CASE q = r
    <3>1. /\ pwRequest'[q].against = Verifier(route) /\ pwRequest'[q].route = route
          /\ pwRequest'[q].wanted = wanted /\ pwRequest'[q].stage = "verifying"
      BY <1>1, <1>4, <2>1 DEF PwTypeOK
    <3> QED  BY <1>1, <1>2, <3>1 DEF Current, Wanting, InForce
  <2>2. CASE q # r
    <3>1. pwRequest'[q] = pwRequest[q] /\ Busy(q)
      BY <1>1, <1>7, <2>2 DEF PwTypeOK, Busy
    <3> QED  BY <1>1, <3>1 DEF Current, Wanting, InForce
  <2> QED  BY <2>1, <2>2
<1> QED  BY <1>6, <1>7

(* What changes no password and touches no request but to end it or to let  *)
(* it wait for its hash.                                                    *)
LEMMA QuietPreserves ==
    ASSUME PwInv, UNCHANGED <<env, stored>>, PwTypeOK',
           \A q \in PwRequest : Busy(q)' =>
                /\ Busy(q)
                /\ pwRequest'[q].stale = pwRequest[q].stale
                /\ pwRequest'[q].route = pwRequest[q].route
                /\ pwRequest'[q].against = pwRequest[q].against
                /\ pwRequest'[q].wanted = pwRequest[q].wanted
                /\ \/ pwRequest'[q].stage = pwRequest[q].stage
                   \/ pwRequest[q].route = "change"
    PROVE  PwInv'
BY DEF PwInv, Current, Wanting, InForce

(* What replaces or removes the password marks every request that runs.     *)
LEMMA OutdatedPreserves ==
    ASSUME PwInv, PwTypeOK',
           pwRequest' = Outdated(pwRequest) \/ \E r \in PwRequest : pwRequest' = Outdated(Answered(r))
    PROVE  PwInv'
<1> USE DEF PwInv, PwTypeOK
<1>1. PICK before \in [PwRequest -> AdmittedRequest \cup {NoRequest}] :
        /\ pwRequest' = Outdated(before)
        /\ \A q \in PwRequest : before[q] \in {pwRequest[q], NoRequest}
  BY DEF Answered
<1>2. ASSUME NEW q \in PwRequest, Busy(q)' PROVE Current(q)' /\ Wanting(q)'
  <2>1. before[q] = pwRequest[q] /\ Busy(q)
    BY <1>1, <1>2 DEF Outdated, Busy
  <2>2. pwRequest[q] \in AdmittedRequest /\ pwRequest'[q] = [pwRequest[q] EXCEPT !.stale = TRUE]
    BY <1>1, <2>1 DEF Outdated, Busy
  <2>3. /\ pwRequest'[q].stale /\ pwRequest'[q].route = pwRequest[q].route
        /\ pwRequest'[q].wanted = pwRequest[q].wanted /\ pwRequest'[q].stage = pwRequest[q].stage
    BY <2>2 DEF AdmittedRequest
  <2> QED  BY <2>1, <2>3 DEF Current, Wanting
<1> QED  BY <1>2

(* A request that ends is free again; the others stay.                      *)
LEMMA AnsweredRequests ==
    ASSUME PwTypeOK, NEW r \in PwRequest, pwRequest' = Answered(r)
    PROVE  /\ pwRequest' \in [PwRequest -> AdmittedRequest \cup {NoRequest}]
           /\ \A q \in PwRequest : Busy(q)' => Busy(q) /\ pwRequest'[q] = pwRequest[q]
BY DEF PwTypeOK, Answered, Busy

LEMMA PwRequestPreserves ==
    ASSUME PwInv, NEW r \in PwRequest,
           Refuse(r) \/ LoginSucceeds(r) \/ ChangeVerified(r)
    PROVE  PwInv'
<1>0. PwTypeOK /\ 0 \in 0 .. AttemptLimit /\ Busy(r) /\ pwRequest[r] \in AdmittedRequest
  BY PasswordAssumption DEF PwInv, PwTypeOK, Refuse, LoginSucceeds, ChangeVerified, Busy
<1>1. pwRequest[r].browser \in Browser
  BY <1>0 DEF AdmittedRequest
<1>2. CASE Refuse(r)
  <2>1. pwRequest' = Answered(r) /\ UNCHANGED <<env, stored, readable, writable, attempts, signedIn>>
    BY <1>2 DEF Refuse
  <2>2. PwTypeOK'
    BY <1>0, <2>1, AnsweredRequests DEF PwTypeOK
  <2> QED  BY <1>0, <2>1, <2>2, AnsweredRequests, QuietPreserves
<1>3. CASE LoginSucceeds(r)
  <2>1. /\ pwRequest' = Answered(r)
        /\ attempts' = CountedAs("login", pwRequest[r].browser, 0)
        /\ signedIn' = signedIn \cup {pwRequest[r].browser}
        /\ UNCHANGED <<env, stored, readable, writable>>
    BY <1>3 DEF LoginSucceeds
  <2>2. attempts' \in [Route -> [Browser -> 0 .. AttemptLimit]]
    <3>1. "login" \in Route
      BY DEF Route
    <3> QED  BY <1>0, <1>1, <2>1, <3>1, CountedType
  <2>3. PwTypeOK'
    BY <1>0, <1>1, <2>1, <2>2, AnsweredRequests DEF PwTypeOK
  <2> QED  BY <1>0, <2>1, <2>3, AnsweredRequests, QuietPreserves
<1>4. CASE ChangeVerified(r)
  <2> DEFINE new == [pwRequest[r] EXCEPT !.stage = "hashing"]
  <2>1. /\ pwRequest' = [pwRequest EXCEPT ![r] = new]
        /\ attempts' = CountedAs("change", pwRequest[r].browser, 0)
        /\ UNCHANGED <<env, stored, readable, writable, signedIn>>
    BY <1>4 DEF ChangeVerified
  <2>2. attempts' \in [Route -> [Browser -> 0 .. AttemptLimit]]
    <3>1. "change" \in Route
      BY DEF Route
    <3> QED  BY <1>0, <1>1, <2>1, <3>1, CountedType
  <2>3. new \in AdmittedRequest
    <3> DEFINE q == pwRequest[r]
    <3>1. q \in AdmittedRequest
      BY <1>0
    <3> HIDE DEF q
    <3>2. [q EXCEPT !.stage = "hashing"] \in AdmittedRequest
      BY <3>1, Zenon DEF AdmittedRequest
    <3> QED  BY <3>2 DEF q
  <2>4. /\ new.stale = pwRequest[r].stale /\ new.route = pwRequest[r].route
        /\ new.against = pwRequest[r].against /\ new.wanted = pwRequest[r].wanted
        /\ pwRequest[r].route = "change"
    BY <1>0, <1>4 DEF AdmittedRequest, ChangeVerified
  <2> HIDE DEF new
  <2>5. PwTypeOK'
    BY <1>0, <2>1, <2>2, <2>3 DEF PwTypeOK
  <2>6. \A q \in PwRequest : Busy(q)' =>
          /\ Busy(q) /\ pwRequest'[q].stale = pwRequest[q].stale
          /\ pwRequest'[q].route = pwRequest[q].route
          /\ pwRequest'[q].against = pwRequest[q].against
          /\ pwRequest'[q].wanted = pwRequest[q].wanted
          /\ \/ pwRequest'[q].stage = pwRequest[q].stage
             \/ pwRequest[q].route = "change"
    BY <1>0, <2>1, <2>4 DEF PwTypeOK, Busy
  <2> QED  BY <2>1, <2>5, <2>6, QuietPreserves
<1> QED  BY <1>2, <1>3, <1>4

LEMMA ChangeEndPreserves ==
    ASSUME PwInv, NEW r \in PwRequest, ChangeEnds(r)
    PROVE  PwInv'
<1>0. PwTypeOK /\ UNCHANGED <<env, writable, attempts, signedIn>>
  BY DEF PwInv, ChangeEnds
<1>1. Answered(r) \in [PwRequest -> AdmittedRequest \cup {NoRequest}]
  BY <1>0 DEF PwTypeOK, Answered
<1>2. CASE ChangeSaved(r)
  <2>1. /\ stored' = pwRequest[r].wanted /\ readable' = TRUE
        /\ pwRequest' = Outdated(Answered(r))
    BY <1>2 DEF ChangeSaved
  <2>2. pwRequest[r].wanted \in Chosen
    BY DEF ChangeEnds, PwInv, Wanting
  <2>3. PwTypeOK'
    BY <1>0, <1>1, <2>1, <2>2, OutdatedType DEF PwTypeOK
  <2> QED  BY <2>1, <2>3, OutdatedPreserves
<1>3. CASE ChangeLost(r)
  <2>1. pwRequest' = Answered(r) /\ UNCHANGED <<stored, readable>>
    BY <1>3 DEF ChangeLost
  <2>2. PwTypeOK'
    BY <1>0, <1>1, <2>1 DEF PwTypeOK
  <2> QED  BY <1>0, <2>1, <2>2, AnsweredRequests, QuietPreserves
<1> QED  BY <1>2, <1>3 DEF ChangeEnds

(* The limiters, the disk, the operator, the process.                       *)
LEMMA SurroundingsPreserve ==
    ASSUME PwInv,
           \/ \E b \in Browser : SessionEnds(b)
           \/ \E route \in Route, b \in Browser : WindowEnds(route, b)
           \/ StoreDamaged \/ StoreRepaired \/ DirectoryMode \/ StoreRemoved
           \/ ServerRestarts
    PROVE  PwInv'
<1>0. PwTypeOK /\ 0 \in 0 .. AttemptLimit
  BY PasswordAssumption DEF PwInv
<1>1. CASE StoreRemoved
  <2>1. pwRequest' = Outdated(pwRequest) /\ stored' = NoPassword /\ readable' = TRUE
        /\ UNCHANGED <<env, writable, attempts, signedIn>>
    BY <1>1 DEF StoreRemoved
  <2>2. PwTypeOK'
    BY <1>0, <2>1, OutdatedType DEF PwTypeOK
  <2> QED  BY <2>1, <2>2, OutdatedPreserves
<1>2. CASE ServerRestarts
  <2>1. PwTypeOK' /\ \A q \in PwRequest : ~Busy(q)'
    BY <1>0, <1>2 DEF ServerRestarts, PwTypeOK, Busy
  <2> QED  BY <2>1 DEF PwInv
<1>3. ASSUME UNCHANGED <<env, stored, pwRequest>>, PwTypeOK' PROVE PwInv'
  BY <1>3, QuietPreserves DEF Busy
<1>4. ASSUME NEW b \in Browser, SessionEnds(b) PROVE PwInv'
  BY <1>0, <1>3, <1>4 DEF SessionEnds, PwTypeOK
<1>5. ASSUME NEW route \in Route, NEW b \in Browser, WindowEnds(route, b) PROVE PwInv'
  <2>1. PwTypeOK'
    BY <1>0, <1>5, CountedType DEF WindowEnds, PwTypeOK
  <2> QED  BY <1>3, <1>5, <2>1 DEF WindowEnds
<1>6. CASE StoreDamaged \/ StoreRepaired
  BY <1>0, <1>3, <1>6 DEF StoreDamaged, StoreRepaired, PwTypeOK
<1>7. CASE DirectoryMode
  <2>1. writable' \in BOOLEAN /\ UNCHANGED <<env, stored, readable, pwRequest, attempts, signedIn>>
    BY <1>0, <1>7, Zenon DEF DirectoryMode, PwTypeOK
  <2> QED  BY <1>0, <1>3, <2>1 DEF PwTypeOK
<1> QED  BY <1>1, <1>2, <1>4, <1>5, <1>6, <1>7

LEMMA PwStepPreserves == PwInv /\ [PwNext]_pwVars => PwInv'
<1> SUFFICES ASSUME PwInv, [PwNext]_pwVars PROVE PwInv'
  OBVIOUS
<1>1. CASE UNCHANGED pwVars
  <2>1. PwTypeOK'
    BY <1>1 DEF pwVars, PwInv, PwTypeOK
  <2> QED  BY <1>1, <2>1, QuietPreserves DEF pwVars, Busy
<1>2. ASSUME NEW r \in PwRequest, NEW b \in Browser, NEW right \in BOOLEAN,
             \/ AdmitLogin(r, b, right)
             \/ \E w \in Chosen : AdmitChange(r, b, right, w)
      PROVE  PwInv'
  <2>1. "login" \in Route /\ "change" \in Route /\ NoPassword \in Chosen \cup {NoPassword}
    BY DEF Route
  <2> QED  BY <1>2, <2>1, AdmitPreserves DEF AdmitLogin, AdmitChange
<1>3. ASSUME NEW r \in PwRequest, Refuse(r) \/ LoginSucceeds(r) \/ ChangeVerified(r)
      PROVE  PwInv'
  BY <1>3, PwRequestPreserves
<1>4. ASSUME NEW r \in PwRequest, ChangeEnds(r) PROVE PwInv'
  BY <1>4, ChangeEndPreserves
<1>5. ASSUME \/ \E b \in Browser : SessionEnds(b)
             \/ \E route \in Route, b \in Browser : WindowEnds(route, b)
             \/ StoreDamaged \/ StoreRepaired \/ DirectoryMode \/ StoreRemoved
             \/ ServerRestarts
      PROVE  PwInv'
  BY <1>5, SurroundingsPreserve
<1> QED  BY <1>1, <1>2, <1>3, <1>4, <1>5 DEF PwNext

LEMMA PasswordInvariant == PwSpec => []PwInv
<1> QED  BY PwInitHolds, PwStepPreserves, PTL DEF PwSpec

(* The environment, the store, the requests and the limits are of their     *)
(* types.                                                                   *)
THEOREM PasswordTypes == PwSpec => []PwTypeOK
<1>1. PwInv => PwTypeOK
  BY DEF PwInv
<1> QED  BY PasswordInvariant, <1>1, PTL

(* A login or a change is compared with the password in force, unless that  *)
(* was replaced while it ran: a password that was changed is not accepted   *)
(* again, also when the store breaks.                                       *)
THEOREM RetiredPasswords == PwSpec => []RetiredStaysRetired
<1>1. PwInv => RetiredStaysRetired
  BY DEF PwInv, RetiredStaysRetired, Current
<1> QED  BY PasswordInvariant, <1>1, PTL

-----------------------------------------------------------------------------
(* The keys under which the login route counts its clients.                 *)

Asked(peer, sentPeer, entries, hops) ==
    [peer |-> peer, sentPeer |-> sentPeer, entries |-> entries, hops |-> hops]

CkTypeOK ==
    request # NoClient =>
        \E peer \in Written \cup {NoAddress}, sentPeer \in Forged,
           entries \in Headers, hops \in Hops :
            request = Asked(peer, sentPeer, entries, hops)

LEMMA RequestsAreTyped ==
    /\ CkInit => CkTypeOK
    /\ CkTypeOK /\ [CkNext]_ckVars => CkTypeOK'
<1>1. CkInit => CkTypeOK
  BY DEF CkInit, CkTypeOK
<1>2. ASSUME CkTypeOK, [CkNext]_ckVars PROVE CkTypeOK'
  <2>1. CASE \E peer \in Written \cup {NoAddress}, sentPeer \in Forged,
                entries \in Headers, hops \in Hops : Arrive(peer, sentPeer, entries, hops)
    BY <2>1, Zenon DEF Arrive, CkTypeOK, Asked
  <2>2. CASE Leave
    BY <2>2 DEF Leave, CkTypeOK
  <2>3. CASE UNCHANGED ckVars
    BY <1>2, <2>3 DEF ckVars, CkTypeOK
  <2> QED
    BY <1>2, <2>1, <2>2, <2>3 DEF CkNext
<1> QED
  BY <1>1, <1>2

(* The key of a request does not depend on the peer header that was sent.   *)
LEMMA KeysAsked ==
    ASSUME NEW peer, NEW sentPeer, NEW entries, NEW hops
    PROVE  KeysOf(Asked(peer, sentPeer, entries, hops))
             = GetClientKeys(peer, entries, ParseTrustedProxyHops(hops))
<1>1. /\ Asked(peer, sentPeer, entries, hops).peer = peer
      /\ Asked(peer, sentPeer, entries, hops).entries = entries
      /\ Asked(peer, sentPeer, entries, hops).hops = hops
  BY DEF Asked
<1> QED
  BY <1>1, Zenon DEF KeysOf, StampPeerAddress

LEMMA HopsCounted ==
    /\ \A raw \in Hops : ParseTrustedProxyHops(raw) \in 0 .. 2
    /\ ParseTrustedProxyHops("") = 0
BY DEF ParseTrustedProxyHops

LEMMA HeadersAreLists ==
    ASSUME NEW entries \in Headers
    PROVE  Len(entries) \in Nat /\ entries \in Seq(Written \cup {NoAddress})
<1>1. PICK n \in 1 .. MaxEntries : entries \in [1 .. n -> Written \cup {NoAddress}]
  BY DEF Headers
<1>2. n \in Nat
  BY KeyAssumption
<1> QED
  BY <1>1, <1>2

(* An entry in front of the header is not the one that is counted.          *)
LEMMA FrontEntryIgnored ==
    ASSUME NEW entries \in Headers, NEW f, NEW hops \in 0 .. 2, Len(entries) >= hops
    PROVE  TrustedEntry(<<f>> \o entries, hops) = TrustedEntry(entries, hops)
<1>1. CASE hops = 0
  BY <1>1 DEF TrustedEntry
<1>2. CASE hops # 0
  <2> DEFINE n == Len(entries)
             all == <<f>> \o entries
             S == Written \cup {NoAddress, f}
  <2>1. n \in Nat /\ entries \in Seq(S) /\ <<f>> \in Seq(S)
    BY HeadersAreLists
  <2>2. Len(all) = n + 1 /\ \A i \in 1 .. n : all[i + 1] = entries[i]
    BY <2>1
  <2>3. n - hops + 1 \in 1 .. n /\ (n + 1) - hops + 1 = (n - hops + 1) + 1
    BY <1>2, <2>1
  <2> HIDE DEF all
  <2>4. all[Len(all) - hops + 1] = entries[n - hops + 1]
    BY <2>2, <2>3
  <2>5. TrustedEntry(all, hops) = all[Len(all) - hops + 1]
    BY <1>2, <2>1, <2>2 DEF TrustedEntry
  <2>6. TrustedEntry(entries, hops) = entries[n - hops + 1]
    BY <1>2, <2>1 DEF TrustedEntry
  <2> QED
    BY <2>4, <2>5, <2>6 DEF all
<1> QED
  BY <1>1, <1>2

LEMMA ForgeryMakesNoDifference == CkTypeOK => ForgeryIsIgnored
<1> SUFFICES ASSUME CkTypeOK, request # NoClient
             PROVE  LET hops == ParseTrustedProxyHops(request.hops)
                        n == Len(request.entries)
                    IN /\ \A f \in Forged :
                            KeysOf([request EXCEPT !.sentPeer = f]) = KeysOf(request)
                       /\ n >= hops => \A f \in Forged :
                            KeysOf([request EXCEPT !.entries = <<f>> \o @]) = KeysOf(request)
                       /\ (hops = 0 \/ n < hops) =>
                            KeysOf(request) = KeysOf([request EXCEPT !.hops = ""])
  BY DEF ForgeryIsIgnored
<1>1. PICK peer \in Written \cup {NoAddress}, sentPeer \in Forged,
           entries \in Headers, hops \in Hops :
        request = Asked(peer, sentPeer, entries, hops)
  BY DEF CkTypeOK
<1> DEFINE h == ParseTrustedProxyHops(hops)
           Keys(list, count) == GetClientKeys(peer, list, count)
<1>2. /\ request.hops = hops /\ request.entries = entries
      /\ KeysOf(request) = Keys(entries, h)
  <2>1. request.hops = hops /\ request.entries = entries
    BY <1>1 DEF Asked
  <2> QED
    BY <1>1, <2>1, KeysAsked
<1>3. ASSUME NEW x
      PROVE  /\ [request EXCEPT !.sentPeer = x] = Asked(peer, x, entries, hops)
             /\ [request EXCEPT !.entries = x] = Asked(peer, sentPeer, x, hops)
             /\ [request EXCEPT !.hops = x] = Asked(peer, sentPeer, entries, x)
  BY <1>1 DEF Asked
<1>4. /\ KeysOf([request EXCEPT !.hops = ""]) = Keys(entries, 0)
      /\ \A f \in Forged :
            /\ KeysOf([request EXCEPT !.sentPeer = f]) = Keys(entries, h)
            /\ KeysOf([request EXCEPT !.entries = <<f>> \o @]) = Keys(<<f>> \o entries, h)
  <2>1. /\ \A x : KeysOf([request EXCEPT !.sentPeer = x]) = Keys(entries, h)
        /\ \A x : KeysOf([request EXCEPT !.entries = x]) = Keys(x, h)
        /\ \A x : KeysOf([request EXCEPT !.hops = x])
                    = Keys(entries, ParseTrustedProxyHops(x))
    <3> SUFFICES ASSUME NEW x
                 PROVE  /\ KeysOf([request EXCEPT !.sentPeer = x]) = Keys(entries, h)
                        /\ KeysOf([request EXCEPT !.entries = x]) = Keys(x, h)
                        /\ KeysOf([request EXCEPT !.hops = x])
                             = Keys(entries, ParseTrustedProxyHops(x))
      OBVIOUS
    <3>1. /\ KeysOf(Asked(peer, x, entries, hops)) = Keys(entries, h)
          /\ KeysOf(Asked(peer, sentPeer, x, hops)) = Keys(x, h)
          /\ KeysOf(Asked(peer, sentPeer, entries, x))
               = Keys(entries, ParseTrustedProxyHops(x))
      BY KeysAsked
    <3>2. /\ [request EXCEPT !.sentPeer = x] = Asked(peer, x, entries, hops)
          /\ [request EXCEPT !.entries = x] = Asked(peer, sentPeer, x, hops)
          /\ [request EXCEPT !.hops = x] = Asked(peer, sentPeer, entries, x)
      BY <1>3
    <3> QED
      BY <3>1, <3>2
  <2> QED
    BY <2>1, <1>2, HopsCounted, Zenon
<1>5. h \in 0 .. 2
  BY HopsCounted
<1>6. ASSUME Len(entries) >= h, NEW f \in Forged
      PROVE  Keys(<<f>> \o entries, h) = Keys(entries, h)
  <2>1. TrustedEntry(<<f>> \o entries, h) = TrustedEntry(entries, h)
    BY <1>5, <1>6, FrontEntryIgnored
  <2> QED
    BY <2>1 DEF GetClientKeys
<1>7. ASSUME h = 0 \/ Len(entries) < h
      PROVE  Keys(entries, h) = Keys(entries, 0)
  <2>1. TrustedEntry(entries, h) = NoAddress /\ TrustedEntry(entries, 0) = NoAddress
    BY <1>7 DEF TrustedEntry
  <2> QED
    BY <2>1 DEF GetClientKeys
<1> HIDE DEF h, Keys
<1> QED
  BY <1>2, <1>4, <1>6, <1>7 DEF h

(* getClientKeys(), withPeerAddress(): for every header and every number of *)
(* proxies, what a client writes itself does not choose its key.            *)
THEOREM ForgeriesAreIgnored == CkSpec => []ForgeryIsIgnored
BY RequestsAreTyped, ForgeryMakesNoDifference, PTL DEF CkSpec

-----------------------------------------------------------------------------
(* One client, one key.                                                     *)

IsV4(x) == x.family = 4 \/ MappedIPv4(x.parts)

V4Of(x) ==
    IF x.family = 4 THEN x.parts
    ELSE <<x.parts[7] \div 256, x.parts[7] % 256, x.parts[8] \div 256, x.parts[8] % 256>>

V6Key(g) == SubSeq(g, 1, 4) \o <<"/64">>

Named(key, parent) == {[key |-> key, parent |-> parent]}

LEMMA NamesAreEqual ==
    ASSUME NEW k, NEW l, NEW q, NEW r
    PROVE  Named(k, q) = Named(l, r) <=> k = l /\ q = r
<1>1. ASSUME Named(k, q) = Named(l, r) PROVE k = l /\ q = r
  <2>1. [key |-> k, parent |-> q] = [key |-> l, parent |-> r]
    BY <1>1, Zenon DEF Named
  <2> QED
    BY <2>1
<1> QED
  BY <1>1

(* The shape of an address and of its key.                                  *)
LEMMA FunctionsAreSequences ==
    ASSUME NEW n \in Nat, NEW S, NEW f \in [1 .. n -> S]
    PROVE  f \in Seq(S) /\ Len(f) = n
OBVIOUS

LEMMA AddressShape ==
    ASSUME NEW a \in Text
    PROVE  /\ \/ a.family = 4 /\ a.parts \in [1 .. 4 -> Byte]
              \/ a.family = 6 /\ a.parts \in [1 .. 8 -> Word]
           /\ IsV4(a) => V4Of(a) \in Seq(Nat) /\ Len(V4Of(a)) = 4
<1>1. \/ a.family = 4 /\ a.parts \in [1 .. 4 -> Byte]
      \/ a.family = 6 /\ a.parts \in [1 .. 8 -> Word]
  BY DEF Text
<1>2. CASE a.family = 4
  <2>1. V4Of(a) = a.parts /\ a.parts \in [1 .. 4 -> Byte]
    BY <1>1, <1>2 DEF V4Of
  <2>2. \A n \in Byte : n \in Nat
    BY DEF Byte
  <2>3. a.parts \in [1 .. 4 -> Nat]
    BY <2>1, <2>2
  <2>4. a.parts \in Seq(Nat) /\ Len(a.parts) = 4
    BY <2>3, FunctionsAreSequences, Zenon
  <2> QED
    BY <2>1, <2>4, <1>1
<1>3. CASE a.family = 6
  <2>0. \A n \in Word : n \in Nat
    BY DEF Word
  <2>1. \A i \in 1 .. 8 : a.parts[i] \in Nat /\ a.parts[i] \div 256 \in Nat /\ a.parts[i] % 256 \in Nat
    BY <1>1, <1>3, <2>0
  <2> QED
    BY <2>1, <1>1, <1>3 DEF V4Of
<1> QED
  BY <1>1, <1>2, <1>3

LEMMA V6KeyShape ==
    ASSUME NEW g \in [1 .. 8 -> Word]
    PROVE  /\ Len(V6Key(g)) = 5
           /\ \A i \in 1 .. 4 : V6Key(g)[i] = g[i]
           /\ Len(SubSeq(g, 1, 3)) = 3
           /\ \A i \in 1 .. 3 : SubSeq(g, 1, 3)[i] = g[i]
<1> DEFINE S == Word \cup {"/64"}
<1>1. g \in Seq(S) /\ Len(g) = 8
  <2>1. g \in [1 .. 8 -> S]
    OBVIOUS
  <2> QED
    BY <2>1, FunctionsAreSequences, Zenon
<1>2. /\ SubSeq(g, 1, 4) \in Seq(S) /\ Len(SubSeq(g, 1, 4)) = 4
      /\ \A i \in 1 .. 4 : SubSeq(g, 1, 4)[i] = g[i]
  BY <1>1
<1>3. Len(SubSeq(g, 1, 3)) = 3 /\ \A i \in 1 .. 3 : SubSeq(g, 1, 3)[i] = g[i]
  BY <1>1
<1>4. <<"/64">> \in Seq(S) /\ Len(<<"/64">>) = 1
  OBVIOUS
<1> QED
  BY <1>2, <1>3, <1>4 DEF V6Key

ParentName(g) == SubSeq(g, 1, 3)

LEMMA V6KeysAreEqual ==
    ASSUME NEW g \in [1 .. 8 -> Word], NEW h \in [1 .. 8 -> Word]
    PROVE  /\ V6Key(g) = V6Key(h) <=> \A i \in 1 .. 4 : g[i] = h[i]
           /\ V6Key(g) = V6Key(h) => ParentName(g) = ParentName(h)
<1>1. ASSUME V6Key(g) = V6Key(h) PROVE \A i \in 1 .. 4 : g[i] = h[i]
  BY <1>1, V6KeyShape
<1>2. ASSUME \A i \in 1 .. 4 : g[i] = h[i]
      PROVE  V6Key(g) = V6Key(h) /\ ParentName(g) = ParentName(h)
  <2>1. SubSeq(g, 1, 4) = SubSeq(h, 1, 4) /\ SubSeq(g, 1, 3) = SubSeq(h, 1, 3)
    BY <1>2
  <2> QED
    BY <2>1, Zenon DEF V6Key, ParentName
<1> QED
  BY <1>1, <1>2

(* parseClient() of an address that can be read.                            *)
LEMMA AddressParsed ==
    ASSUME NEW a \in Text, Legible(a)
    PROVE  /\ IsV4(a) => ParseClient(a) = Named(V4Of(a), <<>>)
           /\ ~IsV4(a) => ParseClient(a) = Named(V6Key(a.parts), ParentName(a.parts))
<1>1. a # NoAddress
  BY KeyAssumption
<1>2. a.family = 4 \/ a.family = 6
  BY AddressShape
<1>3. CASE a.family = 4
  <2>1. ParseClient(a) = {[key |-> a.parts, parent |-> <<>>]}
    BY <1>1, <1>3 DEF ParseClient
  <2> QED
    BY <2>1, <1>3, Zenon DEF IsV4, V4Of, Named
<1>4. CASE a.family # 4
  <2>1. ParseClient(a) =
          IF MappedIPv4(a.parts)
            THEN {[key |-> <<a.parts[7] \div 256, a.parts[7] % 256,
                             a.parts[8] \div 256, a.parts[8] % 256>>,
                   parent |-> <<>>]}
            ELSE {[key |-> SubSeq(a.parts, 1, 4) \o <<"/64">>, parent |-> SubSeq(a.parts, 1, 3)]}
    BY <1>1, <1>4, Zenon DEF ParseClient
  <2> QED
    BY <2>1, <1>4, Zenon DEF IsV4, V4Of, V6Key, ParentName, Named
<1> QED
  BY <1>3, <1>4

LEMMA KeyTellsClients ==
    ASSUME NEW a \in Text, NEW b \in Text, Legible(a), Legible(b)
    PROVE  ParseClient(a) = ParseClient(b) <=> SameClient(a, b)
<1>1. SameClient(a, b) <=>
        IF IsV4(a) \/ IsV4(b) THEN IsV4(a) /\ IsV4(b) /\ V4Of(a) = V4Of(b)
        ELSE \A i \in 1 .. 4 : a.parts[i] = b.parts[i]
  BY Zenon DEF SameClient, IsV4, V4Of
<1>2. ~IsV4(a) => a.parts \in [1 .. 8 -> Word]
  BY AddressShape DEF IsV4
<1>3. ~IsV4(b) => b.parts \in [1 .. 8 -> Word]
  BY AddressShape DEF IsV4
<1>4. /\ IsV4(a) => Len(V4Of(a)) = 4
      /\ IsV4(b) => Len(V4Of(b)) = 4
      /\ ~IsV4(a) => Len(V6Key(a.parts)) = 5
      /\ ~IsV4(b) => Len(V6Key(b.parts)) = 5
  BY <1>2, <1>3, AddressShape, V6KeyShape
<1>5. CASE IsV4(a) /\ IsV4(b)
  BY <1>1, <1>5, AddressParsed, NamesAreEqual
<1>6. CASE IsV4(a) /\ ~IsV4(b)
  <2>1. V4Of(a) # V6Key(b.parts)
    BY <1>4, <1>6
  <2> QED
    BY <2>1, <1>1, <1>6, AddressParsed, NamesAreEqual
<1>7. CASE ~IsV4(a) /\ IsV4(b)
  <2>1. V6Key(a.parts) # V4Of(b)
    BY <1>4, <1>7
  <2> QED
    BY <2>1, <1>1, <1>7, AddressParsed, NamesAreEqual
<1>8. CASE ~IsV4(a) /\ ~IsV4(b)
  <2>1. ParseClient(a) = ParseClient(b)
          <=> V6Key(a.parts) = V6Key(b.parts) /\ ParentName(a.parts) = ParentName(b.parts)
    BY <1>8, AddressParsed, NamesAreEqual
  <2> QED
    BY <2>1, <1>1, <1>2, <1>3, <1>8, V6KeysAreEqual
<1> QED
  BY <1>5, <1>6, <1>7, <1>8

(* parseClient(): for all addresses that may be written, two of them have   *)
(* one key if and only if they are the same client's.                       *)
THEOREM ClientsHaveOneKey == CkSpec => []OneClientOneKey
<1>1. CkTypeOK => OneClientOneKey
  <2> SUFFICES ASSUME CkTypeOK, request # NoClient, request.peer # NoAddress,
                      NEW b \in Written, Legible(request.peer), Legible(b)
               PROVE  ParseClient(request.peer) = ParseClient(b)
                        <=> SameClient(request.peer, b)
    BY DEF OneClientOneKey
  <2>1. PICK peer \in Written \cup {NoAddress}, sentPeer \in Forged,
             entries \in Headers, hops \in Hops :
          request = Asked(peer, sentPeer, entries, hops)
    BY DEF CkTypeOK
  <2>2. request.peer = peer
    BY <2>1 DEF Asked
  <2>3. request.peer \in Text /\ b \in Text
    BY <2>2, KeyAssumption
  <2> QED
    BY <2>3, KeyTellsClients
<1> QED
  BY <1>1, RequestsAreTyped, PTL DEF CkSpec

-----------------------------------------------------------------------------
(* Calls of the gateway.                                                    *)

(* The six routes do one of two things: they begin a call, the agents' logs *)
(* with the URL that the agent reported, or they reply when the body was    *)
(* read or cancelled.                                                       *)
Begins(c) ==
    \E caller \in Caller, url \in GatewayUrl \cup {NoUrl}, source \in Source :
        /\ Begin(c, caller, url, source)
        /\ caller = "agentLogs" => source = "remote" /\ url # NoUrl

Replies(c) ==
    \E caller \in Caller, body \in {"read", "cancelled"} : Finish(c, caller, body)

LEMMA HeaderBegins ==
    ASSUME NEW c, NEW caller \in Caller \ {"agentLogs"}, BeginFromHeader(c, caller)
    PROVE  Begins(c)
<1>1. PICK url \in GatewayUrl \cup {NoUrl} : Begin(c, caller, url, "operator")
  BY DEF BeginFromHeader
<1>2. "operator" \in Source /\ caller \in Caller /\ caller # "agentLogs"
  BY DEF Source
<1> QED  BY <1>1, <1>2 DEF Begins

LEMMA RouteKinds ==
    ASSUME NEW c,
           \/ CatchAllRoute(c) \/ CronRoute(c) \/ SessionsRoute(c)
           \/ HeartbeatRoute(c) \/ MemoryRoute(c) \/ AgentLogsRoute(c)
    PROVE  Begins(c) \/ Replies(c)
<1>0. {"catchAll", "cron", "sessions", "heartbeat", "memory"} = Caller \ {"agentLogs"}
      /\ "agentLogs" \in Caller /\ "remote" \in Source
  BY DEF Caller, Source
<1>1. CASE CatchAllRoute(c) \/ CronRoute(c)
  <2>1. CASE \E caller \in {"catchAll", "cron"} : BeginFromHeader(c, caller)
    BY <2>1, <1>0, HeaderBegins
  <2>2. CASE \E caller \in {"catchAll", "cron"} : Finish(c, caller, "read")
    BY <2>2, <1>0 DEF Replies
  <2> QED  BY <1>1, <2>1, <2>2 DEF CatchAllRoute, CronRoute
<1>2. CASE SessionsRoute(c) \/ HeartbeatRoute(c) \/ MemoryRoute(c)
  <2>1. CASE \E caller \in {"sessions", "heartbeat", "memory"} : BeginFromHeader(c, caller)
    BY <2>1, <1>0, HeaderBegins
  <2>2. CASE \E caller \in {"sessions", "heartbeat", "memory"}, ok \in BOOLEAN :
               Finish(c, caller, IF ok THEN "read" ELSE "cancelled")
    BY <2>2, <1>0 DEF Replies
  <2> QED  BY <1>2, <2>1, <2>2 DEF SessionsRoute, HeartbeatRoute, MemoryRoute
<1>3. CASE AgentLogsRoute(c)
  <2>1. CASE \E url \in GatewayUrl : Begin(c, "agentLogs", url, "remote")
    <3>1. PICK url \in GatewayUrl : Begin(c, "agentLogs", url, "remote")
      BY <2>1
    <3>2. url # NoUrl
      BY GatewayAssumption
    <3> QED  BY <1>0, <3>1, <3>2 DEF Begins
  <2>2. CASE \E ok \in BOOLEAN : Finish(c, "agentLogs", IF ok THEN "read" ELSE "cancelled")
    BY <2>2, <1>0 DEF Replies
  <2> QED  BY <1>3, <2>1, <2>2 DEF AgentLogsRoute
<1> QED  BY <1>1, <1>2, <1>3

-----------------------------------------------------------------------------
(* What the URL rule lets through.                                          *)

LEMMA TrustedIsDefault ==
    ASSUME NEW url, NEW trust \in BOOLEAN, CheckGatewayUrl(url, trust) = "trusted"
    PROVE  trust /\ url = DefaultUrl
BY DEF CheckGatewayUrl

LEMMA AllowedIsListed ==
    ASSUME NEW url \in GatewayUrl, NEW trust \in BOOLEAN,
           CheckGatewayUrl(url, trust) = "allowed"
    PROVE  url.scheme = "https" /\ \E e \in AllowedEntry : e.host = url.host
<1>1. url.scheme = "https" /\ \E e \in AllowedGatewayHosts : e.host = url.host
  BY DEF CheckGatewayUrl
<1>2. PICK e \in AllowedGatewayHosts : e.host = url.host
  BY <1>1
<1>3. PICK entry \in AllowedEntry : e \in ParseAllowedHost(entry)
  BY <1>2 DEF AllowedGatewayHosts
<1>4. e.host = entry.host
  <2>1. e = [host |-> entry.host, port |-> 443] \/ e = entry
    BY <1>3, Zenon DEF ParseAllowedHost
  <2> QED  BY <2>1
<1> QED  BY <1>1, <1>2, <1>4

(* The lookup hands on public addresses or none.                            *)
LEMMA JudgedIsPublic ==
    ASSUME NEW answers \in SUBSET Address, NEW family
    PROVE  Judge(answers, family) \subseteq PublicAddress
BY DEF Judge, IsPrivate

-----------------------------------------------------------------------------
(* The inductive invariant.  The properties are three of its conjuncts'     *)
(* consequences; the rest is what each hand-over relies on.                 *)

(* A call's URL passed the rule for the one who chose it.                   *)
UrlPassed(c) ==
    IF call[c].via = "direct"
      THEN call[c].url = DefaultUrl /\ call[c].caller # "agentLogs"
      ELSE /\ call[c].url.scheme = "https"
           /\ \E e \in AllowedEntry : e.host = call[c].url.host

(* An attempt that connects does so to public addresses; one that looks     *)
(* its host up has a name for it.                                           *)
BoundForPublic(c) ==
    /\ Connecting(c) => attempt[c].usable \subseteq PublicAddress
    /\ attempt[c] # NoAttempt /\ attempt[c].stage = "resolving" =>
         attempt[c].origin.host \in HostName

GwInv ==
    /\ GwTypeOK
    /\ \A k \in connections : k.address \in PublicAddress
    /\ \A c \in Call : BoundForPublic(c)
    /\ \A c \in Call : ~Free(c) => UrlPassed(c)
    /\ \A c \in unread : InStage(c, "answered")

LEMMA GwInitHolds == GwInit => GwInv
<1> SUFFICES ASSUME GwInit PROVE GwInv
  OBVIOUS
<1> USE DEF GwInit
<1>1. dns \in [HostName -> SUBSET Address]
  <2>1. {{a} : a \in PublicAddress} \subseteq SUBSET Address
    BY GatewayAssumption
  <2> QED  BY <2>1
<1> QED  BY <1>1 DEF GwInv, GwTypeOK, BoundForPublic, Connecting, Free

(* A call that begins has passed the rule; a connection is attempted to a   *)
(* literal that is public, or to nothing before the name is resolved.       *)
LEMMA BeginPreserves ==
    ASSUME GwInv, NEW c \in Call, Begins(c)
    PROVE  GwInv'
<1> USE DEF GwInv, GwTypeOK
<1>1. PICK caller \in Caller, url \in GatewayUrl \cup {NoUrl}, source \in Source :
        /\ Begin(c, caller, url, source)
        /\ caller = "agentLogs" => source = "remote" /\ url # NoUrl
  BY DEF Begins
<1>2. IsOperatorChosen(url, source) \in BOOLEAN
  BY Zenon DEF IsOperatorChosen
<1>3. IsOperatorChosen(url, source) => caller # "agentLogs"
  <2>1. source \in Source /\ (source = "remote" => source # "operator")
    OBVIOUS
  <2> QED  BY <1>1, <2>1 DEF IsOperatorChosen
<1>4. CASE SendDirect(c, caller, url, source)
  <2> DEFINE base == IF url = NoUrl THEN DefaultUrl ELSE url
  <2>1. base \in GatewayUrl
    BY GatewayAssumption
  <2>2. CheckGatewayUrl(base, IsOperatorChosen(url, source)) = "trusted"
    BY <1>4 DEF SendDirect
  <2>3. IsOperatorChosen(url, source) /\ base = DefaultUrl
    BY <2>2, <1>2, TrustedIsDefault
  <2> DEFINE new == NewCall(caller, base, "direct", "sent")
  <2>4. /\ new \in ActiveCall
        /\ new.via = "direct" /\ new.url = base /\ new.caller = caller
        /\ new.stage = "sent"
    BY <2>1, <1>1 DEF NewCall, ActiveCall
  <2>5. /\ call' = [call EXCEPT ![c] = new]
        /\ UNCHANGED <<dns, connections, attempt, unread>>
        /\ c \notin unread
    BY <1>4 DEF SendDirect, Unused
  <2> HIDE DEF new, base
  <2>6. GwTypeOK'
    BY <2>4, <2>5
  <2>7. \A d \in Call : BoundForPublic(d)'
    BY <2>5 DEF BoundForPublic, Connecting
  <2>8. \A d \in Call : ~Free(d)' => UrlPassed(d)'
    BY <2>3, <2>4, <2>5, <1>3 DEF UrlPassed, Free
  <2>9. \A d \in unread' : InStage(d, "answered")'
    BY <2>5 DEF InStage, Free
  <2> QED  BY <2>5, <2>6, <2>7, <2>8, <2>9
<1>5. ASSUME url # NoUrl, CheckGatewayUrl(url, IsOperatorChosen(url, source)) = "allowed",
             NEW stage \in {"connecting", "sent"},
             call' = [call EXCEPT ![c] = NewCall(caller, url, "pinned", stage)],
             Unused(c), UNCHANGED unread
      PROVE  /\ call' \in [Call -> ActiveCall \cup {NoCall}]
             /\ \A d \in Call : ~Free(d)' => UrlPassed(d)'
             /\ \A d \in unread' : InStage(d, "answered")'
  <2> DEFINE new == NewCall(caller, url, "pinned", stage)
  <2>1. url.scheme = "https" /\ \E e \in AllowedEntry : e.host = url.host
    BY <1>5, <1>2, AllowedIsListed
  <2>2. new \in ActiveCall /\ new.via = "pinned" /\ new.url = url
    BY <1>1, <1>5 DEF NewCall, ActiveCall
  <2>3. call' = [call EXCEPT ![c] = new]
    BY <1>5
  <2> HIDE DEF new
  <2>4. \A d \in Call : ~Free(d)' => UrlPassed(d)'
    BY <2>1, <2>2, <2>3 DEF UrlPassed, Free
  <2>5. \A d \in unread' : InStage(d, "answered")'
    BY <1>5, <2>3 DEF InStage, Free, Unused
  <2> QED  BY <2>2, <2>3, <2>4, <2>5
<1>6. CASE SendPooled(c, caller, url, source)
  <2>1. UNCHANGED <<dns, connections, attempt, unread>>
    BY <1>6 DEF SendPooled
  <2>2. /\ call' \in [Call -> ActiveCall \cup {NoCall}]
        /\ \A d \in Call : ~Free(d)' => UrlPassed(d)'
        /\ \A d \in unread' : InStage(d, "answered")'
    BY <1>5, <1>6 DEF SendPooled
  <2>3. \A d \in Call : BoundForPublic(d)'
    BY <2>1 DEF BoundForPublic, Connecting
  <2> QED  BY <2>1, <2>2, <2>3
<1>7. CASE SendConnecting(c, caller, url, source)
  <2> DEFINE new == IF url.host \in Address
                      THEN [origin |-> url, stage |-> "connecting", usable |-> {url.host}]
                      ELSE [origin |-> url, stage |-> "resolving", usable |-> {}]
  <2>1. UNCHANGED <<dns, connections, unread>> /\ attempt' = [attempt EXCEPT ![c] = new]
        /\ ~IsPrivate(url.host) /\ url \in GatewayUrl
    BY <1>7 DEF SendConnecting
  <2>2. /\ call' \in [Call -> ActiveCall \cup {NoCall}]
        /\ \A d \in Call : ~Free(d)' => UrlPassed(d)'
        /\ \A d \in unread' : InStage(d, "answered")'
    BY <1>5, <1>7 DEF SendConnecting
  <2>3. new \in Attempt /\ (new.stage = "connecting" => new.usable \subseteq PublicAddress)
    <3>1. CASE url.host \in Address
      BY <2>1, <3>1 DEF Attempt, IsPrivate
    <3>2. CASE url.host \notin Address
      BY <2>1, <3>2 DEF Attempt
    <3> QED  BY <3>1, <3>2
  <2>6. new.stage = "resolving" => new.origin.host \in HostName
    <3>1. url.host \in Host
      BY <2>1, GatewayAssumption
    <3> QED  BY <3>1 DEF Host
  <2> HIDE DEF new
  <2>4. GwTypeOK'
    BY <2>1, <2>2, <2>3
  <2>5. \A d \in Call : BoundForPublic(d)'
    BY <2>1, <2>3, <2>6 DEF BoundForPublic, Connecting
  <2> QED  BY <2>1, <2>2, <2>4, <2>5
<1> QED  BY <1>1, <1>4, <1>6, <1>7 DEF Begin

(* A call that is over, in whichever way, leaves the others as they are.    *)
LEMMA ReplyPreserves ==
    ASSUME GwInv, NEW c \in Call, Replies(c)
    PROVE  GwInv'
<1> USE DEF GwInv, GwTypeOK
<1>1. /\ call' = [call EXCEPT ![c] = NoCall]
      /\ unread' = unread \ {c}
      /\ UNCHANGED <<dns, connections, attempt>>
  BY DEF Replies, Finish
<1> QED  BY <1>1 DEF UrlPassed, Free, InStage, BoundForPublic, Connecting

LEMMA GiveUpPreserves ==
    ASSUME GwInv, NEW c \in Call, GiveUp(c), UNCHANGED <<dns, connections, unread>>
    PROVE  GwInv'
<1> USE DEF GwInv, GwTypeOK
<1>1. attempt' = [attempt EXCEPT ![c] = NoAttempt]
  BY DEF GiveUp
<1>2. \/ call' = call
      \/ call' = [call EXCEPT ![c] = NoCall] /\ InStage(c, "connecting")
  BY DEF GiveUp
<1>3. InStage(c, "connecting") => c \notin unread
  BY DEF InStage
<1> QED  BY <1>1, <1>2, <1>3 DEF UrlPassed, Free, InStage, BoundForPublic, Connecting

(* Whatever DNS says, what is usable is public.                             *)
LEMMA ResolvePreserves ==
    ASSUME GwInv, NEW c \in Call, NEW family, Resolve(c, family)
    PROVE  GwInv'
<1> USE DEF GwInv, GwTypeOK
<1> DEFINE usable == Judge(dns[attempt[c].origin.host], family)
<1>0. UNCHANGED <<dns, connections, unread>> /\ attempt[c] \in Attempt
      /\ attempt[c].stage = "resolving"
  BY DEF Resolve
<1>1. CASE usable = {} /\ GiveUp(c)
  BY <1>0, <1>1, GiveUpPreserves
<1>2. CASE /\ attempt' = [attempt EXCEPT ![c] =
                 [origin |-> attempt[c].origin, stage |-> "connecting", usable |-> usable]]
           /\ UNCHANGED call
  <2>1. usable \subseteq PublicAddress /\ PublicAddress \subseteq Address
    <3>1. attempt[c].origin.host \in HostName
      BY <1>0 DEF BoundForPublic, Resolve
    <3>2. dns[attempt[c].origin.host] \in SUBSET Address
      BY <3>1
    <3> QED  BY <3>2, JudgedIsPublic, GatewayAssumption
  <2> DEFINE new == [origin |-> attempt[c].origin, stage |-> "connecting", usable |-> usable]
  <2>2. new \in Attempt /\ new.usable \subseteq PublicAddress
    BY <1>0, <2>1 DEF Attempt
  <2> HIDE DEF usable, new
  <2>3. attempt' = [attempt EXCEPT ![c] = new]
    BY <1>2 DEF new
  <2> QED
    BY <1>0, <1>2, <2>2, <2>3 DEF UrlPassed, Free, InStage, BoundForPublic, Connecting
<1> QED  BY <1>1, <1>2 DEF Resolve

LEMMA ConnectPreserves ==
    ASSUME GwInv, NEW c \in Call, ConnectPinned(c)
    PROVE  GwInv'
<1> USE DEF GwInv, GwTypeOK
<1>1. PICK a \in attempt[c].usable :
        connections' = connections \cup {[origin |-> attempt[c].origin, address |-> a]}
  BY DEF ConnectPinned, ConnectTargets
<1>2. /\ attempt[c] \in Attempt /\ a \in PublicAddress /\ a \in Address
      /\ attempt' = [attempt EXCEPT ![c] = NoAttempt]
      /\ UNCHANGED <<dns, unread>>
  BY <1>1, GatewayAssumption DEF ConnectPinned, BoundForPublic, Connecting
<1>3. connections' \subseteq Connection /\ \A k \in connections' : k.address \in PublicAddress
  BY <1>1, <1>2 DEF Connection, Attempt
<1>4. \A d \in Call : BoundForPublic(d)'
  BY <1>2 DEF BoundForPublic, Connecting
<1>5. /\ call' \in [Call -> ActiveCall \cup {NoCall}]
      /\ \A d \in Call : ~Free(d)' => UrlPassed(d)'
      /\ \A d \in unread' : InStage(d, "answered")'
  <2>1. CASE ~InStage(c, "connecting")
    BY <1>2, <2>1 DEF ConnectPinned, UrlPassed, Free, InStage
  <2>2. CASE InStage(c, "connecting")
    <3> DEFINE new == [call[c] EXCEPT !.stage = "sent"]
    <3>1. call' = [call EXCEPT ![c] = new] /\ c \notin unread /\ ~Free(c)
      BY <2>2 DEF ConnectPinned, InStage
    <3>2. /\ new \in ActiveCall /\ new.via = call[c].via /\ new.url = call[c].url
          /\ new.caller = call[c].caller
      BY <3>1 DEF ActiveCall, Free
    <3> HIDE DEF new
    <3> QED  BY <1>2, <3>1, <3>2 DEF UrlPassed, Free, InStage
  <2> QED  BY <2>1, <2>2
<1> QED  BY <1>2, <1>3, <1>4, <1>5

LEMMA GatewayAnswerPreserves ==
    ASSUME GwInv, NEW c \in Call, GatewayAnswers(c)
    PROVE  GwInv'
<1> USE DEF GwInv, GwTypeOK
<1> DEFINE new == [call[c] EXCEPT !.stage = "answered"]
<1>1. /\ call' = [call EXCEPT ![c] = new] /\ ~Free(c)
      /\ unread' = unread \cup {c}
      /\ UNCHANGED <<dns, connections, attempt>>
  BY DEF GatewayAnswers, InStage
<1>2. /\ new \in ActiveCall /\ new.via = call[c].via /\ new.url = call[c].url
      /\ new.caller = call[c].caller /\ new.stage = "answered"
  BY <1>1 DEF ActiveCall, Free
<1>3. new # NoCall
  BY <1>2, GatewayAssumption
<1> HIDE DEF new
<1> QED  BY <1>1, <1>2, <1>3 DEF UrlPassed, Free, InStage, BoundForPublic, Connecting

LEMMA CallEndPreserves ==
    ASSUME GwInv, NEW c \in Call, CallEnds(c)
    PROVE  GwInv'
<1> USE DEF GwInv, GwTypeOK
<1>1. /\ call' = [call EXCEPT ![c] = NoCall]
      /\ UNCHANGED <<dns, connections, attempt, unread>>
      /\ c \notin unread
  BY DEF CallEnds, InStage
<1> QED  BY <1>1 DEF UrlPassed, Free, InStage, BoundForPublic, Connecting

(* Every step keeps the invariant.                                          *)
LEMMA GwStepPreserves == GwInv /\ [GwNext]_gwVars => GwInv'
<1> SUFFICES ASSUME GwInv, [GwNext]_gwVars PROVE GwInv'
  OBVIOUS
<1>1. CASE UNCHANGED gwVars
  BY <1>1 DEF gwVars, GwInv, GwTypeOK, UrlPassed, Free, InStage, BoundForPublic, Connecting
<1>2. ASSUME NEW c \in Call,
             \/ CatchAllRoute(c) \/ CronRoute(c) \/ SessionsRoute(c)
             \/ HeartbeatRoute(c) \/ MemoryRoute(c) \/ AgentLogsRoute(c)
      PROVE  GwInv'
  BY <1>2, RouteKinds, BeginPreserves, ReplyPreserves
<1>3. ASSUME NEW c \in Call, NEW family, Resolve(c, family) PROVE GwInv'
  BY <1>3, ResolvePreserves
<1>4. ASSUME NEW c \in Call,
             ConnectPinned(c) \/ ConnectFails(c) \/ GatewayAnswers(c) \/ CallEnds(c)
      PROVE  GwInv'
  BY <1>4, ConnectPreserves, GiveUpPreserves, GatewayAnswerPreserves, CallEndPreserves
     DEF ConnectFails
<1>5. ASSUME NEW k \in connections, ConnectionEnds(k) PROVE GwInv'
  BY <1>5 DEF ConnectionEnds, GwInv, GwTypeOK, UrlPassed, Free, InStage, BoundForPublic,
     Connecting
<1>6. ASSUME NEW h \in HostName, NEW answers \in SUBSET Address, DnsChanges(h, answers)
      PROVE  GwInv'
  BY <1>6 DEF DnsChanges, GwInv, GwTypeOK, UrlPassed, Free, InStage, BoundForPublic,
     Connecting
<1> QED  BY <1>1, <1>2, <1>3, <1>4, <1>5, <1>6 DEF GwNext

LEMMA GatewayInvariant == GwSpec => []GwInv
<1> QED  BY GwInitHolds, GwStepPreserves, PTL DEF GwSpec

(* Every call, attempt and connection is of its type.                       *)
THEOREM GatewayTypes == GwSpec => []GwTypeOK
<1>1. GwInv => GwTypeOK
  BY DEF GwInv
<1> QED  BY GatewayInvariant, <1>1, PTL

(* The pinned pool and its attempts lead to public addresses only, however  *)
(* DNS answers change before, between and after the lookups.                *)
THEOREM PinnedConnections == GwSpec => []PinnedIsPublic
<1>1. GwInv => PinnedIsPublic
  BY DEF GwInv, PinnedIsPublic, BoundForPublic
<1> QED  BY GatewayInvariant, <1>1, PTL

(* Only a caller on the operator's side is exempt from the URL rule, and    *)
(* only for the operator's default; everyone else's URL is https to a host  *)
(* of the allowlist.                                                        *)
THEOREM Exemption == GwSpec => []ExemptionIsTheOperators
<1>1. GwInv => ExemptionIsTheOperators
  BY DEF GwInv, ExemptionIsTheOperators, UrlPassed
<1> QED  BY GatewayInvariant, <1>1, PTL

(* No body outlives the route that asked for it.                            *)
THEOREM Bodies == GwSpec => []BodiesAreReleased
<1>1. GwInv => BodiesAreReleased
  BY DEF GwInv, BodiesAreReleased
<1> QED  BY GatewayInvariant, <1>1, PTL

-----------------------------------------------------------------------------
(* The cache of passed commits.                                             *)

(* Two entries are never of one commit; each is as old as last says.        *)
Unique(cache) ==
    \A i, j \in 1 .. Len(cache) : cache[i].key = cache[j].key => i = j
Dated(cache, last) == \A i \in 1 .. Len(cache) : cache[i].at = last[cache[i].key]

GhInv == GhTypeOK /\ Len(passedCi) <= CacheMax /\ Unique(passedCi) /\ Dated(passedCi, lastPass)

LEMMA DeletedEntry ==
    ASSUME NEW cache \in Seq(Entry), NEW key, Unique(cache)
    PROVE  /\ Deleted(cache, key) \in Seq(Entry)
           /\ Len(Deleted(cache, key)) <= Len(cache)
           /\ Unique(Deleted(cache, key))
           /\ \A last : Dated(cache, last) => Dated(Deleted(cache, key), last)
<1>1. CASE ~\E i \in 1 .. Len(cache) : cache[i].key = key
  BY <1>1 DEF Deleted
<1>2. CASE \E i \in 1 .. Len(cache) : cache[i].key = key
  <2> DEFINE at == CHOOSE i \in 1 .. Len(cache) : cache[i].key = key
             rest == [i \in 1 .. Len(cache) - 1 |-> IF i < at THEN cache[i] ELSE cache[i + 1]]
  <2>1. at \in 1 .. Len(cache) /\ Len(cache) \in Nat
    BY <1>2
  <2>2. Deleted(cache, key) = rest
    BY <1>2, Zenon DEF Deleted
  <2> HIDE DEF at
  <2>3. rest \in Seq(Entry) /\ Len(rest) = Len(cache) - 1
    <3>1. \A i \in 1 .. Len(cache) - 1 : rest[i] \in Entry
      BY <2>1
    <3>2. Len(cache) - 1 \in Nat
      BY <2>1
    <3> QED  BY <3>1, <3>2
  <2>4. \A i \in 1 .. Len(rest) :
          /\ rest[i] = cache[IF i < at THEN i ELSE i + 1]
          /\ (IF i < at THEN i ELSE i + 1) \in 1 .. Len(cache)
    BY <2>1, <2>3
  <2> HIDE DEF rest
  <2>5. Unique(rest)
    <3> SUFFICES ASSUME NEW i \in 1 .. Len(rest), NEW j \in 1 .. Len(rest),
                        rest[i].key = rest[j].key
                 PROVE  i = j
      BY DEF Unique
    <3>1. (IF i < at THEN i ELSE i + 1) = (IF j < at THEN j ELSE j + 1)
      BY <2>4 DEF Unique
    <3> QED  BY <2>1, <2>3, <3>1
  <2>6. \A last : Dated(cache, last) => Dated(rest, last)
    BY <2>4 DEF Dated
  <2> QED  BY <2>1, <2>2, <2>3, <2>5, <2>6
<1> QED  BY <1>1, <1>2

LEMMA OldestDropped ==
    ASSUME NEW cache \in Seq(Entry), Len(cache) > 0, Unique(cache)
    PROVE  /\ Tail(cache) \in Seq(Entry)
           /\ Len(Tail(cache)) = Len(cache) - 1
           /\ Unique(Tail(cache))
           /\ \A last : Dated(cache, last) => Dated(Tail(cache), last)
<1>1. cache # <<>> /\ Len(cache) \in Nat
  OBVIOUS
<1>2. Tail(cache) \in Seq(Entry) /\ Len(Tail(cache)) = Len(cache) - 1
  BY <1>1
<1>3. \A i \in 1 .. Len(Tail(cache)) :
        Tail(cache)[i] = cache[i + 1] /\ i + 1 \in 1 .. Len(cache)
  BY <1>1, <1>2
<1>4. Unique(Tail(cache))
  <2> SUFFICES ASSUME NEW i \in 1 .. Len(Tail(cache)), NEW j \in 1 .. Len(Tail(cache)),
                      Tail(cache)[i].key = Tail(cache)[j].key
               PROVE  i = j
    BY DEF Unique
  <2>1. i + 1 = j + 1
    BY <1>3 DEF Unique
  <2> QED  BY <1>1, <1>2, <2>1
<1>5. \A last : Dated(cache, last) => Dated(Tail(cache), last)
  BY <1>3 DEF Dated
<1> QED  BY <1>2, <1>4, <1>5

LEMMA SetEntry ==
    ASSUME NEW cache \in Seq(Entry), Unique(cache), NEW key \in Key, clock \in Moment,
           NEW last, Dated(cache, last),
           NEW next, next[key] = clock, \A k \in Key : k # key => next[k] = last[k]
    PROVE  /\ MapSet(cache, key) \in Seq(Entry)
           /\ Len(MapSet(cache, key)) <= Len(cache) + 1
           /\ Unique(MapSet(cache, key))
           /\ Dated(MapSet(cache, key), next)
<1> DEFINE entry == [key |-> key, at |-> clock]
<1>0. entry \in Entry /\ entry.key = key /\ entry.at = clock /\ Len(cache) \in Nat
      /\ \A i \in 1 .. Len(cache) : cache[i] \in Entry /\ cache[i].key \in Key
  <2>1. \A i \in 1 .. Len(cache) : cache[i] \in Entry
    OBVIOUS
  <2>2. \A e \in Entry : e.key \in Key
    BY DEF Entry
  <2>3. entry \in Entry /\ entry.key = key /\ entry.at = clock
    BY DEF Entry
  <2> HIDE DEF entry
  <2> QED  BY <2>1, <2>2, <2>3
<1>1. CASE \E i \in 1 .. Len(cache) : cache[i].key = key
  <2> DEFINE new == [i \in 1 .. Len(cache) |-> IF cache[i].key = key THEN entry ELSE cache[i]]
  <2>1. MapSet(cache, key) = new
    BY <1>1 DEF MapSet
  <2> HIDE DEF entry
  <2>2. new \in Seq(Entry) /\ Len(new) = Len(cache)
    BY <1>0
  <2>3. \A i \in 1 .. Len(new) :
          /\ new[i].key = cache[i].key
          /\ new[i].at = next[new[i].key]
    BY <1>0, <2>2 DEF Dated
  <2> HIDE DEF new
  <2>4. Unique(new) /\ Dated(new, next)
    BY <2>2, <2>3 DEF Unique, Dated
  <2> QED  BY <1>0, <2>1, <2>2, <2>4
<1>2. CASE ~\E i \in 1 .. Len(cache) : cache[i].key = key
  <2> DEFINE new == Append(cache, entry)
  <2>1. MapSet(cache, key) = new
    BY <1>2 DEF MapSet
  <2> HIDE DEF entry
  <2>2. new \in Seq(Entry) /\ Len(new) = Len(cache) + 1
    BY <1>0
  <2>3. /\ \A i \in 1 .. Len(cache) : new[i] = cache[i]
        /\ new[Len(cache) + 1] = entry
    BY <1>0
  <2> HIDE DEF new
  <2>4. Unique(new)
    BY <1>0, <1>2, <2>2, <2>3 DEF Unique
  <2>5. Dated(new, next)
    BY <1>0, <1>2, <2>2, <2>3 DEF Dated
  <2> QED  BY <1>0, <2>1, <2>2, <2>4, <2>5
<1> QED  BY <1>1, <1>2

(* A lookup that saw all checks pass is remembered within the bound.        *)
LEMMA RememberedEntry ==
    ASSUME GhInv, NEW key \in Key, lastPass' = [lastPass EXCEPT ![key] = clock]
    PROVE  /\ Remember(key) \in Seq(Entry) /\ Len(Remember(key)) <= CacheMax
           /\ Unique(Remember(key)) /\ Dated(Remember(key), lastPass')
<1> USE DEF GhInv, GhTypeOK
<1> DEFINE room == IF Len(passedCi) >= CacheMax THEN Tail(passedCi) ELSE passedCi
<1>1. CacheMax \in Nat \ {0} /\ Len(passedCi) \in Nat
  BY GithubAssumption
<1>2. /\ room \in Seq(Entry) /\ Len(room) <= CacheMax - 1
      /\ Unique(room) /\ Dated(room, lastPass)
  BY <1>1, OldestDropped
<1>3. lastPass'[key] = clock /\ \A k \in Key : k # key => lastPass'[k] = lastPass[k]
  OBVIOUS
<1>4. Remember(key) = MapSet(room, key)
  BY DEF Remember
<1> HIDE DEF room
<1>5. /\ MapSet(room, key) \in Seq(Entry) /\ Len(MapSet(room, key)) <= Len(room) + 1
      /\ Unique(MapSet(room, key)) /\ Dated(MapSet(room, key), lastPass')
  BY <1>2, <1>3, SetEntry
<1>6. Len(room) \in Nat /\ Len(MapSet(room, key)) \in Nat
  BY <1>2, <1>5
<1> QED  BY <1>1, <1>2, <1>4, <1>5, <1>6

-----------------------------------------------------------------------------
(* The steps.                                                               *)

LEMMA TaskRecords ==
    /\ Idling \in Task /\ Listing \in Task /\ NoPulls \in Task
    /\ Idling.at = "idle" /\ Listing.at = "listing" /\ NoPulls.at = "none"
    /\ \A c \in Commit : LookingUp(c) \in Task /\ LookingUp(c).at = "lookup"
                         /\ LookingUp(c).commit = c
    /\ \A c \in Commit, s \in CiStatus : /\ Shown(c, s) \in Task /\ Shown(c, s).at = "shown"
                                         /\ Shown(c, s).commit = c /\ Shown(c, s).status = s
<1>1. \A c \in Commit : LookingUp(c) \in Task
  BY DEF Task, LookingUp
<1>2. \A c \in Commit, s \in CiStatus : Shown(c, s) \in Task
  BY DEF Task, Shown
<1>3. Idling \in Task /\ Listing \in Task /\ NoPulls \in Task
  BY DEF Task
<1> QED  BY <1>1, <1>2, <1>3 DEF Idling, Listing, NoPulls, LookingUp, Shown

LEMMA LookupTask ==
    ASSUME NEW t \in Task, t.at = "lookup"
    PROVE  t.commit \in Commit
BY DEF Task, Idling, Listing, NoPulls, LookingUp, Shown

LEMMA SettledType ==
    ASSUME GhTypeOK, NEW r \in Request, NEW repo \in Repo, NEW outcome \in Task,
           Settle(r, repo, outcome)
    PROVE  /\ task' = [task EXCEPT ![<<r, repo>>] = outcome]
           /\ task' \in [Request \X Repo -> Task]
           /\ getPhase' \in [Request -> {"idle", "waiting", "answered", "rejected"}]
BY DEF GhTypeOK, Settle

LEMMA GhInitHolds == GhInit => GhInv
<1> SUFFICES ASSUME GhInit PROVE GhInv
  OBVIOUS
<1>1. GhTypeOK
  BY TaskRecords, GithubAssumption DEF GhInit, GhTypeOK, Moment, Never
<1>2. Len(passedCi) = 0
  BY DEF GhInit
<1> QED  BY <1>1, <1>2, GithubAssumption DEF GhInv, Unique, Dated

(* The steps that leave the cache alone.                                    *)
LEMMA CacheUntouched ==
    ASSUME GhInv, UNCHANGED <<passedCi, lastPass>>, GhTypeOK'
    PROVE  GhInv'
BY DEF GhInv, Unique, Dated

LEMMA CiRequestPreserves ==
    ASSUME GhInv, NEW r \in Request, GetPullRequests(r) \/ GetIsOver(r)
    PROVE  GhInv'
<1>1. task' \in [Request \X Repo -> Task]
  BY TaskRecords DEF GhInv, GhTypeOK, GetPullRequests, GetIsOver
<1>2. getPhase' \in [Request -> {"idle", "waiting", "answered", "rejected"}]
  BY DEF GhInv, GhTypeOK, GetPullRequests, GetIsOver
<1>3. UNCHANGED <<clock, passedCi, lastPass>>
  BY DEF GetPullRequests, GetIsOver
<1> QED  BY <1>1, <1>2, <1>3, CacheUntouched DEF GhInv, GhTypeOK

LEMMA QuietTaskPreserves ==
    ASSUME GhInv, NEW r \in Request, NEW repo \in Repo,
           ListingIsEmpty(r, repo) \/ ListingFails(r, repo) \/ CiLookupFails(r, repo)
    PROVE  GhInv'
<1>0. UNCHANGED <<clock, passedCi, lastPass>> /\ GhTypeOK
  BY DEF ListingIsEmpty, ListingFails, CiLookupFails, GhInv
<1>1. /\ task' \in [Request \X Repo -> Task]
      /\ getPhase' \in [Request -> {"idle", "waiting", "answered", "rejected"}]
  <2>1. CASE ListingIsEmpty(r, repo)
    BY <1>0, <2>1, TaskRecords, SettledType DEF ListingIsEmpty
  <2>2. CASE ListingFails(r, repo)
    BY <1>0, <2>2, TaskRecords DEF ListingFails, GhTypeOK
  <2>3. CASE CiLookupFails(r, repo)
    <3>1. task[<<r, repo>>] \in Task
      BY <1>0 DEF GhTypeOK
    <3>2. "unknown" \in CiStatus
      BY DEF CiStatus
    <3>3. Shown(task[<<r, repo>>].commit, "unknown") \in Task
      BY <2>3, <3>1, <3>2, LookupTask, TaskRecords DEF CiLookupFails
    <3> QED  BY <1>0, <2>3, <3>3, SettledType DEF CiLookupFails
  <2> QED  BY <2>1, <2>2, <2>3
<1> QED  BY <1>0, <1>1, CacheUntouched DEF GhTypeOK

LEMMA FetchPreserves ==
    ASSUME GhInv, NEW r \in Request, NEW repo \in Repo, NEW c \in Commit,
           FetchCiStatus(r, repo, c)
    PROVE  GhInv'
<1> DEFINE key == <<repo, c>>
<1>0. GhTypeOK /\ UNCHANGED <<clock, lastPass>>
  BY DEF GhInv, FetchCiStatus
<1>1. CASE Fresh(key)
  <2>1. passedCi' = passedCi /\ Settle(r, repo, Shown(c, "success"))
    BY <1>1 DEF FetchCiStatus, CacheHit
  <2>2. Shown(c, "success") \in Task
    BY TaskRecords DEF CiStatus
  <2>3. GhTypeOK'
    BY <1>0, <2>1, <2>2, SettledType DEF GhTypeOK
  <2> QED  BY <1>0, <2>1, <2>3, CacheUntouched
<1>2. CASE ~Fresh(key)
  <2>1. /\ passedCi' = Deleted(passedCi, key)
        /\ task' = [task EXCEPT ![<<r, repo>>] = LookingUp(c)]
        /\ UNCHANGED getPhase
    BY <1>2 DEF FetchCiStatus
  <2>2. /\ passedCi' \in Seq(Entry) /\ Len(passedCi') <= Len(passedCi)
        /\ Unique(passedCi') /\ Dated(passedCi', lastPass)
    BY <2>1, DeletedEntry DEF GhInv, GhTypeOK
  <2>3. GhTypeOK'
    BY <1>0, <2>1, <2>2, TaskRecords DEF GhTypeOK
  <2>4. Len(passedCi') <= CacheMax
    <3>1. Len(passedCi) \in Nat /\ Len(passedCi') \in Nat /\ CacheMax \in Nat
      BY <2>2, GithubAssumption DEF GhInv, GhTypeOK
    <3> QED  BY <2>2, <3>1 DEF GhInv
  <2> QED  BY <1>0, <2>2, <2>3, <2>4 DEF GhInv, Unique, Dated
<1> QED  BY <1>1, <1>2

LEMMA AnswerPreserves ==
    ASSUME GhInv, NEW r \in Request, NEW repo \in Repo, NEW runs \in CheckRuns,
           CiLookupAnswered(r, repo, runs)
    PROVE  GhInv'
<1> DEFINE t == task[<<r, repo>>]
           key == <<repo, t.commit>>
           passed == Summarize(runs) = "success"
<1>0. GhTypeOK /\ UNCHANGED clock /\ t.at = "lookup" /\ t \in Task
  BY DEF GhInv, GhTypeOK, CiLookupAnswered
<1>1. t.commit \in Commit /\ key \in Key
  BY <1>0, LookupTask DEF Key
<1>2. Shown(t.commit, Summarize(runs)) \in Task
  <2>1. Summarize(runs) \in CiStatus
    BY DEF Summarize, CiStatus
  <2> QED  BY <1>1, <2>1, TaskRecords
<1>3. /\ task' \in [Request \X Repo -> Task]
      /\ getPhase' \in [Request -> {"idle", "waiting", "answered", "rejected"}]
  BY <1>0, <1>2, SettledType DEF CiLookupAnswered
<1>4. CASE passed
  <2>1. passedCi' = Remember(key) /\ lastPass' = [lastPass EXCEPT ![key] = clock]
    BY <1>4 DEF CiLookupAnswered
  <2>2. /\ passedCi' \in Seq(Entry) /\ Len(passedCi') <= CacheMax
        /\ Unique(passedCi') /\ Dated(passedCi', lastPass')
    BY <1>1, <2>1, RememberedEntry
  <2>3. clock \in Nat
    BY <1>0 DEF GhTypeOK, Moment
  <2>4. lastPass' \in [Key -> Nat]
    BY <1>0, <2>1, <2>3 DEF GhTypeOK
  <2> QED  BY <1>0, <1>3, <2>2, <2>4 DEF GhInv, GhTypeOK, Unique, Dated
<1>5. CASE ~passed
  <2>1. passedCi' = passedCi /\ lastPass' = [lastPass EXCEPT ![key] = lastPass[key]]
    BY <1>5 DEF CiLookupAnswered
  <2>2. lastPass' = lastPass
    BY <1>0, <1>1, <2>1 DEF GhTypeOK
  <2>3. GhTypeOK'
    BY <1>0, <1>3, <2>1, <2>2 DEF GhTypeOK
  <2> QED  BY <2>1, <2>2, <2>3, CacheUntouched
<1> QED  BY <1>4, <1>5

LEMMA GhStepPreserves == GhInv /\ [GhNext]_ghVars => GhInv'
<1> SUFFICES ASSUME GhInv, [GhNext]_ghVars PROVE GhInv'
  OBVIOUS
<1>1. CASE UNCHANGED ghVars
  BY <1>1, CacheUntouched DEF ghVars, GhInv, GhTypeOK
<1>2. CASE ClockTicks
  <2>1. clock' \in Moment /\ UNCHANGED <<passedCi, task, getPhase, lastPass>>
    BY <1>2, GithubAssumption DEF ClockTicks, GhInv, GhTypeOK, Moment
  <2> QED  BY <2>1, CacheUntouched DEF GhInv, GhTypeOK
<1>3. CASE \E r \in Request : GetPullRequests(r) \/ GetIsOver(r)
  BY <1>3, CiRequestPreserves
<1>4. ASSUME NEW r \in Request, NEW repo \in Repo,
             \/ ListingIsEmpty(r, repo) \/ ListingFails(r, repo) \/ CiLookupFails(r, repo)
             \/ \E c \in Commit : FetchCiStatus(r, repo, c)
             \/ \E runs \in CheckRuns : CiLookupAnswered(r, repo, runs)
      PROVE  GhInv'
  BY <1>4, QuietTaskPreserves, FetchPreserves, AnswerPreserves
<1> QED  BY <1>1, <1>2, <1>3, <1>4 DEF GhNext

LEMMA CiInvariant == GhSpec => []GhInv
<1> QED  BY GhInitHolds, GhStepPreserves, PTL DEF GhSpec

(* The cache, the tasks and the requests are of their types.                *)
THEOREM CiTypes == GhSpec => []GhTypeOK
<1>1. GhInv => GhTypeOK
  BY DEF GhInv
<1> QED  BY CiInvariant, <1>1, PTL

(* The cache keeps its bound and one entry for a commit, as old as the last *)
(* lookup that saw it pass, however many requests overlap.                  *)
THEOREM CiCache == GhSpec => []CiCacheIsSound
<1>1. GhInv => CiCacheIsSound
  BY DEF GhInv, CiCacheIsSound, Unique, Dated
<1> QED  BY CiInvariant, <1>1, PTL

(* What a step newly shows as a success comes from a hit, which is younger  *)
(* than the TTL, or from a lookup that passed in this very step.            *)
LEMMA SuccessStepHolds == GhInv /\ [GhNext]_ghVars => SuccessStep
<1> SUFFICES ASSUME GhInv, [GhNext]_ghVars,
                    NEW r \in Request, NEW repo \in Repo, NEW c \in Commit,
                    task'[<<r, repo>>] = Shown(c, "success"),
                    task[<<r, repo>>] # task'[<<r, repo>>]
             PROVE  LET seen == lastPass'[<<repo, c>>]
                    IN seen # Never /\ (seen = clock \/ clock - seen < CacheTtl)
  BY DEF SuccessStep
<1>0. /\ GhTypeOK /\ Shown(c, "success").at = "shown" /\ Shown(c, "success").commit = c
      /\ Shown(c, "success").status = "success" /\ <<repo, c>> \in Key
  BY TaskRecords DEF GhInv, CiStatus, Key
<1>1. ASSUME NEW q \in Request, GetPullRequests(q) \/ GetIsOver(q) PROVE FALSE
  BY <1>0, <1>1, TaskRecords DEF GetPullRequests, GetIsOver
<1>2. ASSUME NEW q \in Request, NEW o \in Repo, NEW outcome,
             outcome.at # "shown" \/ outcome.status # "success",
             task' = [task EXCEPT ![<<q, o>>] = outcome]
      PROVE  FALSE
  BY <1>0, <1>2 DEF GhTypeOK
<1>3. ASSUME NEW q \in Request, NEW o \in Repo,
             ListingIsEmpty(q, o) \/ ListingFails(q, o) \/ CiLookupFails(q, o)
      PROVE  FALSE
  <2>1. CASE ListingIsEmpty(q, o) \/ ListingFails(q, o)
    BY <1>2, <2>1, TaskRecords DEF ListingIsEmpty, ListingFails, Settle
  <2>2. CASE CiLookupFails(q, o)
    BY <1>2, <2>2 DEF CiLookupFails, Settle, Shown
  <2> QED  BY <1>3, <2>1, <2>2
<1>4. ASSUME NEW q \in Request, NEW o \in Repo, NEW d \in Commit, FetchCiStatus(q, o, d)
      PROVE  LET seen == lastPass'[<<repo, c>>]
             IN seen # Never /\ (seen = clock \/ clock - seen < CacheTtl)
  <2>1. CASE ~Fresh(<<o, d>>)
    BY <1>2, <1>4, <2>1, TaskRecords DEF FetchCiStatus
  <2>2. CASE Fresh(<<o, d>>)
    <3>1. task' = [task EXCEPT ![<<q, o>>] = Shown(d, "success")] /\ lastPass' = lastPass
      BY <1>4, <2>2 DEF FetchCiStatus, Settle
    <3>2. <<q, o>> = <<r, repo>> /\ Shown(d, "success") = Shown(c, "success")
      BY <1>0, <3>1 DEF GhTypeOK
    <3>3. o = repo /\ d = c
      <4>1. Shown(d, "success").commit = d
        BY DEF Shown
      <4> QED  BY <1>0, <3>2, <4>1
    <3>4. PICK i \in 1 .. Len(passedCi) :
            passedCi[i].key = <<repo, c>> /\ clock - passedCi[i].at < CacheTtl
      BY <2>2, <3>3 DEF Fresh
    <3>5. passedCi[i] \in Entry /\ passedCi[i].at = lastPass[<<repo, c>>]
      <4>1. passedCi \in Seq(Entry) /\ Dated(passedCi, lastPass)
        BY DEF GhInv, GhTypeOK
      <4>2. passedCi[i] \in Entry
        BY <4>1
      <4>3. passedCi[i].at = lastPass[passedCi[i].key]
        BY <4>1 DEF Dated
      <4> QED  BY <3>4, <4>2, <4>3
    <3>6. passedCi[i].at \in Moment
      BY <3>5 DEF Entry
    <3>7. passedCi[i].at # Never
      BY <3>6, GithubAssumption DEF Moment, Never
    <3> QED  BY <3>1, <3>4, <3>5, <3>7
  <2> QED  BY <2>1, <2>2
<1>5. ASSUME NEW q \in Request, NEW o \in Repo, NEW runs \in CheckRuns,
             CiLookupAnswered(q, o, runs)
      PROVE  LET seen == lastPass'[<<repo, c>>]
             IN seen # Never /\ (seen = clock \/ clock - seen < CacheTtl)
  <2> DEFINE commit == task[<<q, o>>].commit
             shown == Shown(commit, Summarize(runs))
  <2>1. /\ task' = [task EXCEPT ![<<q, o>>] = shown]
        /\ lastPass' = [lastPass EXCEPT ![<<o, commit>>] =
             IF Summarize(runs) = "success" THEN clock ELSE lastPass[<<o, commit>>]]
    BY <1>5 DEF CiLookupAnswered, Settle
  <2>2. shown.status = Summarize(runs) /\ shown.commit = commit
    BY DEF Shown
  <2> HIDE DEF shown
  <2>3. Summarize(runs) = "success"
    BY <1>2, <2>1, <2>2
  <2>4. <<q, o>> = <<r, repo>> /\ shown = Shown(c, "success")
    BY <1>0, <2>1 DEF GhTypeOK
  <2>5. o = repo /\ commit = c
    BY <1>0, <2>2, <2>4
  <2>6. lastPass'[<<repo, c>>] = clock
    BY <1>0, <2>1, <2>3, <2>5 DEF GhTypeOK
  <2>7. clock # Never
    BY <1>0, GithubAssumption DEF GhTypeOK, Moment, Never
  <2> QED  BY <2>6, <2>7
<1> QED  BY <1>1, <1>3, <1>4, <1>5 DEF GhNext, ClockTicks, ghVars

(* A commit is shown green only when a lookup saw all its checks pass, now  *)
(* or less than the TTL ago.                                                *)
THEOREM RecentSuccess == GhSpec => SuccessIsRecent
<1> QED  BY CiInvariant, SuccessStepHolds, PTL DEF GhSpec, SuccessIsRecent

-----------------------------------------------------------------------------
(* The classifier of addresses and the registries.                          *)

LEMMA OctetsAreSmall == ASSUME NEW n \in Octet PROVE n \in Nat /\ n < 256
BY DEF Octet

LEMMA GroupsAreSmall == ASSUME NEW n \in Group PROVE n \in Nat /\ n < 65536
BY DEF Group

(* What the parts of the prefixes in the tables are compared by.            *)
LEMMA IPv4Units ==
    /\ Unit(1, 8, 8) = 1 /\ Unit(1, 8, 3) = 32
    /\ Unit(1, 8, 10) = 1 /\ Unit(2, 8, 10) = 64
    /\ Unit(1, 8, 12) = 1 /\ Unit(2, 8, 12) = 16
    /\ Unit(1, 8, 15) = 1 /\ Unit(2, 8, 15) = 2
    /\ Unit(1, 8, 16) = 1 /\ Unit(2, 8, 16) = 1
    /\ Unit(1, 8, 24) = 1 /\ Unit(2, 8, 24) = 1 /\ Unit(3, 8, 24) = 1
<1>1. /\ 8 - BitsOf(1, 8, 8) = 0 /\ 8 - BitsOf(1, 8, 3) = 5
      /\ 8 - BitsOf(1, 8, 10) = 0 /\ 8 - BitsOf(2, 8, 10) = 6
      /\ 8 - BitsOf(1, 8, 12) = 0 /\ 8 - BitsOf(2, 8, 12) = 4
      /\ 8 - BitsOf(1, 8, 15) = 0 /\ 8 - BitsOf(2, 8, 15) = 1
      /\ 8 - BitsOf(1, 8, 16) = 0 /\ 8 - BitsOf(2, 8, 16) = 0
      /\ 8 - BitsOf(1, 8, 24) = 0 /\ 8 - BitsOf(2, 8, 24) = 0 /\ 8 - BitsOf(3, 8, 24) = 0
  BY DEF BitsOf
<1>2. 2 ^ 0 = 1 /\ 2 ^ 1 = 2 /\ 2 ^ 4 = 16 /\ 2 ^ 5 = 32 /\ 2 ^ 6 = 64
  OBVIOUS
<1> QED
  BY <1>1, <1>2 DEF Unit

LEMMA WholePart ==
    ASSUME NEW i, NEW width, NEW len, width - BitsOf(i, width, len) = 0
    PROVE  Unit(i, width, len) = 1
<1>1. 2 ^ 0 = 1
  OBVIOUS
<1> QED
  BY <1>1 DEF Unit

LEMMA IPv6Units ==
    /\ Unit(1, 16, 3) = 8192 /\ Unit(1, 16, 16) = 1
    /\ Unit(1, 16, 20) = 1 /\ Unit(2, 16, 20) = 4096
    /\ Unit(1, 16, 23) = 1 /\ Unit(2, 16, 23) = 512
    /\ Unit(1, 16, 28) = 1 /\ Unit(2, 16, 28) = 16
    /\ Unit(1, 16, 32) = 1 /\ Unit(2, 16, 32) = 1
    /\ Unit(1, 16, 48) = 1 /\ Unit(2, 16, 48) = 1 /\ Unit(3, 16, 48) = 1
    /\ \A i \in 1 .. 6 : Unit(i, 16, 96) = 1
    /\ \A i \in 1 .. 8 : Unit(i, 16, 128) = 1
<1>1. /\ Unit(1, 16, 16) = 1 /\ Unit(1, 16, 20) = 1
      /\ Unit(1, 16, 23) = 1 /\ Unit(1, 16, 28) = 1
      /\ Unit(1, 16, 32) = 1 /\ Unit(2, 16, 32) = 1
      /\ Unit(1, 16, 48) = 1 /\ Unit(2, 16, 48) = 1 /\ Unit(3, 16, 48) = 1
  <2>1. /\ 16 - BitsOf(1, 16, 16) = 0 /\ 16 - BitsOf(1, 16, 20) = 0
        /\ 16 - BitsOf(1, 16, 23) = 0 /\ 16 - BitsOf(1, 16, 28) = 0
        /\ 16 - BitsOf(1, 16, 32) = 0 /\ 16 - BitsOf(2, 16, 32) = 0
        /\ 16 - BitsOf(1, 16, 48) = 0 /\ 16 - BitsOf(2, 16, 48) = 0
        /\ 16 - BitsOf(3, 16, 48) = 0
    BY DEF BitsOf
  <2> QED
    BY <2>1, WholePart
<1>2. ASSUME NEW i \in 1 .. 6 PROVE Unit(i, 16, 96) = 1
  <2>1. 16 - BitsOf(i, 16, 96) = 0
    BY DEF BitsOf
  <2> QED
    BY <2>1, WholePart
<1>3. ASSUME NEW i \in 1 .. 8 PROVE Unit(i, 16, 128) = 1
  <2>1. 16 - BitsOf(i, 16, 128) = 0
    BY DEF BitsOf
  <2> QED
    BY <2>1, WholePart
<1>4. Unit(1, 16, 3) = 8192
  <2>1. 16 - BitsOf(1, 16, 3) = 13
    BY DEF BitsOf
  <2>2. Unit(1, 16, 3) = 2 ^ 13
    BY <2>1, Zenon DEF Unit
  <2> QED
    BY <2>2
<1>5. Unit(2, 16, 20) = 4096
  <2>1. 16 - BitsOf(2, 16, 20) = 12
    BY DEF BitsOf
  <2>2. Unit(2, 16, 20) = 2 ^ 12
    BY <2>1, Zenon DEF Unit
  <2> QED
    BY <2>2
<1>6. Unit(2, 16, 23) = 512
  <2>1. 16 - BitsOf(2, 16, 23) = 9 /\ 2 ^ 9 = 512
    BY DEF BitsOf
  <2> QED
    BY <2>1 DEF Unit
<1>7. Unit(2, 16, 28) = 16
  <2>1. 16 - BitsOf(2, 16, 28) = 4 /\ 2 ^ 4 = 16
    BY DEF BitsOf
  <2> QED
    BY <2>1 DEF Unit
<1> QED
  BY <1>1, <1>2, <1>3, <1>4, <1>5, <1>6, <1>7

LEMMA IPv4Prefixes ==
    ASSUME NEW p \in [1 .. 4 -> Octet]
    PROVE  /\ \A n \in {0, 10, 127} : HasPrefix(p, 8, <<n>>, 8) <=> p[1] = n
           /\ HasPrefix(p, 8, <<224>>, 3) <=> p[1] >= 224
           /\ HasPrefix(p, 8, <<100, 64>>, 10) <=> p[1] = 100 /\ p[2] \in 64 .. 127
           /\ HasPrefix(p, 8, <<172, 16>>, 12) <=> p[1] = 172 /\ p[2] \in 16 .. 31
           /\ HasPrefix(p, 8, <<198, 18>>, 15) <=> p[1] = 198 /\ p[2] \in {18, 19}
           /\ HasPrefix(p, 8, <<169, 254>>, 16) <=> p[1] = 169 /\ p[2] = 254
           /\ HasPrefix(p, 8, <<192, 168>>, 16) <=> p[1] = 192 /\ p[2] = 168
           /\ HasPrefix(p, 8, <<192, 0, 0>>, 24) <=> p[1] = 192 /\ p[2] = 0 /\ p[3] = 0
           /\ HasPrefix(p, 8, <<192, 0, 2>>, 24) <=> p[1] = 192 /\ p[2] = 0 /\ p[3] = 2
           /\ HasPrefix(p, 8, <<192, 88, 99>>, 24) <=> p[1] = 192 /\ p[2] = 88 /\ p[3] = 99
           /\ HasPrefix(p, 8, <<198, 51, 100>>, 24) <=> p[1] = 198 /\ p[2] = 51 /\ p[3] = 100
           /\ HasPrefix(p, 8, <<203, 0, 113>>, 24) <=> p[1] = 203 /\ p[2] = 0 /\ p[3] = 113
<1>1. /\ p[1] \in Nat /\ p[1] < 256
      /\ p[2] \in Nat /\ p[2] < 256
      /\ p[3] \in Nat /\ p[3] < 256
  BY OctetsAreSmall
<1>2. \A n \in {0, 10, 127} : HasPrefix(p, 8, <<n>>, 8) <=> p[1] = n
  BY <1>1, IPv4Units DEF HasPrefix
<1>3. HasPrefix(p, 8, <<224>>, 3) <=> p[1] >= 224
  BY <1>1, IPv4Units DEF HasPrefix
<1>4. HasPrefix(p, 8, <<100, 64>>, 10) <=> p[1] = 100 /\ p[2] \in 64 .. 127
  <2>1. HasPrefix(p, 8, <<100, 64>>, 10) <=> p[1] = 100 /\ p[2] \div 64 = 1
    BY <1>1, IPv4Units DEF HasPrefix
  <2>2. p[2] \div 64 = 1 <=> p[2] \in 64 .. 127
    BY <1>1
  <2> QED
    BY <2>1, <2>2
<1>5. HasPrefix(p, 8, <<172, 16>>, 12) <=> p[1] = 172 /\ p[2] \in 16 .. 31
  <2>1. HasPrefix(p, 8, <<172, 16>>, 12) <=> p[1] = 172 /\ p[2] \div 16 = 1
    BY <1>1, IPv4Units DEF HasPrefix
  <2>2. p[2] \div 16 = 1 <=> p[2] \in 16 .. 31
    BY <1>1
  <2> QED
    BY <2>1, <2>2
<1>6. HasPrefix(p, 8, <<198, 18>>, 15) <=> p[1] = 198 /\ p[2] \in {18, 19}
  <2>1. HasPrefix(p, 8, <<198, 18>>, 15) <=> p[1] = 198 /\ p[2] \div 2 = 9
    BY <1>1, IPv4Units DEF HasPrefix
  <2>2. p[2] \div 2 = 9 <=> p[2] \in {18, 19}
    BY <1>1
  <2> QED
    BY <2>1, <2>2
<1>7. /\ HasPrefix(p, 8, <<169, 254>>, 16) <=> p[1] = 169 /\ p[2] = 254
      /\ HasPrefix(p, 8, <<192, 168>>, 16) <=> p[1] = 192 /\ p[2] = 168
  BY <1>1, IPv4Units DEF HasPrefix
<1>8. /\ HasPrefix(p, 8, <<192, 0, 0>>, 24) <=> p[1] = 192 /\ p[2] = 0 /\ p[3] = 0
      /\ HasPrefix(p, 8, <<192, 0, 2>>, 24) <=> p[1] = 192 /\ p[2] = 0 /\ p[3] = 2
      /\ HasPrefix(p, 8, <<192, 88, 99>>, 24) <=> p[1] = 192 /\ p[2] = 88 /\ p[3] = 99
  BY <1>1, IPv4Units DEF HasPrefix
<1>9. /\ HasPrefix(p, 8, <<198, 51, 100>>, 24) <=> p[1] = 198 /\ p[2] = 51 /\ p[3] = 100
      /\ HasPrefix(p, 8, <<203, 0, 113>>, 24) <=> p[1] = 203 /\ p[2] = 0 /\ p[3] = 113
  BY <1>1, IPv4Units DEF HasPrefix
<1> QED
  BY <1>2, <1>3, <1>4, <1>5, <1>6, <1>7, <1>8, <1>9

(* The table of IPv4 prefixes, and the tests of the code.                   *)
LEMMA IPv4Matches ==
    ASSUME NEW p \in [1 .. 4 -> Octet]
    PROVE  IsPrivateIPv4(p[1], p[2], p[3]) <=> ~PublicIPv4(p)
<1>1. InTable(p, 8, NonPublicIPv4) <=>
        \/ HasPrefix(p, 8, <<0>>, 8) \/ HasPrefix(p, 8, <<10>>, 8)
        \/ HasPrefix(p, 8, <<127>>, 8) \/ HasPrefix(p, 8, <<224>>, 3)
        \/ HasPrefix(p, 8, <<100, 64>>, 10) \/ HasPrefix(p, 8, <<169, 254>>, 16)
        \/ HasPrefix(p, 8, <<172, 16>>, 12) \/ HasPrefix(p, 8, <<192, 168>>, 16)
        \/ HasPrefix(p, 8, <<192, 0, 0>>, 24) \/ HasPrefix(p, 8, <<192, 0, 2>>, 24)
        \/ HasPrefix(p, 8, <<192, 88, 99>>, 24) \/ HasPrefix(p, 8, <<198, 18>>, 15)
        \/ HasPrefix(p, 8, <<198, 51, 100>>, 24) \/ HasPrefix(p, 8, <<203, 0, 113>>, 24)
  BY DEF InTable, NonPublicIPv4
<1>2. /\ HasPrefix(p, 8, <<0>>, 8) <=> p[1] = 0
      /\ HasPrefix(p, 8, <<10>>, 8) <=> p[1] = 10
      /\ HasPrefix(p, 8, <<127>>, 8) <=> p[1] = 127
  BY IPv4Prefixes
<1> QED
  BY <1>1, <1>2, IPv4Prefixes DEF IsPrivateIPv4, PublicIPv4

LEMMA IPv6Prefixes ==
    ASSUME NEW g \in [1 .. 8 -> Group]
    PROVE  /\ HasPrefix(g, 16, <<8192>>, 3) <=> g[1] \div 8192 = 1
           /\ HasPrefix(g, 16, <<8194>>, 16) <=> g[1] = 8194
           /\ HasPrefix(g, 16, <<16383, 0>>, 20) <=> g[1] = 16383 /\ g[2] \div 4096 = 0
           /\ HasPrefix(g, 16, <<8193, 0>>, 23) <=> g[1] = 8193 /\ g[2] < 512
           /\ HasPrefix(g, 16, <<8193, 32>>, 28) <=> g[1] = 8193 /\ g[2] \div 16 = 2
           /\ HasPrefix(g, 16, <<8193, 48>>, 28) <=> g[1] = 8193 /\ g[2] \div 16 = 3
           /\ HasPrefix(g, 16, <<8193, 3>>, 32) <=> g[1] = 8193 /\ g[2] = 3
           /\ HasPrefix(g, 16, <<8193, 3512>>, 32) <=> g[1] = 8193 /\ g[2] = 3512
           /\ HasPrefix(g, 16, <<8193, 4, 274>>, 48) <=> g[1] = 8193 /\ g[2] = 4 /\ g[3] = 274
           /\ HasPrefix(g, 16, <<0, 0, 0, 0, 0, 65535>>, 96) <=> Zeros(g, 1, 5) /\ g[6] = 65535
           /\ HasPrefix(g, 16, <<100, 65435, 0, 0, 0, 0>>, 96)
                <=> g[1] = 100 /\ g[2] = 65435 /\ Zeros(g, 3, 6)
           /\ \A n \in 1 .. 3 :
                HasPrefix(g, 16, Anycast(n), 128)
                    <=> g[1] = 8193 /\ g[2] = 1 /\ Zeros(g, 3, 7) /\ g[8] = n
<1>1. \A i \in 1 .. 8 : g[i] \in Nat /\ g[i] < 65536
  BY GroupsAreSmall
<1>2. /\ HasPrefix(g, 16, <<8192>>, 3) <=> g[1] \div 8192 = 1
      /\ HasPrefix(g, 16, <<8194>>, 16) <=> g[1] = 8194
  BY <1>1, IPv6Units DEF HasPrefix
<1>3. HasPrefix(g, 16, <<16383, 0>>, 20) <=> g[1] = 16383 /\ g[2] \div 4096 = 0
  BY <1>1, IPv6Units DEF HasPrefix
<1>4. HasPrefix(g, 16, <<8193, 0>>, 23) <=> g[1] = 8193 /\ g[2] < 512
  <2>1. HasPrefix(g, 16, <<8193, 0>>, 23) <=> g[1] = 8193 /\ g[2] \div 512 = 0
    BY <1>1, IPv6Units DEF HasPrefix
  <2>2. g[2] \div 512 = 0 <=> g[2] < 512
    BY <1>1
  <2> QED
    BY <2>1, <2>2
<1>5. /\ HasPrefix(g, 16, <<8193, 32>>, 28) <=> g[1] = 8193 /\ g[2] \div 16 = 2
      /\ HasPrefix(g, 16, <<8193, 48>>, 28) <=> g[1] = 8193 /\ g[2] \div 16 = 3
  BY <1>1, IPv6Units DEF HasPrefix
<1>6. /\ HasPrefix(g, 16, <<8193, 3>>, 32) <=> g[1] = 8193 /\ g[2] = 3
      /\ HasPrefix(g, 16, <<8193, 3512>>, 32) <=> g[1] = 8193 /\ g[2] = 3512
  BY <1>1, IPv6Units DEF HasPrefix
<1>7. HasPrefix(g, 16, <<8193, 4, 274>>, 48) <=> g[1] = 8193 /\ g[2] = 4 /\ g[3] = 274
  BY <1>1, IPv6Units DEF HasPrefix
<1>8. HasPrefix(g, 16, <<0, 0, 0, 0, 0, 65535>>, 96) <=> Zeros(g, 1, 5) /\ g[6] = 65535
  BY <1>1, IPv6Units DEF HasPrefix, Zeros
<1>9. HasPrefix(g, 16, <<100, 65435, 0, 0, 0, 0>>, 96)
        <=> g[1] = 100 /\ g[2] = 65435 /\ Zeros(g, 3, 6)
  BY <1>1, IPv6Units DEF HasPrefix, Zeros
<1>10. ASSUME NEW n \in 1 .. 3
       PROVE  HasPrefix(g, 16, Anycast(n), 128)
                <=> g[1] = 8193 /\ g[2] = 1 /\ Zeros(g, 3, 7) /\ g[8] = n
  BY <1>1, IPv6Units DEF HasPrefix, Zeros, Anycast
<1> QED
  BY <1>2, <1>3, <1>4, <1>5, <1>6, <1>7, <1>8, <1>9, <1>10

(* The IPv4 address that an IPv6 address carries is judged in its place.    *)
LEMMA EmbeddedMatches ==
    ASSUME NEW hi \in Group, NEW lo \in Group
    PROVE  Embedded(hi, lo) <=> ~PublicIPv4(IPv4Of(hi, lo))
<1> DEFINE p == IPv4Of(hi, lo)
<1>1. hi \in Nat /\ hi < 65536 /\ lo \in Nat /\ lo < 65536
  BY GroupsAreSmall
<1>2. /\ hi \div 256 \in 0 .. 255 /\ hi % 256 \in 0 .. 255
      /\ lo \div 256 \in 0 .. 255 /\ lo % 256 \in 0 .. 255
  BY <1>1
<1>3. \A n \in 0 .. 255 : n \in Octet
  BY DEF Octet
<1>4. p \in [1 .. 4 -> Octet] /\ p[1] = hi \div 256 /\ p[2] = hi % 256 /\ p[3] = lo \div 256
  BY <1>2, <1>3 DEF IPv4Of
<1> HIDE DEF p
<1>5. IsPrivateIPv4(p[1], p[2], p[3]) <=> ~PublicIPv4(p)
  BY <1>4, IPv4Matches
<1> QED
  BY <1>4, <1>5 DEF Embedded, p

(* The reachable parts of the block for protocol assignments.               *)
LEMMA ReachableMatches ==
    ASSUME NEW g \in [1 .. 8 -> Group]
    PROVE  InTable(g, 16, AssignedReachable) <=> g[1] = 8193 /\ Reachable(g)
<1>1. InTable(g, 16, AssignedReachable) <=>
        \/ \E n \in 1 .. 3 : HasPrefix(g, 16, Anycast(n), 128)
        \/ HasPrefix(g, 16, <<8193, 3>>, 32) \/ HasPrefix(g, 16, <<8193, 4, 274>>, 48)
        \/ HasPrefix(g, 16, <<8193, 32>>, 28) \/ HasPrefix(g, 16, <<8193, 48>>, 28)
  <2>1. InTable(g, 16, AssignedReachable)
          <=> InTable(g, 16, Anycasts) \/ InTable(g, 16, ReachableBlocks)
    BY DEF InTable, AssignedReachable
  <2>2. InTable(g, 16, Anycasts) <=> \E n \in 1 .. 3 : HasPrefix(g, 16, Anycast(n), 128)
    <3>1. ASSUME NEW n PROVE <<Anycast(n), 128>>[1] = Anycast(n) /\ <<Anycast(n), 128>>[2] = 128
      OBVIOUS
    <3>2. ASSUME NEW n \in 1 .. 3, HasPrefix(g, 16, Anycast(n), 128)
          PROVE  InTable(g, 16, Anycasts)
      <4>1. <<Anycast(n), 128>> \in Anycasts
        BY DEF Anycasts
      <4> QED
        BY <3>1, <3>2, <4>1 DEF InTable
    <3>3. ASSUME NEW q \in Anycasts, HasPrefix(g, 16, q[1], q[2])
          PROVE  \E n \in 1 .. 3 : HasPrefix(g, 16, Anycast(n), 128)
      <4>1. PICK n \in 1 .. 3 : q = <<Anycast(n), 128>>
        BY DEF Anycasts
      <4>2. q[1] = Anycast(n) /\ q[2] = 128
        BY <3>1, <4>1
      <4> QED
        BY <3>3, <4>2
    <3> QED
      BY <3>2, <3>3 DEF InTable
  <2>3. InTable(g, 16, ReachableBlocks) <=>
          \/ HasPrefix(g, 16, <<8193, 3>>, 32) \/ HasPrefix(g, 16, <<8193, 4, 274>>, 48)
          \/ HasPrefix(g, 16, <<8193, 32>>, 28) \/ HasPrefix(g, 16, <<8193, 48>>, 28)
    BY DEF InTable, ReachableBlocks
  <2> QED
    BY <2>1, <2>2, <2>3
<1>2. (\E n \in 1 .. 3 : HasPrefix(g, 16, Anycast(n), 128))
        <=> g[1] = 8193 /\ g[2] = 1 /\ Zeros(g, 3, 7) /\ g[8] \in 1 .. 3
  BY IPv6Prefixes
<1>3. g[2] \in Nat
  BY GroupsAreSmall
<1>4. g[2] \div 32 = 1 <=> g[2] \div 16 = 2 \/ g[2] \div 16 = 3
  BY <1>3
<1> QED
  BY <1>1, <1>2, <1>4, IPv6Prefixes DEF Reachable

Mapped == [net |-> <<0, 0, 0, 0, 0, 65535>>, len |-> 96, at |-> 7]
Translated == [net |-> <<100, 65435, 0, 0, 0, 0>>, len |-> 96, at |-> 7]
Tunnelled == [net |-> <<8194>>, len |-> 16, at |-> 2]

CarriersOf(g) == {c \in Carriers : HasPrefix(g, 16, c.net, c.len)}

(* An address carries an IPv4 address in at most one way.                   *)
LEMMA CarriersMatch ==
    ASSUME NEW g \in [1 .. 8 -> Group]
    PROVE  /\ Zeros(g, 1, 5) /\ g[6] = 65535 => CarriersOf(g) = {Mapped}
           /\ g[1] = 100 /\ g[2] = 65435 /\ Zeros(g, 3, 6) => CarriersOf(g) = {Translated}
           /\ g[1] = 8194 => CarriersOf(g) = {Tunnelled}
           /\ /\ ~(Zeros(g, 1, 5) /\ g[6] = 65535)
              /\ ~(g[1] = 100 /\ g[2] = 65435 /\ Zeros(g, 3, 6))
              /\ g[1] # 8194
              => CarriersOf(g) = {}
<1>1. Carriers = {Mapped, Translated, Tunnelled}
  BY DEF Carriers, Mapped, Translated, Tunnelled
<1>2. /\ HasPrefix(g, 16, Mapped.net, Mapped.len) <=> Zeros(g, 1, 5) /\ g[6] = 65535
      /\ HasPrefix(g, 16, Translated.net, Translated.len)
           <=> g[1] = 100 /\ g[2] = 65435 /\ Zeros(g, 3, 6)
      /\ HasPrefix(g, 16, Tunnelled.net, Tunnelled.len) <=> g[1] = 8194
  <2>1. /\ Mapped.net = <<0, 0, 0, 0, 0, 65535>> /\ Mapped.len = 96
        /\ Translated.net = <<100, 65435, 0, 0, 0, 0>> /\ Translated.len = 96
        /\ Tunnelled.net = <<8194>> /\ Tunnelled.len = 16
    BY DEF Mapped, Translated, Tunnelled
  <2> QED
    BY <2>1, IPv6Prefixes
<1>3. Zeros(g, 1, 5) => g[1] = 0
  BY DEF Zeros
<1> QED
  BY <1>1, <1>2, <1>3 DEF CarriersOf

(* The order of the tests of the code does not matter, and their bounds are *)
(* those of the registries.                                                 *)
LEMMA IPv6Matches ==
    ASSUME NEW g \in [1 .. 8 -> Group]
    PROVE  IsPrivateIPv6(g) <=> ~PublicIPv6(g)
<1>0. \A i \in 1 .. 8 : g[i] \in Group /\ g[i] \in Nat
  BY GroupsAreSmall
<1>1. ASSUME NEW c, CarriersOf(g) = {c}, c.at \in 1 .. 7
      PROVE  PublicIPv6(g) <=> ~Embedded(g[c.at], g[c.at + 1])
  <2>1. PublicIPv6(g) <=> PublicIPv4(IPv4Of(g[c.at], g[c.at + 1]))
    BY <1>1 DEF PublicIPv6, CarriersOf
  <2>2. g[c.at] \in Group /\ g[c.at + 1] \in Group
    BY <1>0, <1>1
  <2> QED
    BY <2>1, <2>2, EmbeddedMatches
<1>2. /\ Mapped.at = 7 /\ Translated.at = 7 /\ Tunnelled.at = 2
  BY DEF Mapped, Translated, Tunnelled
<1>3. CASE Zeros(g, 1, 5) /\ g[6] = 65535
  BY <1>1, <1>2, <1>3, CarriersMatch DEF IsPrivateIPv6
<1>4. CASE g[1] = 100 /\ g[2] = 65435 /\ Zeros(g, 3, 6)
  <2>1. ~Zeros(g, 1, 5)
    BY <1>4 DEF Zeros
  <2> QED
    BY <2>1, <1>1, <1>2, <1>4, CarriersMatch DEF IsPrivateIPv6
<1>5. CASE g[1] = 8194
  <2>1. ~Zeros(g, 1, 5) /\ 8194 \div 8192 = 1
    BY <1>5 DEF Zeros
  <2>2. IsPrivateIPv6(g) <=> Embedded(g[2], g[3])
    BY <2>1, <1>5 DEF IsPrivateIPv6
  <2>3. PublicIPv6(g) <=> ~Embedded(g[2], g[3])
    BY <1>1, <1>2, <1>5, CarriersMatch
  <2> QED
    BY <2>2, <2>3
<1>6. CASE /\ ~(Zeros(g, 1, 5) /\ g[6] = 65535)
           /\ ~(g[1] = 100 /\ g[2] = 65435 /\ Zeros(g, 3, 6))
           /\ g[1] # 8194
  <2>1. PublicIPv6(g) <=>
          /\ HasPrefix(g, 16, <<8192>>, 3)
          /\ ~InTable(g, 16, Documentation)
          /\ InTable(g, 16, Assignments) => InTable(g, 16, AssignedReachable)
    <3>1. CarriersOf(g) = {}
      BY <1>6, CarriersMatch
    <3> QED
      BY <3>1 DEF PublicIPv6, CarriersOf
  <2>2. /\ InTable(g, 16, Documentation) <=>
             HasPrefix(g, 16, <<8193, 3512>>, 32) \/ HasPrefix(g, 16, <<16383, 0>>, 20)
        /\ InTable(g, 16, Assignments) <=> HasPrefix(g, 16, <<8193, 0>>, 23)
    BY DEF InTable, Documentation, Assignments
  <2>3. PublicIPv6(g) <=>
          /\ g[1] \div 8192 = 1
          /\ ~(g[1] = 8193 /\ g[2] = 3512)
          /\ ~(g[1] = 16383 /\ g[2] \div 4096 = 0)
          /\ g[1] = 8193 /\ g[2] < 512 => g[1] = 8193 /\ Reachable(g)
    BY <2>1, <2>2, IPv6Prefixes, ReachableMatches
  <2>4. IsPrivateIPv6(g) <=>
          \/ g[1] \div 8192 # 1
          \/ g[1] = 8193 /\ g[2] < 512 /\ ~Reachable(g)
          \/ g[1] = 8193 /\ g[2] = 3512
          \/ g[1] = 16383 /\ g[2] \div 4096 = 0
    BY <1>6 DEF IsPrivateIPv6
  <2> QED
    BY <2>3, <2>4
<1> QED
  BY <1>3, <1>4, <1>5, <1>6

LEMMA HostsMatch ==
    ASSUME NEW h \in HostKind
    PROVE  IsPrivateHost(h) <=>
             CASE h.kind = "name" -> h.local
               [] h.kind = "malformed" -> TRUE
               [] h.kind = "v4" -> ~PublicIPv4(h.parts)
               [] h.kind = "v6" -> ~PublicIPv6(h.parts)
<1>1. \/ h.kind = "name" \/ h.kind = "malformed"
      \/ h.kind = "v4" /\ h.parts \in [1 .. 4 -> Octet]
      \/ h.kind = "v6" /\ h.parts \in [1 .. 8 -> Group]
  BY DEF HostKind
<1>2. CASE h.kind = "name"
  BY <1>2, Zenon DEF IsPrivateHost
<1>3. CASE h.kind = "malformed"
  BY <1>3, Zenon DEF IsPrivateHost
<1>4. CASE h.kind = "v4" /\ h.parts \in [1 .. 4 -> Octet]
  <2>1. IsPrivateHost(h) = IsPrivateIPv4(h.parts[1], h.parts[2], h.parts[3])
    BY <1>4 DEF IsPrivateHost
  <2>2. IsPrivateIPv4(h.parts[1], h.parts[2], h.parts[3]) <=> ~PublicIPv4(h.parts)
    BY <1>4, IPv4Matches
  <2>3. IsPrivateHost(h) <=> ~PublicIPv4(h.parts)
    BY <2>1, <2>2
  <2> QED
    BY <2>3, <1>4
<1>5. CASE h.kind = "v6" /\ h.parts \in [1 .. 8 -> Group]
  <2>1. IsPrivateHost(h) = IsPrivateIPv6(h.parts)
    BY <1>5 DEF IsPrivateHost
  <2>2. IsPrivateIPv6(h.parts) <=> ~PublicIPv6(h.parts)
    BY <1>5, IPv6Matches
  <2>3. IsPrivateHost(h) <=> ~PublicIPv6(h.parts)
    BY <2>1, <2>2
  <2> QED
    BY <2>3, <1>5
<1> QED
  BY <1>1, <1>2, <1>3, <1>4, <1>5

(* isPrivateHost(): for every host name, every IPv4 and every IPv6 address, *)
(* the code lets through what the registries list as publicly reachable.    *)
THEOREM PolicyIsTheRegistries == ApSpec => []PolicyMatchesRegistries
<1> DEFINE Inv == judged # NoHost => judged \in HostKind
<1>1. ApInit => Inv
  BY DEF ApInit
<1>2. Inv /\ [ApNext]_apVars => Inv'
  BY AddressAssumption DEF ApNext, JudgeHost, NextHost, apVars
<1>3. Inv => PolicyMatchesRegistries
  BY HostsMatch, Zenon DEF PolicyMatchesRegistries
<1> QED
  BY <1>1, <1>2, <1>3, PTL DEF ApSpec
=============================================================================
