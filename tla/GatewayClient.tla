---------------------------- MODULE GatewayClient ---------------------------
(* Outbound calls to OpenClaw gateways: the rule a gateway URL must meet    *)
(* (gateway.ts), the pinned connection pool (pinned-fetch.ts) and the proxy *)
(* routes that use them.                                                    *)
(*                                                                          *)
(* A call passes the URL rule in one step.  The operator's default gateway  *)
(* then goes through the global fetch; every other call goes to the pinned  *)
(* Agent, which reuses a pooled connection of the same origin or makes one: *)
(* it resolves the host name (Resolve) and connects (ConnectPinned), when   *)
(* DNS may say something else. An aborted call leaves its attempt behind.   *)
(*                                                                          *)
(* A URL is its scheme, host and port; a host is a name or an IP literal.   *)
(* Which addresses are public is AddressPolicy's matter, here a constant.   *)
EXTENDS Naturals, FiniteSets

CONSTANTS
    Call,           \* calls in progress
    HostName, Address,
    PublicAddress,  \* addresses that are not isPrivateHost
    IPv4,           \* addresses of family 4; the others are of family 6
    AllowedEntry,   \* ALLOWED_GATEWAY_HOSTS, an entry's port may be missing
    GatewayUrl,     \* URLs that a header or an agent may name
    DefaultUrl,     \* NEXT_PUBLIC_DEFAULT_GATEWAY_URL
    NoUrl, NoPort, NoCall, NoAttempt

VARIABLES
    dns,            \* what each name resolves to at the moment
    connections,    \* the pinned Agent's pool
    attempt,        \* connection attempts, by the call that began them
    call,           \* calls, until their route has replied
    unread          \* calls whose answer's body holds its connection

gwVars == <<dns, connections, attempt, call, unread>>

Host == HostName \cup Address
Port == 1 .. 65535
Connection == [origin : GatewayUrl, address : Address]
Attempt == [origin : GatewayUrl, stage : {"resolving", "connecting"}, usable : SUBSET Address]

Caller == {"catchAll", "cron", "sessions", "heartbeat", "memory", "agentLogs"}
Source == {"operator", "remote"}

ActiveCall ==
    [caller : Caller, url : GatewayUrl, via : {"direct", "pinned"},
     stage : {"connecting", "sent", "answered"}]

ASSUME GatewayAssumption ==
    /\ PublicAddress \subseteq Address /\ IPv4 \subseteq Address
    /\ HostName \cap Address = {}
    /\ GatewayUrl \subseteq [scheme : {"http", "https"}, host : Host, port : Port]
    /\ AllowedEntry \subseteq [host : Host, port : Nat \cup {NoPort}]
    /\ DefaultUrl \in GatewayUrl
    /\ NoUrl \notin GatewayUrl
    /\ NoPort \notin Nat
    /\ NoCall \notin ActiveCall
    /\ NoAttempt \notin Attempt

GwTypeOK ==
    /\ dns \in [HostName -> SUBSET Address]
    /\ connections \subseteq Connection
    /\ attempt \in [Call -> Attempt \cup {NoAttempt}]
    /\ call \in [Call -> ActiveCall \cup {NoCall}]
    /\ unread \subseteq Call

-----------------------------------------------------------------------------
(* The URL rule.                                                            *)

(* parseAllowedHost(): an entry without a port stands for 443, one with a   *)
(* port out of range is dropped.                                            *)
ParseAllowedHost(e) ==
    IF e.port = NoPort THEN {[host |-> e.host, port |-> 443]}
    ELSE IF e.port \in Port THEN {e}
    ELSE {}

AllowedGatewayHosts == UNION {ParseAllowedHost(e) : e \in AllowedEntry}

IsPrivate(h) == h \in Address \ PublicAddress

(* Mutants: definitions named ..._Mutant are faults that the properties      *)
(* below must tell from the code; no other definition uses them.            *)

(* Mutant: the default is waved through whoever chose it.                   *)
CheckGatewayUrl_Mutant(url, trustDefault) ==
    IF url = DefaultUrl THEN "trusted"
    ELSE IF /\ url.scheme = "https"
            /\ ~IsPrivate(url.host)
            /\ \E e \in AllowedGatewayHosts : e.host = url.host /\ e.port = url.port
         THEN "allowed"
    ELSE "refused"

(* checkGatewayUrl().                                                       *)
CheckGatewayUrl(url, trustDefault) ==
    IF trustDefault /\ url = DefaultUrl THEN "trusted"
    ELSE IF /\ url.scheme = "https"
            /\ ~IsPrivate(url.host)
            /\ \E e \in AllowedGatewayHosts : e.host = url.host /\ e.port = url.port
         THEN "allowed"
    ELSE "refused"

(* isOperatorChosen(), for a call with or without a URL and a source.       *)
IsOperatorChosen(url, source) ==
    source = "operator" \/ (url = NoUrl /\ source \notin Source)

-----------------------------------------------------------------------------
(* The pinned fetch.                                                        *)

(* Mutant: one public answer is enough.                                     *)
Judge_Mutant(answers, family) ==
    IF answers \cap PublicAddress = {} THEN {} ELSE answers

(* createPinnedLookup(): nothing is usable when any answer is not public.   *)
Judge(answers, family) ==
    LET ofFamily(a) == family = (IF a \in IPv4 THEN 4 ELSE 6)
    IN IF \E a \in answers : IsPrivate(a) THEN {}
       ELSE IF family \in {4, 6} THEN {a \in answers : ofFamily(a)}
       ELSE answers

Free(c) == call[c] = NoCall
Pinned(c) == ~Free(c) /\ call[c].via = "pinned"
InStage(c, s) == ~Free(c) /\ call[c].stage = s

NewCall(caller, url, via, stage) ==
    [caller |-> caller, url |-> url, via |-> via, stage |-> stage]

(* A call's name is used again when nothing of it is left.                  *)
Unused(c) == Free(c) /\ attempt[c] = NoAttempt /\ c \notin unread

(* gatewayRequest(), the trusted default: the global fetch.                 *)
SendDirect(c, caller, url, source) ==
    /\ Unused(c)
    /\ LET base == IF url = NoUrl THEN DefaultUrl ELSE url IN
         /\ CheckGatewayUrl(base, IsOperatorChosen(url, source)) = "trusted"
         /\ call' = [call EXCEPT ![c] = NewCall(caller, base, "direct", "sent")]
    /\ UNCHANGED <<dns, connections, attempt, unread>>

(* pinnedFetch() with a connection of that origin in the pool.              *)
SendPooled(c, caller, url, source) ==
    /\ Unused(c)
    /\ url # NoUrl
    /\ CheckGatewayUrl(url, IsOperatorChosen(url, source)) = "allowed"
    /\ \E k \in connections : k.origin = url
    /\ call' = [call EXCEPT ![c] = NewCall(caller, url, "pinned", "sent")]
    /\ UNCHANGED <<dns, connections, attempt, unread>>

(* pinnedFetch() that needs a connection.  A literal is judged here, and is *)
(* not looked up.                                                           *)
SendConnecting(c, caller, url, source) ==
    /\ Unused(c)
    /\ url # NoUrl
    /\ CheckGatewayUrl(url, IsOperatorChosen(url, source)) = "allowed"
    /\ ~IsPrivate(url.host)
    /\ attempt' = [attempt EXCEPT ![c] =
         IF url.host \in Address
           THEN [origin |-> url, stage |-> "connecting", usable |-> {url.host}]
           ELSE [origin |-> url, stage |-> "resolving", usable |-> {}]]
    /\ call' = [call EXCEPT ![c] = NewCall(caller, url, "pinned", "connecting")]
    /\ UNCHANGED <<dns, connections, unread>>

(* An attempt that fails takes the call that waits for it along.            *)
GiveUp(c) ==
    /\ attempt' = [attempt EXCEPT ![c] = NoAttempt]
    /\ call' = [call EXCEPT ![c] = IF InStage(c, "connecting") THEN NoCall ELSE @]

Resolve(c, family) ==
    /\ attempt[c] # NoAttempt
    /\ attempt[c].stage = "resolving"
    /\ LET usable == Judge(dns[attempt[c].origin.host], family) IN
         \/ /\ usable # {}
            /\ attempt' = [attempt EXCEPT ![c] =
                 [origin |-> @.origin, stage |-> "connecting", usable |-> usable]]
            /\ UNCHANGED call
         \/ usable = {} /\ GiveUp(c)
    /\ UNCHANGED <<dns, connections, unread>>

(* The socket is given the checked addresses and nothing else.              *)
ConnectTargets(c) == attempt[c].usable

Connecting(c) == attempt[c] # NoAttempt /\ attempt[c].stage = "connecting"

ConnectPinned(c) ==
    /\ Connecting(c)
    /\ \E a \in ConnectTargets(c) :
         connections' = connections \cup {[origin |-> attempt[c].origin, address |-> a]}
    /\ attempt' = [attempt EXCEPT ![c] = NoAttempt]
    /\ call' = IF InStage(c, "connecting") THEN [call EXCEPT ![c].stage = "sent"] ELSE call
    /\ UNCHANGED <<dns, unread>>

ConnectFails(c) ==
    /\ Connecting(c)
    /\ GiveUp(c)
    /\ UNCHANGED <<dns, connections, unread>>

(* The status line and headers are here; the body is not.                   *)
GatewayAnswers(c) ==
    /\ InStage(c, "sent")
    /\ call' = [call EXCEPT ![c].stage = "answered"]
    /\ unread' = unread \cup {c}
    /\ UNCHANGED <<dns, connections, attempt>>

(* The gateway hangs up, a time limit passes, or the caller is gone: the    *)
(* body, if any, is torn down with the call.                                *)
CallEnds(c) ==
    /\ InStage(c, "connecting") \/ InStage(c, "sent")
    /\ call' = [call EXCEPT ![c] = NoCall]
    /\ UNCHANGED <<dns, connections, attempt, unread>>

ConnectionEnds(k) ==
    /\ connections' = connections \ {k}
    /\ UNCHANGED <<dns, attempt, call, unread>>

DnsChanges(h, answers) ==
    /\ dns' = [dns EXCEPT ![h] = answers]
    /\ UNCHANGED <<connections, attempt, call, unread>>

-----------------------------------------------------------------------------
(* The routes.  A refused URL is answered at once and is no step.           *)

Begin(c, caller, url, source) ==
    \/ SendDirect(c, caller, url, source)
    \/ SendPooled(c, caller, url, source)
    \/ SendConnecting(c, caller, url, source)

(* The URL of the x-gateway-url header, or none.                            *)
BeginFromHeader(c, caller) ==
    \E url \in GatewayUrl \cup {NoUrl} : Begin(c, caller, url, "operator")

(* The route replies.  A body that was read or cancelled frees its          *)
(* connection; one that was left holds it.                                  *)
Finish(c, caller, body) ==
    /\ InStage(c, "answered")
    /\ call[c].caller = caller
    /\ call' = [call EXCEPT ![c] = NoCall]
    /\ unread' = IF body \in {"read", "cancelled"} THEN unread \ {c} ELSE unread
    /\ UNCHANGED <<dns, connections, attempt>>

(* Both pass on what the gateway says, whatever its status.                 *)
CatchAllRoute(c) == BeginFromHeader(c, "catchAll") \/ Finish(c, "catchAll", "read")
CronRoute(c) == BeginFromHeader(c, "cron") \/ Finish(c, "cron", "read")

(* Mutant: the answer's status alone is looked at.                          *)
SessionsRoute_Mutant(c) ==
    \/ BeginFromHeader(c, "sessions")
    \/ \E ok \in BOOLEAN : Finish(c, "sessions", IF ok THEN "read" ELSE "left")

SessionsRoute(c) ==
    \/ BeginFromHeader(c, "sessions")
    \/ \E ok \in BOOLEAN : Finish(c, "sessions", IF ok THEN "read" ELSE "cancelled")

HeartbeatRoute(c) ==
    \/ BeginFromHeader(c, "heartbeat")
    \/ \E ok \in BOOLEAN : Finish(c, "heartbeat", IF ok THEN "read" ELSE "cancelled")

(* Not ok: the file of the dashboard's own host is read instead.            *)
MemoryRoute(c) ==
    \/ BeginFromHeader(c, "memory")
    \/ \E ok \in BOOLEAN : Finish(c, "memory", IF ok THEN "read" ELSE "cancelled")

(* GET /api/agents/[agentId]/logs: the URL the agent reported.              *)
AgentLogsRoute(c) ==
    \/ \E url \in GatewayUrl : Begin(c, "agentLogs", url, "remote")
    \/ \E ok \in BOOLEAN : Finish(c, "agentLogs", IF ok THEN "read" ELSE "cancelled")

GwInit ==
    /\ dns \in [HostName -> {{a} : a \in PublicAddress}]
    /\ connections = {}
    /\ attempt = [c \in Call |-> NoAttempt]
    /\ call = [c \in Call |-> NoCall]
    /\ unread = {}

GwNext ==
    \/ \E c \in Call :
         \/ CatchAllRoute(c) \/ CronRoute(c) \/ SessionsRoute(c)
         \/ HeartbeatRoute(c) \/ MemoryRoute(c) \/ AgentLogsRoute(c)
         \/ \E family \in {0, 4, 6} : Resolve(c, family)
         \/ ConnectPinned(c) \/ ConnectFails(c) \/ GatewayAnswers(c) \/ CallEnds(c)
    \/ \E k \in connections : ConnectionEnds(k)
    \/ \E h \in HostName, answers \in SUBSET Address : DnsChanges(h, answers)

GwSpec == GwInit /\ [][GwNext]_gwVars

-----------------------------------------------------------------------------
(* Properties.                                                              *)

(* The pinned pool holds connections to public addresses only, and every    *)
(* attempt is bound for one, whatever a name resolves to before, between or *)
(* after the lookup, and whoever's call made the connection (the judgement  *)
(* inside the lookup of createPinnedLookup).                                *)
PinnedIsPublic ==
    /\ \A k \in connections : k.address \in PublicAddress
    /\ \A c \in Call : Connecting(c) => attempt[c].usable \subseteq PublicAddress

(* The default gateway's exemption is never used for a URL an agent chose,  *)
(* even when the agent reports exactly that URL, and nothing else is ever   *)
(* exempt (trustDefault, isOperatorChosen and remoteGatewayFetch).          *)
ExemptionIsTheOperators ==
    \A c \in Call : ~Free(c) =>
        IF call[c].via = "direct"
          THEN call[c].url = DefaultUrl /\ call[c].caller # "agentLogs"
          ELSE /\ call[c].url.scheme = "https"
               /\ \E e \in AllowedEntry : e.host = call[c].url.host

(* No route replies and leaves its gateway answer's body unread, which      *)
(* would hold the connection until it is collected.                         *)
BodiesAreReleased == \A c \in unread : InStage(c, "answered")
=============================================================================
