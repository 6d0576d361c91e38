---------------------------- MODULE AgentSession ----------------------------
(* The agent side of the server: WebSocket connections, their handshakes,   *)
(* the in-memory AgentRegistry, and the token file the handshakes check     *)
(* and stamp (TokenStore), all driven by one Node.js event loop.            *)
(*                                                                          *)
(* A callback runs to its next await without interruption, so an action is  *)
(* the code between two awaits.  The one await that matters is the          *)
(* bcrypt.compare loop of the handshake: an `auth` frame starts a           *)
(* handshake (StartHandshake) that is finished by FinishHandshake after     *)
(* any number of other actions, on a socket that may be closed by then.     *)
(* The loop's awaits are one pause here, since what the loop computes       *)
(* depends only on the list read before it.                                 *)
(*                                                                          *)
(* Left out: frames that change no state (not JSON, schema failure, ping,   *)
(* a second auth after authentication), entry fields nothing decides on     *)
(* (name, version, gateway URL and token, connectedAt), and the wording of  *)
(* answers.  An entry keeps its snapshot's age only.                        *)
EXTENDS TokenStore, Naturals

CONSTANTS
    Socket,         \* WebSocket objects
    Agent,          \* agentId values
    StaticToken,    \* AGENT_TOKENS
    WrongToken,     \* a secret that matches nothing
    Slot,           \* bound: handshakes the server runs at once
    TTL,            \* AGENT_TTL_MS, in clock ticks
    NoAgent, NoHandshake, NoEntry,
    Pipelined,      \* may an agent send frames before its auth is answered?
    Overlapping     \* may an agent connect while its old socket is still up?

VARIABLES
    sock,           \* readyState of each WebSocket
    agentId,        \* the handler's closure: agentId, and authenticated
    handshake,      \* handshakes waiting for bcrypt
    registry        \* AgentRegistry.agents

sessionVars == <<sock, agentId, handshake, registry>>
vars == <<sock, agentId, handshake, registry, tokens, disk, issued>>

Secret == Token \cup StaticToken \cup {WrongToken}

(* An age past TTL is as good as any other; a snapshot that never came has  *)
(* lastSnapshotAt 0, decades ago.                                           *)
Never == TTL + 2
Age == 0 .. TTL + 2

(* "new" is an object not connected yet; "closing" has had ws.close()       *)
(* called by the server and waits for the peer or for ws's close timeout.   *)
SocketState == {"new", "open", "closing", "closed"}

Entry == [online : BOOLEAN, ws : Socket, token : Secret, age : Age]

Handshake == [ws : Socket, agent : Agent, token : Token \cup {WrongToken},
              file : [Token -> TokenEntry \cup {NoToken}]]

ASSUME SessionAssumption ==
    /\ TTL \in Nat
    /\ NoAgent \notin Agent
    /\ NoEntry \notin Entry
    /\ NoHandshake \notin Handshake
    /\ StaticToken \cap Token = {}
    /\ WrongToken \notin Token \cup StaticToken
    /\ {Pipelined, Overlapping} \subseteq BOOLEAN

TypeOK ==
    /\ StoreTypeOK
    /\ sock \in [Socket -> SocketState]
    /\ agentId \in [Socket -> Agent \cup {NoAgent}]
    /\ handshake \in [Slot -> Handshake \cup {NoHandshake}]
    /\ registry \in [Agent -> Entry \cup {NoEntry}]

-----------------------------------------------------------------------------
(* What the code can see.                                                   *)

Receiving(s) == sock[s] \in {"open", "closing"}
Authenticated(s) == agentId[s] # NoAgent
Registered(a) == registry[a] # NoEntry
Online(a) == Registered(a) /\ registry[a].online
Offline(a) == Registered(a) /\ ~registry[a].online
Running(k) == handshake[k] # NoHandshake
Owns(s, a) == Registered(a) /\ registry[a].ws = s

(* What an agent program restrains itself from, by the two constants.       *)
MaySend(s) ==
    Pipelined \/ ~\E k \in Slot : Running(k) /\ handshake[k].ws = s

MayConnectAs(s, a) ==
    Overlapping \/
    \A r \in Socket \ {s} : Receiving(r) =>
        /\ agentId[r] # a
        /\ ~\E k \in Slot : Running(k) /\ handshake[k].ws = r /\ handshake[k].agent = a

-----------------------------------------------------------------------------
(* AgentRegistry.                                                           *)

(* Mutants: definitions named ..._Mutant are faults that the properties      *)
(* below must tell from the code; no other definition uses them.            *)

(* Mutant: a reconnect starts from an empty entry.                          *)
RegisteredBy_Mutant(s, a, t) ==
    [registry EXCEPT ![a] = [online |-> TRUE, ws |-> s, token |-> t, age |-> Never]]

(* register(): the newest connection takes the entry, an earlier snapshot   *)
(* is carried over, the old socket is not touched.                          *)
RegisteredBy(s, a, t) ==
    [registry EXCEPT ![a] =
        [online |-> TRUE, ws |-> s, token |-> t,
         age |-> IF Registered(a) THEN registry[a].age ELSE Never]]

(* Mutant: a snapshot for an entry that is gone brings back half an entry.   *)
UpdatedFor_Mutant(a) ==
    IF Registered(a)
      THEN [registry EXCEPT ![a].age = 0, ![a].online = TRUE]
      ELSE [registry EXCEPT ![a] = [online |-> TRUE, age |-> 0]]

(* update().                                                                *)
UpdatedFor(a) ==
    IF Registered(a)
      THEN [registry EXCEPT ![a] =
              [online |-> TRUE, ws |-> @.ws, token |-> @.token, age |-> 0]]
      ELSE registry

(* Mutant: any socket of the agent takes it offline.                        *)
DisconnectedFrom_Mutant(s, a) ==
    IF Registered(a) THEN [registry EXCEPT ![a].online = FALSE] ELSE registry

(* Mutant: the comparison of the two sockets is inverted.                   *)
DisconnectedFrom_Inverted_Mutant(s, a) ==
    IF Registered(a) /\ registry[a].ws # s
      THEN [registry EXCEPT ![a].online = FALSE]
      ELSE registry

(* disconnect().                                                            *)
DisconnectedFrom(s, a) ==
    IF Owns(s, a) THEN [registry EXCEPT ![a].online = FALSE] ELSE registry

(* Mutant: the eviction looks at the age only.                              *)
Expired_Mutant(a) == Registered(a) /\ registry[a].age > TTL

(* Mutant: an entry that never had a snapshot has no age to expire by.      *)
Expired_Zero_Mutant(a) ==
    Offline(a) /\ registry[a].age > TTL /\ registry[a].age # Never

Expired(a) == Offline(a) /\ registry[a].age > TTL

(* cleanup(), which only getAll() calls.                                    *)
CleanedUp == [a \in Agent |-> IF Expired(a) THEN NoEntry ELSE registry[a]]

-----------------------------------------------------------------------------
(* handleAgentConnection: a connection's life.                              *)

Init ==
    /\ StoreInit
    /\ sock = [s \in Socket |-> "new"]
    /\ agentId = [s \in Socket |-> NoAgent]
    /\ handshake = [k \in Slot |-> NoHandshake]
    /\ registry = [a \in Agent |-> NoEntry]

Connect(s) ==
    /\ sock[s] = "new"
    /\ sock' = [sock EXCEPT ![s] = "open"]
    /\ UNCHANGED <<agentId, handshake, registry, storeVars>>

(* ws.close() on a socket that is not open any more does nothing.           *)
ClosedByServer(s) ==
    [sock EXCEPT ![s] = IF @ = "open" THEN "closing" ELSE @]

(* A handshake that is refused: auth_error, then ws.close().                *)
Reject(s) ==
    /\ sock' = ClosedByServer(s)
    /\ UNCHANGED <<agentId, registry, storeVars>>

(* A handshake that succeeds: the closure is bound and the entry taken.     *)
Accept(s, a, t) ==
    /\ agentId' = [agentId EXCEPT ![s] = a]
    /\ registry' = RegisteredBy(s, a, t)
    /\ UNCHANGED sock

AuthFrame(s, a) ==
    /\ Receiving(s)
    /\ ~Authenticated(s)
    /\ MaySend(s)
    /\ MayConnectAs(s, a)

(* A token of AGENT_TOKENS is accepted within the frame's own callback.     *)
AuthWithStaticToken(s, a, t) ==
    /\ AuthFrame(s, a)
    /\ t \in StaticToken
    /\ Accept(s, a, t)
    /\ UNCHANGED <<handshake, storeVars>>

(* No list to compare with: the read threw, or there are no tokens.         *)
AuthWithoutList(s, a, t) ==
    /\ AuthFrame(s, a)
    /\ t \notin StaticToken
    /\ Listed(ReadTokens) = {}
    /\ Reject(s)
    /\ UNCHANGED handshake

(* Up to the first await: the list is read and the comparing starts.        *)
StartHandshake(k, s, a, t) ==
    /\ AuthFrame(s, a)
    /\ t \notin StaticToken
    /\ Listed(ReadTokens) # {}
    /\ ~Running(k)
    /\ handshake' = [handshake EXCEPT ![k] =
                       [ws |-> s, agent |-> a, token |-> t, file |-> ReadTokens]]
    /\ UNCHANGED <<sock, agentId, registry, storeVars>>

(* The bcrypt loop's result on the list read before it, and the re-read     *)
(* that follows without an await.                                           *)
Matched(h) == h.token \in Listed(h.file)
StillListed(h) == h.token \in Listed(ReadTokens)

(* Mutant: the list read before the comparison is stamped and written back. *)
Stamp_Mutant(h) ==
    /\ tokens' = IF Writable THEN [h.file EXCEPT ![h.token].used = TRUE] ELSE tokens
    /\ UNCHANGED <<disk, issued>>

(* lastUsedAt, on the fresh list; a failing write is ignored.               *)
Stamp(h) ==
    /\ tokens' = IF Writable THEN [ReadTokens EXCEPT ![h.token].used = TRUE] ELSE tokens
    /\ UNCHANGED <<disk, issued>>

(* Mutant: the list read before the comparison decides, and the re-read     *)
(* serves lastUsedAt only.                                                  *)
FinishAccepted_Mutant(h) ==
    /\ Matched(h)
    /\ IF StillListed(h) THEN Stamp(h) ELSE UNCHANGED storeVars
    /\ Accept(h.ws, h.agent, h.token)

FinishAccepted(h) ==
    /\ Matched(h)
    /\ StillListed(h)
    /\ Stamp(h)
    /\ Accept(h.ws, h.agent, h.token)

(* Mutant: a re-read that throws returns without answering.                 *)
FinishRejected_Mutant(h) ==
    /\ ~(Matched(h) /\ StillListed(h))
    /\ IF Readable THEN Reject(h.ws) ELSE UNCHANGED <<sock, agentId, registry, storeVars>>

FinishRejected(h) ==
    /\ ~(Matched(h) /\ StillListed(h))
    /\ Reject(h.ws)

(* From the last await on.  Neither the socket's state nor `authenticated`  *)
(* is looked at again.                                                      *)
FinishHandshake(k) ==
    /\ Running(k)
    /\ FinishAccepted(handshake[k]) \/ FinishRejected(handshake[k])
    /\ handshake' = [handshake EXCEPT ![k] = NoHandshake]

(* A valid snapshot or ping before authentication.                          *)
EarlyFrame(s) ==
    /\ Receiving(s)
    /\ ~Authenticated(s)
    /\ MaySend(s)
    /\ Reject(s)
    /\ UNCHANGED handshake

Snapshot(s) ==
    /\ Receiving(s)
    /\ Authenticated(s)
    /\ registry' = UpdatedFor(agentId[s])
    /\ UNCHANGED <<sock, agentId, handshake, storeVars>>

(* The 'close' event, once per socket: the peer hung up, the network broke, *)
(* or a close the server began is over.                                     *)
SocketCloses(s) ==
    /\ Receiving(s)
    /\ sock' = [sock EXCEPT ![s] = "closed"]
    /\ registry' = IF Authenticated(s) THEN DisconnectedFrom(s, agentId[s]) ELSE registry
    /\ UNCHANGED <<agentId, handshake, storeVars>>

(* A closed socket nothing refers to is garbage; its name is used again.    *)
Collect(s) ==
    /\ sock[s] = "closed"
    /\ ~\E a \in Agent : Owns(s, a)
    /\ ~\E k \in Slot : Running(k) /\ handshake[k].ws = s
    /\ sock' = [sock EXCEPT ![s] = "new"]
    /\ agentId' = [agentId EXCEPT ![s] = NoAgent]
    /\ UNCHANGED <<handshake, registry, storeVars>>

-----------------------------------------------------------------------------
(* The routes that change the registry, the clock, the process.             *)

(* GET /api/agents/list and GET /api/health.                                *)
GetAll ==
    /\ registry' = CleanedUp
    /\ UNCHANGED <<sock, agentId, handshake, storeVars>>

(* DELETE /api/agents/[agentId]; an online entry is refused with 409.       *)
RemoveAgent(a) ==
    /\ Offline(a)
    /\ registry' = [registry EXCEPT ![a] = NoEntry]
    /\ UNCHANGED <<sock, agentId, handshake, storeVars>>

Tick ==
    /\ registry' = [a \in Agent |->
                      IF Registered(a) /\ registry[a].age <= TTL
                        THEN [registry[a] EXCEPT !.age = @ + 1]
                        ELSE registry[a]]
    /\ UNCHANGED <<sock, agentId, handshake, storeVars>>

(* The process ends and starts again: only the file is left.                *)
Restart ==
    /\ sock' = [s \in Socket |-> "new"]
    /\ agentId' = [s \in Socket |-> NoAgent]
    /\ handshake' = [k \in Slot |-> NoHandshake]
    /\ registry' = [a \in Agent |-> NoEntry]
    /\ UNCHANGED storeVars

AgentSends(s) ==
    \/ Connect(s)
    \/ \E a \in Agent, t \in StaticToken : AuthWithStaticToken(s, a, t)
    \/ \E a \in Agent, t \in Token \cup {WrongToken} : AuthWithoutList(s, a, t)
    \/ \E k \in Slot, a \in Agent, t \in Token \cup {WrongToken} : StartHandshake(k, s, a, t)
    \/ EarlyFrame(s)
    \/ Snapshot(s)

SettingsRoutes == StoreNext /\ UNCHANGED sessionVars

Next ==
    \/ \E s \in Socket : AgentSends(s)
    \/ \E s \in Socket : SocketCloses(s)
    \/ \E s \in Socket : Collect(s)
    \/ \E k \in Slot : FinishHandshake(k)
    \/ GetAll
    \/ \E a \in Agent : RemoveAgent(a)
    \/ Tick
    \/ Restart
    \/ SettingsRoutes

Spec == Init /\ [][Next]_vars

(* bcrypt settles and its continuation runs; ws ends a close it began (its  *)
(* close timeout destroys the socket); time passes; the dashboard's poll or *)
(* a health probe keeps reading the list.                                   *)
Fairness ==
    /\ \A k \in Slot : WF_vars(FinishHandshake(k))
    /\ \A s \in Socket : WF_vars(sock[s] = "closing" /\ SocketCloses(s))
    /\ WF_vars(Tick)
    /\ WF_vars(GetAll)

FairSpec == Spec /\ Fairness

-----------------------------------------------------------------------------
(* Properties.                                                              *)

(* An entry is shown offline only when the socket that owns it is closed: a *)
(* reconnect is never taken offline by the close of the socket it replaced, *)
(* whatever order handshakes, reconnects and closes come in (disconnect()   *)
(* of agent-registry.ts and its call in the 'close' handler).               *)
OfflineMeansOwnerClosed ==
    \A a \in Agent : Offline(a) => sock[registry[a].ws] = "closed"

TakenOver(a) ==
    /\ registry'[a] # NoEntry
    /\ \/ ~Registered(a)
       \/ registry'[a].ws # registry[a].ws
       \/ registry'[a].token # registry[a].token

AuthorizedStep ==
    \A a \in Agent : TakenOver(a) =>
        \/ registry'[a].token \in StaticToken
        \/ registry'[a].token \in Listed(ReadTokens)

(* At the very step that registers a connection its token is a static one,  *)
(* or tokens.json can be read and lists it: a token revoked, or a store     *)
(* that broke, while bcrypt was comparing admits nobody.                    *)
RegistrationsAreAuthorized == [][AuthorizedStep]_vars

Names == [t \in Token |-> IF tokens[t] = NoToken THEN NoToken ELSE tokens[t].name]

(* Handshakes and settings routes together keep the ledger the API promises *)
(* (TokenLedger): a handshake that read the file before a create, a rename  *)
(* or a revocation neither loses the new token, nor undoes the rename, nor  *)
(* brings the revoked token back.                                           *)
Ledger == INSTANCE TokenLedger WITH NoName <- NoToken, ledger <- Names

KeepsTheLedger == Ledger!LedgerSpec

OnlineKeptStep == Restart \/ \A a \in Agent : Online(a) => Registered(a)'

(* Short of a restart, an agent shown online is never dropped from the      *)
(* list: neither the lazy eviction nor DELETE /api/agents/[agentId] takes   *)
(* an entry that is not offline.                                            *)
OnlineIsNeverDropped == [][OnlineKeptStep]_vars

SnapshotKeptStep ==
    Restart \/ \A a \in Agent :
        Registered(a) /\ Registered(a)' /\ registry[a].age # Never
            => registry'[a].age # Never

(* As long as its entry stands, an agent's last snapshot stays available,   *)
(* through disconnects, reconnects and connections that overlap.            *)
SnapshotSurvives == [][SnapshotKeptStep]_vars

Connected(a) == \E s \in Socket : Receiving(s) /\ agentId[s] = a

(* Shown online with no connection left that speaks for the agent.          *)
Ghost(a) == Online(a) /\ ~Connected(a)

(* An agent that is shown online has a connection.                          *)
OnlineHasConnection == \A a \in Agent : ~Ghost(a)

FinishedLate(a) == \E k \in Slot :
    /\ Running(k) /\ handshake'[k] = NoHandshake
    /\ handshake[k].agent = a
    /\ ~Receiving(handshake[k].ws)

Rebound(a) == \E s \in Socket :
    agentId[s] = a /\ agentId'[s] \notin {a, NoAgent}

ClosedAsReplaced(a) == \E s \in Socket :
    agentId[s] = a /\ Receiving(s) /\ sock'[s] = "closed" /\ ~Owns(s, a)

GhostOriginStep ==
    \A a \in Agent :
        Ghost(a)' /\ ~Ghost(a) => FinishedLate(a) \/ Rebound(a) \/ ClosedAsReplaced(a)

(* The whole list of ways an online agent can be left without a connection: *)
(* its handshake ended after its socket had closed, its socket was bound to *)
(* another agent by a second auth frame sent before the first was answered, *)
(* or the connection that closed last was not the one that owns the entry.  *)
(* The close of the owner itself never leaves a ghost.                      *)
GhostsHaveThreeOrigins == [][GhostOriginStep]_vars

(* Every agent that waits for the answer to its auth is admitted or has its *)
(* socket closed, whatever happens to the store meanwhile: nobody is left   *)
(* hanging on an open socket.                                               *)
AuthIsAnswered ==
    \A s \in Socket :
        (\E k \in Slot : Running(k) /\ handshake[k].ws = s)
            ~> (Authenticated(s) \/ ~Receiving(s))

(* An agent that goes offline comes back or is evicted, one that never sent *)
(* a snapshot included.                                                     *)
OfflineIsTransient == \A a \in Agent : Offline(a) ~> ~Offline(a)
=============================================================================
