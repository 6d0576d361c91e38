------------------------ MODULE AgentSession_proofs ------------------------
(* Theorems about AgentSession for every number of sockets, agents, tokens  *)
(* and handshakes at once.                                                  *)
EXTENDS AgentSession, TLAPS

-----------------------------------------------------------------------------
(* Type correctness.                                                        *)

(* Reading the token file yields a file, possibly an empty one.             *)
LEMMA ReadTokensType ==
    ASSUME StoreTypeOK
    PROVE  ReadTokens \in [Token -> TokenEntry \cup {NoToken}]
BY DEF StoreTypeOK, ReadTokens

(* What register(), update(), disconnect() and cleanup() leave behind is a  *)
(* registry again.                                                          *)
LEMMA RegistryOperations ==
    ASSUME TypeOK
    PROVE  /\ \A s \in Socket, a \in Agent, t \in Secret :
                RegisteredBy(s, a, t) \in [Agent -> Entry \cup {NoEntry}]
           /\ \A a \in Agent : UpdatedFor(a) \in [Agent -> Entry \cup {NoEntry}]
           /\ \A s \in Socket, a \in Agent :
                DisconnectedFrom(s, a) \in [Agent -> Entry \cup {NoEntry}]
           /\ CleanedUp \in [Agent -> Entry \cup {NoEntry}]
<1> USE SessionAssumption DEF TypeOK
<1>1. \A a \in Agent : Registered(a) => registry[a] \in Entry
  BY DEF Registered
<1>2. \A s \in Socket, a \in Agent, t \in Secret :
        RegisteredBy(s, a, t) \in [Agent -> Entry \cup {NoEntry}]
  <2> SUFFICES ASSUME NEW s \in Socket, NEW a \in Agent, NEW t \in Secret
               PROVE  RegisteredBy(s, a, t) \in [Agent -> Entry \cup {NoEntry}]
    OBVIOUS
  <2>1. (IF Registered(a) THEN registry[a].age ELSE Never) \in Age
    BY <1>1 DEF Entry, Age, Never
  <2> QED
    BY <2>1 DEF RegisteredBy, Entry
<1>3. \A a \in Agent : UpdatedFor(a) \in [Agent -> Entry \cup {NoEntry}]
  BY <1>1 DEF UpdatedFor, Entry, Age
<1>4. \A s \in Socket, a \in Agent :
        DisconnectedFrom(s, a) \in [Agent -> Entry \cup {NoEntry}]
  BY <1>1 DEF DisconnectedFrom, Owns, Entry
<1>5. CleanedUp \in [Agent -> Entry \cup {NoEntry}]
  BY DEF CleanedUp
<1> QED
  BY <1>2, <1>3, <1>4, <1>5

(* The settings routes keep the file's type.                                *)
LEMMA StoreTypeInductive ==
    ASSUME StoreTypeOK, StoreNext
    PROVE  StoreTypeOK'
<1> USE DEF StoreTypeOK
<1>1. ReadTokens \in [Token -> TokenEntry \cup {NoToken}]
  BY ReadTokensType
<1>2. CASE \E t \in Token, n \in Name : CreateToken(t, n)
  BY <1>1, <1>2 DEF CreateToken, TokenEntry
<1>3. CASE \E t \in Token, n \in Name : RenameToken(t, n)
  <2> PICK t \in Token, n \in Name : RenameToken(t, n)
    BY <1>3
  <2>1. ReadTokens[t] \in TokenEntry
    BY <1>1 DEF RenameToken, Listed
  <2>2. [ReadTokens[t] EXCEPT !.name = n] \in TokenEntry
    BY <2>1 DEF TokenEntry
  <2> QED
    BY <1>1, <2>2 DEF RenameToken
<1>4. CASE \E t \in Token : RevokeToken(t)
  BY <1>1, <1>4 DEF RevokeToken
<1>5. CASE \E d \in DiskState : DiskChanges(d)
  BY <1>5 DEF DiskChanges
<1> QED
  BY <1>2, <1>3, <1>4, <1>5 DEF StoreNext

LEMMA TypeInit == Init => TypeOK
BY SessionAssumption
   DEF Init, StoreInit, TypeOK, StoreTypeOK, SocketState, DiskState

(* Every step keeps the types.                                              *)
LEMMA TypeInductive == TypeOK /\ [Next]_vars => TypeOK'
<1> SUFFICES ASSUME TypeOK, [Next]_vars PROVE TypeOK'
  OBVIOUS
<1> USE SessionAssumption DEF TypeOK
<1>1. ASSUME NEW s \in Socket, Reject(s) PROVE TypeOK'
               \/ handshake' \notin [Slot -> Handshake \cup {NoHandshake}]
  BY <1>1 DEF Reject, ClosedByServer, SocketState, storeVars, StoreTypeOK
<1>2. ASSUME NEW s \in Socket, NEW a \in Agent, NEW t \in Secret, Accept(s, a, t)
      PROVE  /\ sock' \in [Socket -> SocketState]
             /\ agentId' \in [Socket -> Agent \cup {NoAgent}]
             /\ registry' \in [Agent -> Entry \cup {NoEntry}]
  BY <1>2, RegistryOperations DEF Accept
<1>3. CASE \E s \in Socket : AgentSends(s)
  <2> PICK s \in Socket : AgentSends(s)
    BY <1>3
  <2>1. CASE Connect(s)
    BY <2>1 DEF Connect, SocketState, storeVars, StoreTypeOK
  <2>2. CASE \E a \in Agent, t \in StaticToken : AuthWithStaticToken(s, a, t)
    BY <2>2, <1>2 DEF AuthWithStaticToken, storeVars, StoreTypeOK, Secret
  <2>3. CASE \E a \in Agent, t \in Token \cup {WrongToken} : AuthWithoutList(s, a, t)
    BY <2>3, <1>1 DEF AuthWithoutList
  <2>4. CASE \E k \in Slot, a \in Agent, t \in Token \cup {WrongToken} :
               StartHandshake(k, s, a, t)
    BY <2>4, ReadTokensType DEF StartHandshake, Handshake, storeVars, StoreTypeOK
  <2>5. CASE EarlyFrame(s)
    BY <2>5, <1>1 DEF EarlyFrame
  <2>6. CASE Snapshot(s)
    BY <2>6, RegistryOperations DEF Snapshot, Authenticated, storeVars, StoreTypeOK
  <2> QED
    BY <2>1, <2>2, <2>3, <2>4, <2>5, <2>6 DEF AgentSends
<1>4. CASE \E s \in Socket : SocketCloses(s)
  BY <1>4, RegistryOperations
     DEF SocketCloses, Authenticated, SocketState, storeVars, StoreTypeOK
<1>5. CASE \E s \in Socket : Collect(s)
  BY <1>5 DEF Collect, SocketState, storeVars, StoreTypeOK
<1>6. CASE \E k \in Slot : FinishHandshake(k)
  <2> PICK k \in Slot : FinishHandshake(k)
    BY <1>6
  <2> DEFINE h == handshake[k]
  <2>1. h \in Handshake
    BY DEF FinishHandshake, Running
  <2>2. handshake' \in [Slot -> Handshake \cup {NoHandshake}]
    BY DEF FinishHandshake
  <2>3. CASE FinishRejected(h)
    BY <2>1, <2>2, <2>3, <1>1 DEF FinishRejected, Handshake
  <2>4. CASE FinishAccepted(h)
    <3>1. h.token \in Token /\ ReadTokens[h.token] \in TokenEntry
      BY <2>4, ReadTokensType DEF FinishAccepted, StillListed, Listed
    <3>2. [ReadTokens[h.token] EXCEPT !.used = TRUE] \in TokenEntry
      BY <3>1 DEF TokenEntry
    <3>3. [ReadTokens EXCEPT ![h.token].used = TRUE] \in [Token -> TokenEntry \cup {NoToken}]
      BY <3>1, <3>2, ReadTokensType
    <3>4. StoreTypeOK'
      BY <2>4, <3>3 DEF FinishAccepted, Stamp, StoreTypeOK
    <3>5. h.ws \in Socket /\ h.agent \in Agent /\ h.token \in Secret
      BY <2>1 DEF Handshake, Secret
    <3> QED
      BY <1>2, <2>2, <2>4, <3>4, <3>5 DEF FinishAccepted
  <2> QED
    BY <2>3, <2>4 DEF FinishHandshake
<1>7. CASE GetAll
  BY <1>7, RegistryOperations DEF GetAll, storeVars, StoreTypeOK
<1>8. CASE \E a \in Agent : RemoveAgent(a)
  BY <1>8 DEF RemoveAgent, storeVars, StoreTypeOK
<1>9. CASE Tick
  <2>1. ASSUME NEW a \in Agent, Registered(a), registry[a].age <= TTL
        PROVE  [registry[a] EXCEPT !.age = @ + 1] \in Entry
    BY <2>1 DEF Registered, Entry, Age
  <2> QED
    BY <1>9, <2>1 DEF Tick, storeVars, StoreTypeOK
<1>10. CASE Restart
  BY <1>10 DEF Restart, SocketState, storeVars, StoreTypeOK
<1>11. CASE SettingsRoutes
  BY <1>11, StoreTypeInductive DEF SettingsRoutes, sessionVars
<1>12. CASE UNCHANGED vars
  BY <1>12 DEF vars, StoreTypeOK
<1> QED
  BY <1>3, <1>4, <1>5, <1>6, <1>7, <1>8, <1>9, <1>10, <1>11, <1>12 DEF Next

(* Type correctness of the whole session model.                             *)
THEOREM TypeCorrect == Spec => []TypeOK
<1>1. Init => TypeOK
  BY TypeInit
<1>2. TypeOK /\ [Next]_vars => TypeOK'
  BY TypeInductive
<1> QED
  BY <1>1, <1>2, PTL DEF Spec

-----------------------------------------------------------------------------
(* Who owns an offline entry.                                               *)

(* ws.close() turns no socket into a closed one, nor a closed one back.     *)
LEMMA ServerCloseKeepsClosed ==
    ASSUME TypeOK, NEW s \in Socket, Reject(s)
    PROVE  /\ \A r \in Socket : sock[r] = "closed" <=> sock'[r] = "closed"
           /\ \A r \in Socket : Receiving(r) <=> Receiving(r)'
           /\ agentId' = agentId
           /\ registry' = registry
BY DEF Reject, ClosedByServer, TypeOK, Receiving

(* An accepted connection's entry is online, the others are as before.      *)
LEMMA AcceptedEntry ==
    ASSUME TypeOK, NEW s \in Socket, NEW a \in Agent, NEW t \in Secret, Accept(s, a, t)
    PROVE  /\ sock' = sock
           /\ agentId' = [agentId EXCEPT ![s] = a]
           /\ registry'[a] # NoEntry
           /\ registry'[a].online /\ registry'[a].ws = s /\ registry'[a].token = t
           /\ registry'[a].age = IF Registered(a) THEN registry[a].age ELSE Never
           /\ \A b \in Agent \ {a} : registry'[b] = registry[b]
<1> DEFINE e == [online |-> TRUE, ws |-> s, token |-> t,
                 age |-> IF Registered(a) THEN registry[a].age ELSE Never]
<1>1. registry' = [registry EXCEPT ![a] = e]
  BY DEF Accept, RegisteredBy
<1>2. registry'[a] = e /\ \A b \in Agent \ {a} : registry'[b] = registry[b]
  BY <1>1 DEF TypeOK
<1>3. e \in Entry
  <2>1. (IF Registered(a) THEN registry[a].age ELSE Never) \in Age
    BY SessionAssumption DEF TypeOK, Registered, Entry, Age, Never
  <2> QED
    BY <2>1 DEF Entry
<1>4. e # NoEntry
  BY <1>3, SessionAssumption
<1> QED
  BY <1>2, <1>4 DEF Accept

(* A snapshot changes the age and the online flag of one entry at most.     *)
LEMMA UpdatedEntry ==
    ASSUME TypeOK, NEW a \in Agent, registry' = UpdatedFor(a)
    PROVE  \A b \in Agent :
             /\ Registered(b) <=> Registered(b)'
             /\ b # a => registry'[b] = registry[b]
             /\ Registered(b) => /\ registry'[b].ws = registry[b].ws
                                 /\ registry'[b].token = registry[b].token
             /\ Registered(a) => registry'[a].online /\ registry'[a].age = 0
<1>1. CASE ~Registered(a)
  BY <1>1 DEF UpdatedFor, Registered
<1>2. CASE Registered(a)
  <2> DEFINE e == [online |-> TRUE, ws |-> registry[a].ws,
                   token |-> registry[a].token, age |-> 0]
  <2>1. registry[a] \in Entry
    BY <1>2 DEF TypeOK, Registered
  <2>2. e.online /\ e.age = 0 /\ e.ws = registry[a].ws /\ e.token = registry[a].token
    OBVIOUS
  <2>3. e \in Entry
    BY <2>1, SessionAssumption DEF Entry, Age
  <2>4. registry' = [registry EXCEPT ![a] = e]
    BY <1>2 DEF UpdatedFor
  <2>5. registry'[a] = e /\ \A b \in Agent \ {a} : registry'[b] = registry[b]
    BY <2>4 DEF TypeOK
  <2> HIDE DEF e
  <2> QED
    BY <1>2, <2>2, <2>3, <2>5, SessionAssumption DEF Registered
<1> QED
  BY <1>1, <1>2

(* A close changes the online flag of the entry it owns and nothing else.   *)
LEMMA DisconnectedEntry ==
    ASSUME TypeOK, NEW s \in Socket, NEW a \in Agent, registry' = DisconnectedFrom(s, a)
    PROVE  \A b \in Agent :
             /\ Registered(b) <=> Registered(b)'
             /\ ~(b = a /\ Owns(s, b)) => registry'[b] = registry[b]
             /\ Registered(b) => /\ registry'[b].ws = registry[b].ws
                                 /\ registry'[b].token = registry[b].token
                                 /\ registry'[b].age = registry[b].age
             /\ b = a /\ Owns(s, b) => ~registry'[b].online
<1>1. CASE ~Owns(s, a)
  BY <1>1 DEF DisconnectedFrom, Registered
<1>2. CASE Owns(s, a)
  <2> DEFINE e == [registry[a] EXCEPT !.online = FALSE]
  <2>1. registry[a] \in Entry
    BY <1>2 DEF TypeOK, Registered, Owns
  <2>2. /\ e.ws = registry[a].ws /\ e.token = registry[a].token
        /\ e.age = registry[a].age /\ ~e.online /\ e \in Entry
    BY <2>1 DEF Entry
  <2>3. registry'[a] = e /\ \A b \in Agent \ {a} : registry'[b] = registry[b]
    BY <1>2 DEF TypeOK, DisconnectedFrom
  <2> HIDE DEF e
  <2> QED
    BY <1>2, <2>2, <2>3, SessionAssumption DEF Registered, Owns
<1> QED
  BY <1>1, <1>2

(* Time changes ages only.                                                  *)
LEMMA TickedEntry ==
    ASSUME TypeOK, Tick
    PROVE  \A b \in Agent :
             /\ Registered(b) <=> Registered(b)'
             /\ Registered(b) => /\ registry'[b].ws = registry[b].ws
                                 /\ registry'[b].token = registry[b].token
                                 /\ registry'[b].online = registry[b].online
                                 /\ registry[b].age # Never => registry'[b].age # Never
<1> TAKE b \in Agent
<1>1. CASE Registered(b) /\ registry[b].age <= TTL
  <2> DEFINE e == [registry[b] EXCEPT !.age = @ + 1]
  <2>1. registry[b] \in Entry
    BY <1>1 DEF TypeOK, Registered
  <2>2. e.ws = registry[b].ws /\ e.token = registry[b].token
        /\ e.online = registry[b].online /\ e.age = registry[b].age + 1
    BY <2>1 DEF Entry
  <2>3. e \in Entry /\ e.age # Never
    BY <1>1, <2>1, <2>2, SessionAssumption DEF Entry, Age, Never
  <2>4. registry'[b] = e
    BY <1>1 DEF Tick
  <2> HIDE DEF e
  <2> QED
    BY <1>1, <2>2, <2>3, <2>4, SessionAssumption DEF Registered
<1>2. CASE ~(Registered(b) /\ registry[b].age <= TTL)
  BY <1>2 DEF Tick, Registered
<1> QED
  BY <1>1, <1>2

(* What the socket of an offline entry looks like is kept by every step.    *)
LEMMA OwnerInductive ==
    TypeOK /\ OfflineMeansOwnerClosed /\ [Next]_vars => OfflineMeansOwnerClosed'
<1> SUFFICES ASSUME TypeOK, OfflineMeansOwnerClosed, [Next]_vars,
                    NEW a \in Agent, Offline(a)'
             PROVE  sock'[registry'[a].ws] = "closed"
  BY DEF OfflineMeansOwnerClosed
<1> USE DEF Offline
<1>1. ASSUME Registered(a) /\ ~registry[a].online
      PROVE  registry[a].ws \in Socket /\ sock[registry[a].ws] = "closed"
  BY <1>1 DEF OfflineMeansOwnerClosed, TypeOK, Registered, Entry
<1>2. ASSUME NEW s \in Socket, Reject(s) PROVE sock'[registry'[a].ws] = "closed"
  BY <1>1, <1>2, ServerCloseKeepsClosed DEF Registered
<1>3. ASSUME NEW s \in Socket, NEW b \in Agent, NEW t \in Secret, Accept(s, b, t)
      PROVE  sock'[registry'[a].ws] = "closed"
  BY <1>1, <1>3, AcceptedEntry DEF Registered
<1>4. CASE \E s \in Socket : AgentSends(s)
  <2> PICK s \in Socket : AgentSends(s)
    BY <1>4
  <2>1. CASE Connect(s)
    BY <2>1, <1>1 DEF Connect, TypeOK, Registered
  <2>2. CASE \E b \in Agent, t \in StaticToken : AuthWithStaticToken(s, b, t)
    BY <2>2, <1>3 DEF AuthWithStaticToken, Secret
  <2>3. CASE \E b \in Agent, t \in Token \cup {WrongToken} : AuthWithoutList(s, b, t)
    BY <2>3, <1>2 DEF AuthWithoutList
  <2>4. CASE \E k \in Slot, b \in Agent, t \in Token \cup {WrongToken} :
               StartHandshake(k, s, b, t)
    BY <2>4, <1>1 DEF StartHandshake, Registered
  <2>5. CASE EarlyFrame(s)
    BY <2>5, <1>2 DEF EarlyFrame
  <2>6. CASE Snapshot(s)
    <3>1. agentId[s] \in Agent /\ registry' = UpdatedFor(agentId[s]) /\ sock' = sock
      BY <2>6 DEF Snapshot, Authenticated, TypeOK
    <3> QED
      BY <3>1, <1>1, UpdatedEntry
  <2> QED
    BY <2>1, <2>2, <2>3, <2>4, <2>5, <2>6 DEF AgentSends
<1>5. CASE \E s \in Socket : SocketCloses(s)
  <2> PICK s \in Socket : SocketCloses(s)
    BY <1>5
  <2>1. sock' = [sock EXCEPT ![s] = "closed"]
    BY DEF SocketCloses
  <2>2. CASE Authenticated(s)
    <3>1. agentId[s] \in Agent /\ registry' = DisconnectedFrom(s, agentId[s])
      BY <2>2 DEF SocketCloses, Authenticated, TypeOK
    <3> QED
      BY <2>1, <3>1, <1>1, DisconnectedEntry DEF Owns, TypeOK
  <2>3. CASE ~Authenticated(s)
    BY <2>1, <2>3, <1>1 DEF SocketCloses, Registered, TypeOK
  <2> QED
    BY <2>2, <2>3
<1>6. CASE \E s \in Socket : Collect(s)
  BY <1>6, <1>1 DEF Collect, Owns, Registered, TypeOK
<1>7. CASE \E k \in Slot : FinishHandshake(k)
  <2> PICK k \in Slot : FinishHandshake(k)
    BY <1>7
  <2> DEFINE h == handshake[k]
  <2>1. h.ws \in Socket /\ h.agent \in Agent /\ h.token \in Secret
    BY DEF FinishHandshake, Running, TypeOK, Handshake, Secret
  <2> QED
    BY <2>1, <1>2, <1>3 DEF FinishHandshake, FinishAccepted, FinishRejected
<1>8. CASE GetAll
  BY <1>8, <1>1 DEF GetAll, CleanedUp, Registered
<1>9. CASE \E b \in Agent : RemoveAgent(b)
  BY <1>9, <1>1 DEF RemoveAgent, Registered, TypeOK
<1>10. CASE Tick
  BY <1>10, <1>1, TickedEntry DEF Tick
<1>11. CASE Restart
  BY <1>11 DEF Restart, Registered
<1>12. CASE SettingsRoutes
  BY <1>12, <1>1 DEF SettingsRoutes, sessionVars, Registered
<1>13. CASE UNCHANGED vars
  BY <1>13, <1>1 DEF vars, Registered
<1> QED
  BY <1>4, <1>5, <1>6, <1>7, <1>8, <1>9, <1>10, <1>11, <1>12, <1>13 DEF Next

(* An agent shown offline has lost the connection that owns its entry; a    *)
(* replaced socket's close never takes a reconnected agent offline.         *)
THEOREM OfflineOwnersAreClosed == Spec => []OfflineMeansOwnerClosed
<1>1. Init => OfflineMeansOwnerClosed
  BY DEF Init, OfflineMeansOwnerClosed, Offline, Registered
<1>2. TypeOK /\ OfflineMeansOwnerClosed /\ [Next]_vars => OfflineMeansOwnerClosed'
  BY OwnerInductive
<1> QED
  BY <1>1, <1>2, TypeCorrect, PTL DEF Spec

-----------------------------------------------------------------------------
(* Action properties.                                                       *)

Admitted(s, a, t) ==
    /\ Accept(s, a, t)
    /\ t \in StaticToken \/ t \in Listed(ReadTokens)
    /\ Receiving(s) \/ FinishedLate(a)

(* Entries stay as they are, except that offline ones may go.               *)
OnlyOfflineLeave ==
    /\ UNCHANGED <<sock, agentId>>
    /\ \A a \in Agent :
         registry'[a] = registry[a] \/ (Offline(a) /\ registry'[a] = NoEntry)

(* Connections come and go without a word to the registry.                  *)
RegistryUntouched ==
    /\ registry' = registry
    /\ \A s \in Socket : Receiving(s) => Receiving(s)' /\ agentId'[s] = agentId[s]

(* The seven things a step can do to the registry and its connections.      *)
LEMMA StepKinds ==
    ASSUME TypeOK, [Next]_vars
    PROVE  \/ \E s \in Socket, a \in Agent, t \in Secret : Admitted(s, a, t)
           \/ \E s \in Socket : Snapshot(s)
           \/ \E s \in Socket : SocketCloses(s)
           \/ OnlyOfflineLeave
           \/ Tick
           \/ Restart
           \/ RegistryUntouched
<1>1. ASSUME NEW s \in Socket, Reject(s) PROVE RegistryUntouched
  BY <1>1, ServerCloseKeepsClosed DEF RegistryUntouched
<1>2. CASE \E s \in Socket : AgentSends(s)
  <2> PICK s \in Socket : AgentSends(s)
    BY <1>2
  <2>1. CASE Connect(s)
    BY <2>1 DEF Connect, RegistryUntouched, TypeOK, Receiving
  <2>2. CASE \E a \in Agent, t \in StaticToken : AuthWithStaticToken(s, a, t)
    BY <2>2 DEF AuthWithStaticToken, AuthFrame, Admitted, Secret
  <2>3. CASE \E a \in Agent, t \in Token \cup {WrongToken} : AuthWithoutList(s, a, t)
    BY <2>3, <1>1 DEF AuthWithoutList
  <2>4. CASE \E k \in Slot, a \in Agent, t \in Token \cup {WrongToken} :
               StartHandshake(k, s, a, t)
    BY <2>4 DEF StartHandshake, RegistryUntouched, Receiving
  <2>5. CASE EarlyFrame(s)
    BY <2>5, <1>1 DEF EarlyFrame
  <2>6. CASE Snapshot(s)
    BY <2>6
  <2> QED
    BY <2>1, <2>2, <2>3, <2>4, <2>5, <2>6 DEF AgentSends
<1>3. CASE \E s \in Socket : Collect(s)
  BY <1>3 DEF Collect, RegistryUntouched, TypeOK, Receiving
<1>4. CASE \E k \in Slot : FinishHandshake(k)
  <2> PICK k \in Slot : FinishHandshake(k)
    BY <1>4
  <2> DEFINE h == handshake[k]
  <2>1. h.ws \in Socket /\ h.agent \in Agent /\ h.token \in Secret
    BY DEF FinishHandshake, Running, TypeOK, Handshake, Secret
  <2>2. CASE FinishRejected(h)
    BY <2>1, <2>2, <1>1 DEF FinishRejected
  <2>3. CASE FinishAccepted(h)
    <3>1. handshake'[k] = NoHandshake
      BY DEF FinishHandshake, TypeOK
    <3>2. Receiving(h.ws) \/ FinishedLate(h.agent)
      BY <3>1 DEF FinishHandshake, FinishedLate
    <3>3. Admitted(h.ws, h.agent, h.token)
      BY <2>3, <3>2 DEF FinishAccepted, StillListed, Admitted
    <3> QED
      BY <2>1, <3>3
  <2> QED
    BY <2>2, <2>3 DEF FinishHandshake
<1>5. CASE GetAll
  <2>1. \A a \in Agent : registry'[a] = registry[a] \/ (Offline(a) /\ registry'[a] = NoEntry)
    BY <1>5 DEF GetAll, CleanedUp, Expired
  <2>2. UNCHANGED <<sock, agentId>>
    BY <1>5 DEF GetAll
  <2> QED
    BY <2>1, <2>2 DEF OnlyOfflineLeave
<1>6. CASE \E a \in Agent : RemoveAgent(a)
  <2> PICK b \in Agent : RemoveAgent(b)
    BY <1>6
  <2>1. \A a \in Agent : registry'[a] = registry[a] \/ (Offline(a) /\ registry'[a] = NoEntry)
    BY DEF RemoveAgent, TypeOK
  <2>2. UNCHANGED <<sock, agentId>>
    BY DEF RemoveAgent
  <2> QED
    BY <2>1, <2>2 DEF OnlyOfflineLeave
<1>7. ASSUME UNCHANGED <<sock, agentId, registry>> PROVE RegistryUntouched
  BY <1>7 DEF RegistryUntouched, Receiving
<1>8. CASE SettingsRoutes \/ UNCHANGED vars
  <2>1. UNCHANGED <<sock, agentId, registry>>
    BY <1>8 DEF SettingsRoutes, sessionVars, vars
  <2> QED
    BY <2>1, <1>7
<1> QED
  BY <1>2, <1>3, <1>4, <1>5, <1>6, <1>8 DEF Next

(* A token that is not listed at the moment of registration admits nobody,  *)
(* whatever the list said before bcrypt compared.                           *)
THEOREM OnlyAuthorizedRegister == Spec => RegistrationsAreAuthorized
<1>1. ASSUME TypeOK, [Next]_vars, NEW a \in Agent, TakenOver(a)
      PROVE  \/ registry'[a].token \in StaticToken
             \/ registry'[a].token \in Listed(ReadTokens)
  <2> USE <1>1 DEF TakenOver
  <2>1. CASE \E s \in Socket, b \in Agent, t \in Secret : Admitted(s, b, t)
    BY <2>1, AcceptedEntry DEF Admitted, Registered
  <2>2. CASE \E s \in Socket : Snapshot(s)
    <3> PICK s \in Socket : Snapshot(s)
      BY <2>2
    <3>1. agentId[s] \in Agent /\ registry' = UpdatedFor(agentId[s])
      BY DEF Snapshot, Authenticated, TypeOK
    <3> QED
      BY <3>1, UpdatedEntry DEF Registered
  <2>3. CASE \E s \in Socket : SocketCloses(s)
    <3> PICK s \in Socket : SocketCloses(s)
      BY <2>3
    <3>1. \/ registry' = registry
          \/ (agentId[s] \in Agent /\ registry' = DisconnectedFrom(s, agentId[s]))
      BY DEF SocketCloses, Authenticated, TypeOK
    <3> QED
      BY <3>1, DisconnectedEntry DEF Registered
  <2>4. CASE OnlyOfflineLeave
    BY <2>4 DEF OnlyOfflineLeave, Registered
  <2>5. CASE Tick
    BY <2>5, TickedEntry DEF Registered
  <2>6. CASE Restart
    BY <2>6 DEF Restart
  <2>7. CASE RegistryUntouched
    BY <2>7 DEF RegistryUntouched, Registered
  <2> QED
    BY <2>1, <2>2, <2>3, <2>4, <2>5, <2>6, <2>7, StepKinds
<1>2. TypeOK /\ [Next]_vars => AuthorizedStep
  BY <1>1 DEF AuthorizedStep
<1> QED
  BY <1>2, TypeCorrect, PTL DEF Spec, RegistrationsAreAuthorized

(* Agents shown online are never dropped, whoever reads or edits the list.  *)
THEOREM OnlineStays == Spec => OnlineIsNeverDropped
<1>1. ASSUME TypeOK, [Next]_vars, ~Restart, NEW a \in Agent, Online(a)
      PROVE  Registered(a)'
  <2> USE <1>1 DEF Online
  <2>1. CASE \E s \in Socket, b \in Agent, t \in Secret : Admitted(s, b, t)
    BY <2>1, AcceptedEntry DEF Admitted, Registered
  <2>2. CASE \E s \in Socket : Snapshot(s)
    <3> PICK s \in Socket : Snapshot(s)
      BY <2>2
    <3>1. agentId[s] \in Agent /\ registry' = UpdatedFor(agentId[s])
      BY DEF Snapshot, Authenticated, TypeOK
    <3> QED
      BY <3>1, UpdatedEntry
  <2>3. CASE \E s \in Socket : SocketCloses(s)
    <3> PICK s \in Socket : SocketCloses(s)
      BY <2>3
    <3>1. \/ registry' = registry
          \/ (agentId[s] \in Agent /\ registry' = DisconnectedFrom(s, agentId[s]))
      BY DEF SocketCloses, Authenticated, TypeOK
    <3> QED
      BY <3>1, DisconnectedEntry DEF Registered
  <2>4. CASE OnlyOfflineLeave
    BY <2>4 DEF OnlyOfflineLeave, Registered, Offline
  <2>5. CASE Tick
    BY <2>5, TickedEntry
  <2>6. CASE RegistryUntouched
    BY <2>6 DEF RegistryUntouched, Registered
  <2> QED
    BY <2>1, <2>2, <2>3, <2>4, <2>5, <2>6, StepKinds
<1>2. TypeOK /\ [Next]_vars => OnlineKeptStep
  BY <1>1 DEF OnlineKeptStep
<1> QED
  BY <1>2, TypeCorrect, PTL DEF Spec, OnlineIsNeverDropped

(* The last snapshot of an agent outlives every change of its connection.   *)
THEOREM SnapshotStays == Spec => SnapshotSurvives
<1>1. ASSUME TypeOK, [Next]_vars, ~Restart, NEW a \in Agent,
             Registered(a), Registered(a)', registry[a].age # Never
      PROVE  registry'[a].age # Never
  <2> USE <1>1
  <2>1. CASE \E s \in Socket, b \in Agent, t \in Secret : Admitted(s, b, t)
    BY <2>1, AcceptedEntry DEF Admitted
  <2>2. CASE \E s \in Socket : Snapshot(s)
    <3> PICK s \in Socket : Snapshot(s)
      BY <2>2
    <3>1. agentId[s] \in Agent /\ registry' = UpdatedFor(agentId[s])
      BY DEF Snapshot, Authenticated, TypeOK
    <3>2. 0 # Never
      BY SessionAssumption DEF Never
    <3> QED
      BY <3>1, <3>2, UpdatedEntry
  <2>3. CASE \E s \in Socket : SocketCloses(s)
    <3> PICK s \in Socket : SocketCloses(s)
      BY <2>3
    <3>1. \/ registry' = registry
          \/ (agentId[s] \in Agent /\ registry' = DisconnectedFrom(s, agentId[s]))
      BY DEF SocketCloses, Authenticated, TypeOK
    <3> QED
      BY <3>1, DisconnectedEntry
  <2>4. CASE OnlyOfflineLeave
    BY <2>4 DEF OnlyOfflineLeave, Registered
  <2>5. CASE Tick
    BY <2>5, TickedEntry
  <2>6. CASE RegistryUntouched
    BY <2>6 DEF RegistryUntouched
  <2> QED
    BY <2>1, <2>2, <2>3, <2>4, <2>5, <2>6, StepKinds
<1>2. TypeOK /\ [Next]_vars => SnapshotKeptStep
  BY <1>1 DEF SnapshotKeptStep
<1> QED
  BY <1>2, TypeCorrect, PTL DEF Spec, SnapshotSurvives

(* No step but a late end of a handshake, a second binding of the socket or *)
(* the close of a replaced connection leaves an online agent without a      *)
(* connection; in particular the close of the owner never does.             *)
THEOREM GhostOrigins == Spec => GhostsHaveThreeOrigins
<1>1. ASSUME TypeOK, [Next]_vars, NEW a \in Agent, Ghost(a)', ~Ghost(a)
      PROVE  FinishedLate(a) \/ Rebound(a) \/ ClosedAsReplaced(a)
  <2> USE <1>1
  <2>1. CASE \E s \in Socket, b \in Agent, t \in Secret : Admitted(s, b, t)
    <3> PICK s \in Socket, b \in Agent, t \in Secret : Admitted(s, b, t)
      BY <2>1
    <3>1. /\ sock' = sock /\ agentId' = [agentId EXCEPT ![s] = b]
          /\ \A c \in Agent \ {b} : registry'[c] = registry[c]
      BY AcceptedEntry DEF Admitted
    <3>2. CASE b = a
      <4>1. Receiving(s) => Connected(a)'
        BY <3>1, <3>2 DEF Connected, Receiving, TypeOK
      <4> QED
        BY <3>2, <4>1 DEF Ghost, Admitted
    <3>3. CASE b # a /\ agentId[s] = a
      BY <3>1, <3>3, SessionAssumption DEF Rebound, TypeOK
    <3>4. CASE b # a /\ agentId[s] # a
      <4>1. Online(a)' <=> Online(a)
        BY <3>1, <3>4 DEF Online, Registered
      <4>2. Connected(a)' <=> Connected(a)
        BY <3>1, <3>4 DEF Connected, Receiving, TypeOK
      <4> QED
        BY <4>1, <4>2 DEF Ghost
    <3> QED
      BY <3>2, <3>3, <3>4
  <2>2. CASE \E s \in Socket : Snapshot(s)
    <3> PICK s \in Socket : Snapshot(s)
      BY <2>2
    <3>1. /\ agentId[s] \in Agent /\ registry' = UpdatedFor(agentId[s])
          /\ Receiving(s) /\ UNCHANGED <<sock, agentId>>
      BY DEF Snapshot, Authenticated, TypeOK
    <3>2. Connected(a)' <=> Connected(a)
      BY <3>1 DEF Connected, Receiving
    <3>3. agentId[s] # a
      BY <3>1, <3>2 DEF Ghost, Connected
    <3>4. registry'[a] = registry[a]
      BY <3>1, <3>3, UpdatedEntry
    <3> QED
      BY <3>2, <3>4 DEF Ghost, Online, Registered
  <2>3. CASE \E s \in Socket : SocketCloses(s)
    <3> PICK s \in Socket : SocketCloses(s)
      BY <2>3
    <3>1. /\ Receiving(s) /\ sock' = [sock EXCEPT ![s] = "closed"] /\ agentId' = agentId
          /\ \/ (~Authenticated(s) /\ registry' = registry)
             \/ (agentId[s] \in Agent /\ registry' = DisconnectedFrom(s, agentId[s]))
      BY DEF SocketCloses, Authenticated, TypeOK
    <3>2. CASE agentId[s] = a
      <4>1. ~Owns(s, a)
        BY <3>1, <3>2, DisconnectedEntry, SessionAssumption
           DEF Ghost, Online, Authenticated
      <4>2. sock'[s] = "closed"
        BY <3>1 DEF TypeOK
      <4> QED
        BY <3>1, <3>2, <4>1, <4>2 DEF ClosedAsReplaced
    <3>3. CASE agentId[s] # a
      <4>1. registry'[a] = registry[a]
        BY <3>1, <3>3, DisconnectedEntry
      <4>2. Connected(a) => Connected(a)'
        BY <3>1, <3>3 DEF Connected, Receiving, TypeOK
      <4> QED
        BY <4>1, <4>2 DEF Ghost, Online, Registered
    <3> QED
      BY <3>2, <3>3
  <2>4. CASE OnlyOfflineLeave
    <3>1. Online(a)' => Online(a)
      BY <2>4 DEF OnlyOfflineLeave, Online, Registered
    <3>2. Connected(a)' <=> Connected(a)
      BY <2>4 DEF OnlyOfflineLeave, Connected, Receiving
    <3> QED
      BY <3>1, <3>2 DEF Ghost
  <2>5. CASE Tick
    <3>1. Online(a)' => Online(a)
      BY <2>5, TickedEntry DEF Online
    <3>2. Connected(a)' <=> Connected(a)
      BY <2>5 DEF Tick, Connected, Receiving
    <3> QED
      BY <3>1, <3>2 DEF Ghost
  <2>6. CASE Restart
    BY <2>6 DEF Restart, Ghost, Online, Registered
  <2>7. CASE RegistryUntouched
    <3>1. Online(a)' => Online(a)
      BY <2>7 DEF RegistryUntouched, Online, Registered
    <3>2. Connected(a) => Connected(a)'
      BY <2>7 DEF RegistryUntouched, Connected
    <3> QED
      BY <3>1, <3>2 DEF Ghost
  <2> QED
    BY <2>1, <2>2, <2>3, <2>4, <2>5, <2>6, <2>7, StepKinds
<1>2. TypeOK /\ [Next]_vars => GhostOriginStep
  BY <1>1 DEF GhostOriginStep
<1> QED
  BY <1>2, TypeCorrect, PTL DEF Spec, GhostsHaveThreeOrigins

-----------------------------------------------------------------------------
(* The token file implements the ledger of the settings API.                *)

(* A handshake that stamps lastUsedAt changes no name and no membership.    *)
LEMMA StampKeepsNames ==
    ASSUME TypeOK, NEW h \in Handshake, StillListed(h), Stamp(h)
    PROVE  Names' = Names
<1> USE DEF TypeOK, StoreTypeOK
<1>1. CASE ~Writable
  BY <1>1 DEF Stamp, Names
<1>2. CASE Writable
  <2>1. ReadTokens = tokens
    BY <1>2 DEF Writable, Readable, ReadTokens
  <2>2. h.token \in Token /\ tokens[h.token] \in TokenEntry
    BY <2>1 DEF StillListed, Listed
  <2> DEFINE e == [tokens[h.token] EXCEPT !.used = TRUE]
  <2>3. e \in TokenEntry /\ e.name = tokens[h.token].name
    BY <2>2 DEF TokenEntry
  <2>4. tokens' = [tokens EXCEPT ![h.token] = e]
    BY <1>2, <2>1 DEF Stamp
  <2>5. tokens'[h.token] = e /\ \A t \in Token \ {h.token} : tokens'[t] = tokens[t]
    BY <2>2, <2>4
  <2> HIDE DEF e
  <2>6. ASSUME NEW t \in Token
        PROVE  (IF tokens'[t] = NoToken THEN NoToken ELSE tokens'[t].name)
                 = (IF tokens[t] = NoToken THEN NoToken ELSE tokens[t].name)
    BY <2>2, <2>3, <2>5, NoTokenAssumption
  <2> QED
    BY <2>6 DEF Names
<1> QED
  BY <1>1, <1>2

(* The routes are the ledger's operations.                                  *)
LEMMA RoutesKeepTheLedger ==
    ASSUME TypeOK, StoreNext
    PROVE  [Ledger!LedgerNext]_(Ledger!ledgerVars)
<1> USE DEF TypeOK, StoreTypeOK
<1>0. ReadTokens = tokens \/ ~Readable
  BY DEF ReadTokens
<1>1. CASE \E t \in Token, n \in Name : CreateToken(t, n)
  <2> PICK t \in Token, n \in Name : CreateToken(t, n)
    BY <1>1
  <2> DEFINE e == [name |-> n, used |-> FALSE]
  <2>1. e \in TokenEntry /\ e.name = n
    BY DEF TokenEntry
  <2>2. tokens' = [tokens EXCEPT ![t] = e]
    BY <1>0 DEF CreateToken
  <2> HIDE DEF e
  <2>3. Names' = [Names EXCEPT ![t] = n]
    BY <2>1, <2>2, NoTokenAssumption DEF Names
  <2>4. Ledger!Issue(t, n)
    BY <2>3 DEF Ledger!Issue, CreateToken
  <2> QED
    BY <2>4 DEF Ledger!LedgerNext
<1>2. CASE \E t \in Token, n \in Name : RenameToken(t, n)
  <2> PICK t \in Token, n \in Name : RenameToken(t, n)
    BY <1>2
  <2>1. tokens[t] \in TokenEntry
    BY <1>0 DEF RenameToken, Listed
  <2> DEFINE e == [tokens[t] EXCEPT !.name = n]
  <2>2. e \in TokenEntry /\ e.name = n
    BY <2>1 DEF TokenEntry
  <2>3. tokens' = [tokens EXCEPT ![t] = e]
    BY <1>0 DEF RenameToken
  <2> HIDE DEF e
  <2>4. Names' = [Names EXCEPT ![t] = n]
    BY <2>2, <2>3, NoTokenAssumption DEF Names
  <2>5. Names[t] # NoToken
    BY <2>1, NoTokenAssumption DEF Names, TokenEntry
  <2>6. Ledger!Relabel(t, n)
    BY <2>4, <2>5 DEF Ledger!Relabel, RenameToken
  <2> QED
    BY <2>6 DEF Ledger!LedgerNext
<1>3. CASE \E t \in Token : RevokeToken(t)
  <2> PICK t \in Token : RevokeToken(t)
    BY <1>3
  <2>1. tokens[t] \in TokenEntry
    BY <1>0 DEF RevokeToken, Listed
  <2>2. tokens' = [tokens EXCEPT ![t] = NoToken]
    BY <1>0 DEF RevokeToken
  <2>3. Names' = [Names EXCEPT ![t] = NoToken]
    BY <2>2 DEF Names
  <2>4. Names[t] # NoToken
    BY <2>1, NoTokenAssumption DEF Names, TokenEntry
  <2>5. Ledger!Withdraw(t)
    BY <2>3, <2>4 DEF Ledger!Withdraw, RevokeToken
  <2> QED
    BY <2>5 DEF Ledger!LedgerNext
<1>4. CASE \E d \in DiskState : DiskChanges(d)
  BY <1>4 DEF DiskChanges, Names, Ledger!ledgerVars
<1> QED
  BY <1>1, <1>2, <1>3, <1>4 DEF StoreNext

(* A step of the server is a step of the ledger, or changes nothing in it.  *)
LEMMA StepsKeepTheLedger ==
    ASSUME TypeOK, [Next]_vars
    PROVE  [Ledger!LedgerNext]_(Ledger!ledgerVars)
<1>1. ASSUME UNCHANGED storeVars PROVE [Ledger!LedgerNext]_(Ledger!ledgerVars)
  BY <1>1 DEF storeVars, Names, Ledger!ledgerVars
<1>2. CASE \E s \in Socket : AgentSends(s)
  <2>1. UNCHANGED storeVars
    BY <1>2 DEF AgentSends, Connect, AuthWithStaticToken, AuthWithoutList,
                StartHandshake, EarlyFrame, Snapshot, Reject, storeVars
  <2> QED
    BY <2>1, <1>1
<1>3. CASE \E k \in Slot : FinishHandshake(k)
  <2> PICK k \in Slot : FinishHandshake(k)
    BY <1>3
  <2>1. CASE FinishRejected(handshake[k])
    BY <2>1, <1>1 DEF FinishRejected, Reject
  <2>2. CASE FinishAccepted(handshake[k])
    <3>1. handshake[k] \in Handshake
      BY DEF FinishHandshake, Running, TypeOK
    <3>2. Names' = Names
      BY <2>2, <3>1, StampKeepsNames DEF FinishAccepted
    <3>3. issued' = issued
      BY <2>2 DEF FinishAccepted, Stamp
    <3> QED
      BY <3>2, <3>3 DEF Ledger!ledgerVars
  <2> QED
    BY <2>1, <2>2 DEF FinishHandshake
<1>4. CASE SettingsRoutes
  BY <1>4, RoutesKeepTheLedger DEF SettingsRoutes
<1>5. CASE \/ \E s \in Socket : SocketCloses(s) \/ Collect(s)
           \/ GetAll \/ Tick \/ Restart
           \/ \E a \in Agent : RemoveAgent(a)
           \/ UNCHANGED vars
  <2>1. UNCHANGED storeVars
    BY <1>5 DEF SocketCloses, Collect, GetAll, Tick, Restart, RemoveAgent, vars, storeVars
  <2> QED
    BY <2>1, <1>1
<1> QED
  BY <1>2, <1>3, <1>4, <1>5 DEF Next

(* AgentSession, with the names in tokens.json, implements TokenLedger.     *)
THEOREM SessionsImplementTheLedger == Spec => KeepsTheLedger
<1>1. Init => Ledger!LedgerInit
  BY DEF Init, StoreInit, Ledger!LedgerInit, Names
<1>2. TypeOK /\ [Next]_vars => [Ledger!LedgerNext]_(Ledger!ledgerVars)
  BY StepsKeepTheLedger
<1> QED
  BY <1>1, <1>2, TypeCorrect, PTL DEF Spec, KeepsTheLedger, Ledger!LedgerSpec

-----------------------------------------------------------------------------
(* What the ledger promises, carried back to the agents.                    *)

(* An id that was handed out and names no token any more.                   *)
Revoked(t) == t \in issued /\ tokens[t] = NoToken

(* The ids of the file were handed out by the API.                          *)
ListedIsIssued == \A t \in Token : tokens[t] # NoToken => t \in issued

RevokedStep ==
    \A t \in Token :
        /\ tokens[t] # NoToken /\ tokens'[t] = NoToken => Revoked(t)'
        /\ Revoked(t) =>
             /\ Revoked(t)'
             /\ \A a \in Agent : TakenOver(a) => registry'[a].token # t

(* A token that leaves the file is revoked for good: no later route, no     *)
(* handshake begun before the revocation, no restart and no repair of the   *)
(* disk brings it back, and no connection is registered by it again.        *)
RevokedStaysOut == [][RevokedStep]_vars

(* A name in the ledger is an entry in the file.                            *)
LEMMA NamedIsListed ==
    /\ TypeOK => \A t \in Token : Names[t] = NoToken <=> tokens[t] = NoToken
    /\ TypeOK' => \A t \in Token : Names'[t] = NoToken <=> tokens'[t] = NoToken
BY NoTokenAssumption DEF Names, TypeOK, StoreTypeOK, TokenEntry

LEMMA LedgerIdsInductive ==
    TypeOK /\ ListedIsIssued /\ [Next]_vars => ListedIsIssued'
<1> SUFFICES ASSUME TypeOK, ListedIsIssued, [Next]_vars,
                    NEW t \in Token, tokens'[t] # NoToken
             PROVE  t \in issued'
  BY DEF ListedIsIssued
<1>1. [Ledger!LedgerNext]_(Ledger!ledgerVars) /\ TypeOK'
  BY StepsKeepTheLedger, TypeInductive
<1>2. Names'[t] # NoToken /\ (Names[t] # NoToken => t \in issued)
  BY <1>1, NamedIsListed DEF ListedIsIssued
<1>3. DOMAIN Names = Token
  BY DEF Names
<1> HIDE DEF Names
<1> QED
  BY <1>1, <1>2, <1>3
     DEF Ledger!LedgerNext, Ledger!ledgerVars, Ledger!Issue, Ledger!Relabel,
         Ledger!Withdraw, Names

LEMMA RevokedIsStable ==
    ASSUME TypeOK, [Next]_vars, NEW t \in Token, Revoked(t)
    PROVE  Revoked(t)'
<1>1. [Ledger!LedgerNext]_(Ledger!ledgerVars) /\ TypeOK'
  BY StepsKeepTheLedger, TypeInductive
<1>2. Names[t] = NoToken /\ t \in issued
  BY NamedIsListed DEF Revoked
<1>3. Names'[t] = NoToken /\ t \in issued'
  BY <1>1, <1>2
     DEF Ledger!LedgerNext, Ledger!ledgerVars, Ledger!Issue, Ledger!Relabel,
         Ledger!Withdraw, Names
<1> QED
  BY <1>1, <1>3, NamedIsListed DEF Revoked

(* Revocation is final, on the file and at the door.                        *)
THEOREM RevocationIsFinal == Spec => RevokedStaysOut
<1>1. Init => ListedIsIssued
  BY DEF Init, StoreInit, ListedIsIssued
<1>2. TypeOK /\ ListedIsIssued /\ [Next]_vars => ListedIsIssued'
  BY LedgerIdsInductive
<1>3. TypeOK /\ ListedIsIssued /\ ListedIsIssued' /\ [Next]_vars /\ AuthorizedStep
        => RevokedStep
  <2> SUFFICES ASSUME TypeOK, ListedIsIssued, [Next]_vars, AuthorizedStep,
                      NEW t \in Token
               PROVE  /\ tokens[t] # NoToken /\ tokens'[t] = NoToken => Revoked(t)'
                      /\ Revoked(t) =>
                           /\ Revoked(t)'
                           /\ \A a \in Agent : TakenOver(a) => registry'[a].token # t
    BY DEF RevokedStep
  <2>1. issued \subseteq issued'
    <3>1. [Ledger!LedgerNext]_(Ledger!ledgerVars)
      BY StepsKeepTheLedger
    <3> QED
      BY <3>1 DEF Ledger!LedgerNext, Ledger!ledgerVars, Ledger!Issue,
                  Ledger!Relabel, Ledger!Withdraw
  <2>2. tokens[t] # NoToken /\ tokens'[t] = NoToken => Revoked(t)'
    BY <2>1 DEF ListedIsIssued, Revoked
  <2>3. ASSUME Revoked(t), NEW a \in Agent, TakenOver(a)
        PROVE  registry'[a].token # t
    <3>1. t \notin Listed(ReadTokens)
      BY <2>3 DEF Revoked, Listed, ReadTokens
    <3> QED
      BY <2>3, <3>1, SessionAssumption DEF AuthorizedStep
  <2> QED
    BY <2>2, <2>3, RevokedIsStable
<1> QED
  BY <1>1, <1>2, <1>3, TypeCorrect, OnlyAuthorizedRegister, PTL
     DEF Spec, RevokedStaysOut, RegistrationsAreAuthorized

-----------------------------------------------------------------------------
(* What the two liveness properties rest on.                                *)

AnswerStep ==
    \A k \in Slot : Running(k) =>
        \/ handshake'[k] = handshake[k]
        \/ /\ handshake'[k] = NoHandshake
           /\ \/ agentId'[handshake[k].ws] = handshake[k].agent
              \/ sock'[handshake[k].ws] # "open"

(* A handshake goes on unchanged until it is answered: it ends with its     *)
(* socket bound to its agent, or with the socket not open any more, or with *)
(* the process.  No path of the handler, a failing re-read or a failing     *)
(* write included, gives it up on an open socket.                           *)
HandshakesEndAnswered == [][AnswerStep]_vars

THEOREM EveryEndIsAnAnswer == Spec => HandshakesEndAnswered
<1>1. ASSUME TypeOK, [Next]_vars, NEW k \in Slot, Running(k),
             handshake'[k] # handshake[k]
      PROVE  /\ handshake'[k] = NoHandshake
             /\ \/ agentId'[handshake[k].ws] = handshake[k].agent
                \/ sock'[handshake[k].ws] # "open"
  <2> USE <1>1
  <2>1. handshake[k].ws \in Socket /\ handshake[k].agent \in Agent
    BY DEF Running, TypeOK, Handshake
  <2>2. CASE \E s \in Socket : AgentSends(s)
    BY <2>2 DEF AgentSends, Connect, AuthWithStaticToken, AuthWithoutList,
                StartHandshake, EarlyFrame, Snapshot, TypeOK
  <2>3. CASE \E l \in Slot : FinishHandshake(l)
    <3> PICK l \in Slot : FinishHandshake(l)
      BY <2>3
    <3>1. l = k /\ handshake'[k] = NoHandshake
      BY DEF FinishHandshake, TypeOK
    <3>2. CASE FinishAccepted(handshake[k])
      BY <2>1, <3>1, <3>2 DEF FinishAccepted, Accept, TypeOK
    <3>3. CASE FinishRejected(handshake[k])
      BY <2>1, <3>1, <3>3 DEF FinishRejected, Reject, ClosedByServer, TypeOK
    <3> QED
      BY <3>1, <3>2, <3>3 DEF FinishHandshake
  <2>4. CASE Restart
    BY <2>1, <2>4 DEF Restart
  <2>5. CASE \/ \E s \in Socket : SocketCloses(s) \/ Collect(s)
             \/ GetAll \/ Tick \/ SettingsRoutes
             \/ \E a \in Agent : RemoveAgent(a)
             \/ UNCHANGED vars
    BY <2>5 DEF SocketCloses, Collect, GetAll, Tick, SettingsRoutes, RemoveAgent,
                sessionVars, vars
  <2> QED
    BY <2>2, <2>3, <2>4, <2>5 DEF Next
<1>2. TypeOK /\ [Next]_vars => AnswerStep
  BY <1>1 DEF AnswerStep
<1> QED
  BY <1>2, TypeCorrect, PTL DEF Spec, HandshakesEndAnswered

OfflineStep ==
    \A a \in Agent : Offline(a) /\ Offline(a)' =>
        /\ registry'[a].age >= registry[a].age
        /\ Tick => registry'[a].age > registry[a].age \/ registry[a].age > TTL
        /\ GetAll => registry[a].age <= TTL

(* An agent that stays offline only grows older: nothing takes its age      *)
(* back, every tick of the clock adds to it until it is past AGENT_TTL_MS,  *)
(* and a read of the list leaves no offline agent past it.  So some number  *)
(* of ticks and one read evict it, whatever the TTL.                        *)
OfflineOnlyAges == [][OfflineStep]_vars

THEOREM OfflineAgentsAge == Spec => OfflineOnlyAges
<1>1. ASSUME TypeOK, [Next]_vars, NEW a \in Agent, Offline(a), Offline(a)'
      PROVE  /\ registry'[a].age >= registry[a].age
             /\ Tick => registry'[a].age > registry[a].age \/ registry[a].age > TTL
             /\ GetAll => registry[a].age <= TTL
  <2> USE <1>1 DEF Offline
  <2>1. registry[a] \in Entry /\ registry[a].age \in Nat /\ TTL \in Nat
    BY SessionAssumption DEF TypeOK, Registered, Entry, Age
  <2>2. GetAll => registry[a].age <= TTL
    BY <2>1 DEF GetAll, CleanedUp, Expired, Registered
  <2>3. ASSUME Tick
        PROVE  /\ registry'[a].age >= registry[a].age
               /\ registry'[a].age > registry[a].age \/ registry[a].age > TTL
    <3>1. CASE registry[a].age <= TTL
      <4> DEFINE e == [registry[a] EXCEPT !.age = @ + 1]
      <4>1. registry'[a] = e
        BY <2>3, <3>1 DEF Tick
      <4>2. e.age = registry[a].age + 1
        BY <2>1 DEF Entry
      <4> HIDE DEF e
      <4> QED
        BY <2>1, <4>1, <4>2
    <3>2. CASE ~(registry[a].age <= TTL)
      BY <2>1, <2>3, <3>2 DEF Tick
    <3> QED
      BY <3>1, <3>2
  <2>4. ASSUME ~Tick PROVE registry'[a].age = registry[a].age
    <3>1. CASE \E s \in Socket, b \in Agent, t \in Secret : Admitted(s, b, t)
      BY <3>1, AcceptedEntry DEF Admitted
    <3>2. CASE \E s \in Socket : Snapshot(s)
      <4> PICK s \in Socket : Snapshot(s)
        BY <3>2
      <4>1. agentId[s] \in Agent /\ registry' = UpdatedFor(agentId[s])
        BY DEF Snapshot, Authenticated, TypeOK
      <4> QED
        BY <4>1, UpdatedEntry
    <3>3. CASE \E s \in Socket : SocketCloses(s)
      <4> PICK s \in Socket : SocketCloses(s)
        BY <3>3
      <4>1. \/ registry' = registry
            \/ (agentId[s] \in Agent /\ registry' = DisconnectedFrom(s, agentId[s]))
        BY DEF SocketCloses, Authenticated, TypeOK
      <4> QED
        BY <4>1, DisconnectedEntry
    <3>4. CASE OnlyOfflineLeave
      BY <3>4 DEF OnlyOfflineLeave, Registered
    <3>5. CASE Restart
      BY <3>5 DEF Restart, Registered
    <3>6. CASE RegistryUntouched
      BY <3>6 DEF RegistryUntouched
    <3> QED
      BY <2>4, <3>1, <3>2, <3>3, <3>4, <3>5, <3>6, StepKinds
  <2>5. registry'[a].age >= registry[a].age
    BY <2>1, <2>3, <2>4
  <2> QED
    BY <2>2, <2>3, <2>5
<1>2. TypeOK /\ [Next]_vars => OfflineStep
  BY <1>1 DEF OfflineStep
<1> QED
  BY <1>2, TypeCorrect, PTL DEF Spec, OfflineOnlyAges

-----------------------------------------------------------------------------
(* What an agent owes to its own patience.                                  *)

(* The closure of every socket, its handshake and the entry it owns agree,  *)
(* as long as no agent sends a frame before its auth is answered.           *)
FreshIsUnbound == \A s \in Socket : sock[s] = "new" => ~Authenticated(s)

HandshakesAreAlone ==
    \A k \in Slot : Running(k) =>
        /\ sock[handshake[k].ws] # "new"
        /\ ~Authenticated(handshake[k].ws)
        /\ \A l \in Slot : Running(l) /\ handshake[l].ws = handshake[k].ws => l = k

OwnersAreBound ==
    \A a \in Agent : Registered(a) => agentId[registry[a].ws] = a

PatientInv == FreshIsUnbound /\ HandshakesAreAlone /\ OwnersAreBound

NeverReboundStep == \A a \in Agent : ~Rebound(a)

(* A socket that was bound to an agent keeps it until the socket is gone.   *)
BindingsLast == [][NeverReboundStep]_vars

(* No step but an admission gives an entry a new owner.                     *)
LEMMA OwnersChange ==
    ASSUME TypeOK, [Next]_vars, NEW a \in Agent, Registered(a)'
    PROVE  \/ \E s \in Socket, t \in Secret : Admitted(s, a, t)
           \/ Registered(a) /\ registry'[a].ws = registry[a].ws
<1>1. ASSUME NEW s \in Socket, NEW b \in Agent, NEW t \in Secret, Admitted(s, b, t), b # a
      PROVE  Registered(a) /\ registry'[a].ws = registry[a].ws
  BY <1>1, AcceptedEntry DEF Admitted, Registered
<1>2. CASE \E s \in Socket : Snapshot(s)
  <2> PICK s \in Socket : Snapshot(s)
    BY <1>2
  <2>1. agentId[s] \in Agent /\ registry' = UpdatedFor(agentId[s])
    BY DEF Snapshot, Authenticated, TypeOK
  <2> QED
    BY <2>1, UpdatedEntry
<1>3. CASE \E s \in Socket : SocketCloses(s)
  <2> PICK s \in Socket : SocketCloses(s)
    BY <1>3
  <2>1. \/ registry' = registry
        \/ (agentId[s] \in Agent /\ registry' = DisconnectedFrom(s, agentId[s]))
    BY DEF SocketCloses, Authenticated, TypeOK
  <2> QED
    BY <2>1, DisconnectedEntry DEF Registered
<1>4. CASE OnlyOfflineLeave
  BY <1>4 DEF OnlyOfflineLeave, Registered
<1>5. CASE Tick
  BY <1>5, TickedEntry
<1>6. CASE Restart
  BY <1>6 DEF Restart, Registered
<1>7. CASE RegistryUntouched
  BY <1>7 DEF RegistryUntouched, Registered
<1> QED
  BY <1>1, <1>2, <1>3, <1>4, <1>5, <1>6, <1>7, StepKinds

(* What the frames, the ends of handshakes and the closes do to sockets,    *)
(* closures and handshakes: the rest of the steps touches none of them.     *)
Begins(k, s, a, t) ==
    /\ AuthFrame(s, a) /\ ~Running(k)
    /\ \E f \in [Token -> TokenEntry \cup {NoToken}] :
         handshake' = [handshake EXCEPT ![k] =
                         [ws |-> s, agent |-> a, token |-> t, file |-> f]]
    /\ UNCHANGED <<sock, agentId>>

Binds(s, a) ==
    /\ AuthFrame(s, a)
    /\ agentId' = [agentId EXCEPT ![s] = a]
    /\ UNCHANGED <<sock, handshake>>

Ends(k) ==
    /\ Running(k)
    /\ handshake' = [handshake EXCEPT ![k] = NoHandshake]
    /\ \/ /\ agentId' = [agentId EXCEPT ![handshake[k].ws] = handshake[k].agent]
          /\ UNCHANGED sock
       \/ /\ sock' = ClosedByServer(handshake[k].ws)
          /\ UNCHANGED agentId

Moves(s) ==
    /\ UNCHANGED <<agentId, handshake>>
    /\ \/ sock[s] = "new" /\ sock' = [sock EXCEPT ![s] = "open"]
       \/ sock' = ClosedByServer(s)
       \/ Receiving(s) /\ sock' = [sock EXCEPT ![s] = "closed"]

LEMMA ConnectionSteps ==
    ASSUME TypeOK, [Next]_vars
    PROVE  \/ \E k \in Slot, s \in Socket, a \in Agent, t \in Token \cup {WrongToken} :
                Begins(k, s, a, t)
           \/ \E s \in Socket, a \in Agent : Binds(s, a)
           \/ \E k \in Slot : Ends(k)
           \/ \E s \in Socket : Moves(s)
           \/ \E s \in Socket : Collect(s)
           \/ Restart
           \/ UNCHANGED <<sock, agentId, handshake>>
<1>1. CASE \E s \in Socket : AgentSends(s)
  <2> PICK s \in Socket : AgentSends(s)
    BY <1>1
  <2>1. CASE Connect(s)
    BY <2>1 DEF Connect, Moves
  <2>2. CASE \E a \in Agent, t \in StaticToken : AuthWithStaticToken(s, a, t)
    BY <2>2 DEF AuthWithStaticToken, Accept, Binds
  <2>3. CASE \E a \in Agent, t \in Token \cup {WrongToken} : AuthWithoutList(s, a, t)
    BY <2>3 DEF AuthWithoutList, Reject, Moves
  <2>4. CASE \E k \in Slot, a \in Agent, t \in Token \cup {WrongToken} :
               StartHandshake(k, s, a, t)
    <3> PICK k \in Slot, a \in Agent, t \in Token \cup {WrongToken} :
               StartHandshake(k, s, a, t)
      BY <2>4
    <3>1. ReadTokens \in [Token -> TokenEntry \cup {NoToken}]
      BY ReadTokensType DEF TypeOK
    <3>2. Begins(k, s, a, t)
      BY <3>1 DEF StartHandshake, Begins
    <3> QED
      BY <3>2
  <2>5. CASE EarlyFrame(s)
    BY <2>5 DEF EarlyFrame, Reject, Moves
  <2>6. CASE Snapshot(s)
    BY <2>6 DEF Snapshot
  <2> QED
    BY <2>1, <2>2, <2>3, <2>4, <2>5, <2>6 DEF AgentSends
<1>2. CASE \E s \in Socket : SocketCloses(s)
  BY <1>2 DEF SocketCloses, Moves
<1>3. CASE \E k \in Slot : FinishHandshake(k)
  BY <1>3 DEF FinishHandshake, FinishAccepted, FinishRejected, Accept, Reject, Ends
<1>4. CASE GetAll \/ Tick \/ SettingsRoutes \/ UNCHANGED vars
           \/ \E a \in Agent : RemoveAgent(a)
  BY <1>4 DEF GetAll, Tick, SettingsRoutes, RemoveAgent, sessionVars, vars
<1> QED
  BY <1>1, <1>2, <1>3, <1>4 DEF Next

(* Handshakes stay alone on their sockets, and owners bound.                *)
LEMMA PatientInductive ==
    ~Pipelined /\ TypeOK /\ PatientInv /\ [Next]_vars => PatientInv'
<1> SUFFICES ASSUME ~Pipelined, TypeOK, PatientInv, [Next]_vars PROVE PatientInv'
  OBVIOUS
<1> USE SessionAssumption
<1>0. /\ TypeOK'
      /\ \A k \in Slot : Running(k) =>
           handshake[k].ws \in Socket /\ handshake[k].agent \in Agent
  BY TypeInductive DEF TypeOK, Running, Handshake
<1>1. FreshIsUnbound' /\ HandshakesAreAlone'
  <2> USE <1>0 DEF PatientInv, FreshIsUnbound, HandshakesAreAlone, Authenticated
  <2>1. CASE \E k \in Slot, s \in Socket, a \in Agent, t \in Token \cup {WrongToken} :
               Begins(k, s, a, t)
    <3> PICK k \in Slot, s \in Socket, a \in Agent, t \in Token \cup {WrongToken},
             f \in [Token -> TokenEntry \cup {NoToken}] :
               /\ AuthFrame(s, a) /\ ~Running(k)
               /\ handshake' = [handshake EXCEPT ![k] =
                                  [ws |-> s, agent |-> a, token |-> t, file |-> f]]
               /\ UNCHANGED <<sock, agentId>>
      BY <2>1 DEF Begins
    <3>1. /\ sock[s] # "new" /\ agentId[s] = NoAgent
          /\ \A l \in Slot : Running(l) => handshake[l].ws # s
      BY DEF AuthFrame, Receiving, MaySend
    <3>2. \A l \in Slot : l # k => handshake'[l] = handshake[l]
      BY DEF TypeOK
    <3>3. handshake'[k].ws = s
      BY DEF TypeOK
    <3> QED
      BY <3>1, <3>2, <3>3 DEF Running
  <2>2. CASE \E s \in Socket, a \in Agent : Binds(s, a)
    BY <2>2 DEF Binds, AuthFrame, MaySend, Receiving, Running, TypeOK
  <2>3. CASE \E k \in Slot : Ends(k)
    <3> PICK k \in Slot : Ends(k)
      BY <2>3
    <3>1. \A l \in Slot : Running(l)' => l # k /\ Running(l) /\ handshake'[l] = handshake[l]
      BY DEF Ends, Running, TypeOK
    <3>2. \A s \in Socket : sock'[s] = "new" <=> sock[s] = "new"
      BY DEF Ends, ClosedByServer, TypeOK
    <3>3. \A s \in Socket : s # handshake[k].ws => agentId'[s] = agentId[s]
      BY DEF Ends, TypeOK
    <3> QED
      BY <3>1, <3>2, <3>3 DEF Ends
  <2>4. CASE \E s \in Socket : Moves(s)
    BY <2>4 DEF Moves, ClosedByServer, Receiving, Running, TypeOK
  <2>5. CASE \E s \in Socket : Collect(s)
    BY <2>5 DEF Collect, Running, TypeOK
  <2>6. CASE Restart
    BY <2>6 DEF Restart, Running
  <2>7. CASE UNCHANGED <<sock, agentId, handshake>>
    BY <2>7 DEF Running
  <2> QED
    BY <2>1, <2>2, <2>3, <2>4, <2>5, <2>6, <2>7, ConnectionSteps
<1>2. ASSUME NEW a \in Agent, Registered(a)' PROVE agentId'[registry'[a].ws] = a
  <2>1. CASE \E s \in Socket, t \in Secret : Admitted(s, a, t)
    <3> PICK s \in Socket, t \in Secret : Admitted(s, a, t)
      BY <2>1
    <3>1. agentId' = [agentId EXCEPT ![s] = a] /\ registry'[a].ws = s
      BY AcceptedEntry DEF Admitted
    <3> QED
      BY <3>1 DEF TypeOK
  <2>2. CASE Registered(a) /\ registry'[a].ws = registry[a].ws
    <3> DEFINE r == registry[a].ws
    <3>1. r \in Socket /\ agentId[r] = a /\ a # NoAgent
      BY <2>2 DEF TypeOK, Registered, Entry, PatientInv, OwnersAreBound
    <3>2. \A s \in Socket, b \in Agent : Binds(s, b) => agentId'[r] = a
      BY <3>1 DEF Binds, AuthFrame, Authenticated, TypeOK
    <3>3. \A k \in Slot : Ends(k) => agentId'[r] = a
      BY <1>0, <3>1 DEF Ends, PatientInv, HandshakesAreAlone, Authenticated, TypeOK
    <3>4. \A s \in Socket : Collect(s) => agentId'[r] = a
      BY <2>2, <3>1 DEF Collect, Owns, TypeOK
    <3>5. ~Restart
      BY <1>2 DEF Restart, Registered
    <3>6. agentId'[r] = a
      BY <3>1, <3>2, <3>3, <3>4, <3>5, ConnectionSteps DEF Begins, Moves
    <3> QED
      BY <2>2, <3>6
  <2> QED
    BY <1>2, <2>1, <2>2, OwnersChange
<1> QED
  BY <1>1, <1>2 DEF PatientInv, OwnersAreBound

(* The patient agents' invariant, for any number of connections.            *)
LEMMA PatientAgents == ~Pipelined /\ Spec => []PatientInv
<1> SUFFICES ASSUME ~Pipelined PROVE Spec => []PatientInv
  OBVIOUS
<1>1. Init => PatientInv
  BY DEF Init, PatientInv, FreshIsUnbound, HandshakesAreAlone, OwnersAreBound,
         Authenticated, Running, Registered
<1>2. TypeOK /\ PatientInv /\ [Next]_vars => PatientInv'
  BY PatientInductive
<1> QED
  BY <1>1, <1>2, TypeCorrect, PTL DEF Spec

(* Agents that wait for their answer are never bound twice: of the three    *)
(* origins of a ghost the second is theirs to avoid.                        *)
THEOREM PatientAgentsKeepTheirSocket == ~Pipelined /\ Spec => BindingsLast
<1> SUFFICES ASSUME ~Pipelined PROVE Spec => BindingsLast
  OBVIOUS
<1>1. TypeOK /\ PatientInv /\ [Next]_vars => NeverReboundStep
  <2> SUFFICES ASSUME TypeOK, PatientInv, [Next]_vars,
                      NEW a \in Agent, NEW s \in Socket, agentId[s] = a
               PROVE  agentId'[s] \in {a, NoAgent}
    BY DEF NeverReboundStep, Rebound
  <2>0. a # NoAgent
    BY SessionAssumption
  <2>1. \A r \in Socket, b \in Agent : Binds(r, b) => agentId'[s] = a
    BY <2>0 DEF Binds, AuthFrame, Authenticated, TypeOK
  <2>2. \A k \in Slot : Ends(k) => agentId'[s] = a
    BY <2>0 DEF Ends, PatientInv, HandshakesAreAlone, Authenticated, TypeOK
  <2>3. \A r \in Socket : Collect(r) => agentId'[s] \in {a, NoAgent}
    BY DEF Collect, TypeOK
  <2>4. Restart => agentId'[s] = NoAgent
    BY DEF Restart
  <2> QED
    BY <2>1, <2>2, <2>3, <2>4, ConnectionSteps DEF Begins, Moves
<1> QED
  BY <1>1, PatientAgents, TypeCorrect, PTL DEF Spec, BindingsLast

(* An agent that also never connects while an earlier socket of its own is  *)
(* up speaks through one socket at a time.                                  *)
Speaks(s, a) ==
    agentId[s] = a \/ \E k \in Slot : Running(k) /\ handshake[k].ws = s /\ handshake[k].agent = a

OneSpeaker ==
    \A a \in Agent, s, r \in Socket :
        Receiving(s) /\ Receiving(r) /\ Speaks(s, a) /\ Speaks(r, a) => s = r

(* Shown offline, an agent has no connection.                               *)
OfflineIsTrue == \A a \in Agent : Offline(a) => ~Connected(a)

(* Shown online by a connection that is gone.                               *)
Stranded(a) == Online(a) /\ ~Receiving(registry[a].ws)

SingleInv == OneSpeaker /\ OfflineIsTrue

StrandingStep == \A a \in Agent : Stranded(a)' /\ ~Stranded(a) => FinishedLate(a)

(* For agents that wait for their answer and hold one connection at a time, *)
(* the list errs in one way only.  An agent shown offline has no            *)
(* connection; one that is shown online without a connection is stranded on *)
(* a socket that closed, and the only step that strands it is the end of    *)
(* its handshake after that socket's close.                                 *)
OnlyLateAnswersMislead ==
    /\ [](OfflineIsTrue /\ \A a \in Agent : Ghost(a) => Stranded(a))
    /\ [][StrandingStep]_vars

(* A step that lets nobody speak who did not keeps the speakers apart.      *)
LEMMA FewerSpeakers ==
    ASSUME OneSpeaker,
           \A a \in Agent, s \in Socket :
             Receiving(s)' /\ Speaks(s, a)' => Receiving(s) /\ Speaks(s, a)
    PROVE  OneSpeaker'
BY DEF OneSpeaker

(* A new speaker that no other socket speaks with keeps them apart as well. *)
LEMMA OneMoreSpeaker ==
    ASSUME OneSpeaker, NEW s \in Socket, NEW a \in Agent,
           \A r \in Socket : Receiving(r)' <=> Receiving(r),
           \A r \in Socket \ {s}, b \in Agent : Speaks(r, b)' => Speaks(r, b),
           \A b \in Agent : Speaks(s, b)' => b = a,
           \A r \in Socket \ {s} : Receiving(r) => ~Speaks(r, a)
    PROVE  OneSpeaker'
BY DEF OneSpeaker

LEMMA SpeakersInductive ==
    ~Pipelined /\ ~Overlapping /\ TypeOK /\ PatientInv /\ OneSpeaker /\ [Next]_vars
      => OneSpeaker'
<1> SUFFICES ASSUME ~Pipelined, ~Overlapping, TypeOK, PatientInv, OneSpeaker, [Next]_vars
             PROVE  OneSpeaker'
  OBVIOUS
<1> USE SessionAssumption
<1>0. \A k \in Slot : Running(k) =>
        handshake[k].ws \in Socket /\ handshake[k].agent \in Agent
  BY DEF TypeOK, Running, Handshake
<1>1. ASSUME NEW s \in Socket, NEW a \in Agent, AuthFrame(s, a)
      PROVE  /\ agentId[s] = NoAgent
             /\ \A k \in Slot : Running(k) => handshake[k].ws # s
             /\ \A r \in Socket \ {s} : Receiving(r) => ~Speaks(r, a)
  BY <1>1 DEF AuthFrame, Authenticated, MaySend, MayConnectAs, Speaks
<1>2. CASE \E k \in Slot, s \in Socket, a \in Agent, t \in Token \cup {WrongToken} :
             Begins(k, s, a, t)
  <2> PICK k \in Slot, s \in Socket, a \in Agent, t \in Token \cup {WrongToken},
           f \in [Token -> TokenEntry \cup {NoToken}] :
             /\ AuthFrame(s, a) /\ ~Running(k)
             /\ handshake' = [handshake EXCEPT ![k] =
                                [ws |-> s, agent |-> a, token |-> t, file |-> f]]
             /\ UNCHANGED <<sock, agentId>>
    BY <1>2 DEF Begins
  <2>1. \A l \in Slot : l # k => handshake'[l] = handshake[l]
    BY DEF TypeOK
  <2>2. handshake'[k].ws = s /\ handshake'[k].agent = a
    BY DEF TypeOK
  <2>3. \A r \in Socket \ {s}, b \in Agent : Speaks(r, b)' => Speaks(r, b)
    BY <2>1, <2>2 DEF Speaks, Running
  <2>4. \A b \in Agent : Speaks(s, b)' => b = a
    BY <1>1, <2>1, <2>2 DEF Speaks, Running
  <2> QED
    BY <1>1, <2>3, <2>4, OneMoreSpeaker DEF Receiving
<1>3. CASE \E s \in Socket, a \in Agent : Binds(s, a)
  <2> PICK s \in Socket, a \in Agent : Binds(s, a)
    BY <1>3
  <2>1. agentId'[s] = a /\ \A r \in Socket \ {s} : agentId'[r] = agentId[r]
    BY DEF Binds, TypeOK
  <2>2. \A r \in Socket \ {s}, b \in Agent : Speaks(r, b)' => Speaks(r, b)
    BY <2>1 DEF Binds, Speaks, Running
  <2>3. \A b \in Agent : Speaks(s, b)' => b = a
    BY <1>1, <2>1 DEF Binds, Speaks, Running
  <2>4. \A r \in Socket : Receiving(r)' <=> Receiving(r)
    BY DEF Binds, Receiving
  <2>5. \A r \in Socket \ {s} : Receiving(r) => ~Speaks(r, a)
    BY <1>1 DEF Binds
  <2> QED
    BY <2>2, <2>3, <2>4, <2>5, OneMoreSpeaker
<1>4. CASE \E k \in Slot : Ends(k)
  <2> PICK k \in Slot : Ends(k)
    BY <1>4
  <2>1. \A l \in Slot : Running(l)' => Running(l) /\ handshake'[l] = handshake[l]
    BY DEF Ends, Running, TypeOK
  <2>2. \A s \in Socket : Receiving(s)' => Receiving(s)
    BY DEF Ends, ClosedByServer, Receiving, TypeOK
  <2>3. \A s \in Socket, a \in Agent : agentId'[s] = a => Speaks(s, a)
    BY DEF Ends, Speaks, TypeOK
  <2>4. \A s \in Socket, a \in Agent : Speaks(s, a)' => Speaks(s, a)
    BY <2>1, <2>3 DEF Speaks
  <2> QED
    BY <2>2, <2>4, FewerSpeakers
<1>5. CASE \E s \in Socket : Moves(s)
  <2> PICK s \in Socket : Moves(s)
    BY <1>5
  <2>1. \A r \in Socket, a \in Agent : Speaks(r, a)' <=> Speaks(r, a)
    BY DEF Moves, Speaks, Running
  <2>2. \A r \in Socket, a \in Agent : Receiving(r)' /\ Speaks(r, a) => Receiving(r)
    BY <1>0 DEF Moves, ClosedByServer, Receiving, Speaks, PatientInv, FreshIsUnbound,
                HandshakesAreAlone, Authenticated, TypeOK
  <2> QED
    BY <2>1, <2>2, FewerSpeakers
<1>6. CASE \E s \in Socket : Collect(s)
  <2> PICK s \in Socket : Collect(s)
    BY <1>6
  <2>1. \A r \in Socket : Receiving(r)' => Receiving(r) /\ agentId'[r] = agentId[r]
    BY DEF Collect, Receiving, TypeOK
  <2>2. handshake' = handshake
    BY DEF Collect
  <2> QED
    BY <2>1, <2>2, FewerSpeakers DEF Speaks, Running
<1>7. CASE Restart
  BY <1>7 DEF Restart, OneSpeaker, Receiving
<1>8. CASE UNCHANGED <<sock, agentId, handshake>>
  BY <1>8, FewerSpeakers DEF Speaks, Running, Receiving
<1> QED
  BY <1>2, <1>3, <1>4, <1>5, <1>6, <1>7, <1>8, ConnectionSteps

(* Nobody gains a connection but by an admission.                           *)
LEMMA ConnectionsAreAdmitted ==
    ASSUME TypeOK, PatientInv, [Next]_vars, NEW a \in Agent, Connected(a)'
    PROVE  \/ Connected(a)
           \/ \E s \in Socket, t \in Secret : Admitted(s, a, t)
<1> USE SessionAssumption
<1>1. CASE \E s \in Socket, b \in Agent, t \in Secret : Admitted(s, b, t)
  <2> PICK s \in Socket, b \in Agent, t \in Secret : Admitted(s, b, t)
    BY <1>1
  <2>1. sock' = sock /\ agentId' = [agentId EXCEPT ![s] = b]
    BY AcceptedEntry DEF Admitted
  <2>2. b # a => \A r \in Socket : agentId'[r] = a => agentId[r] = a
    BY <2>1 DEF TypeOK
  <2> QED
    BY <2>1, <2>2 DEF Connected, Receiving
<1>2. CASE ~\E s \in Socket, b \in Agent, t \in Secret : Admitted(s, b, t)
  <2> SUFFICES Connected(a)
    OBVIOUS
  <2> PICK r \in Socket : Receiving(r)' /\ agentId'[r] = a
    BY DEF Connected
  <2>1. CASE \E s \in Socket : AgentSends(s)
    <3> PICK s \in Socket : AgentSends(s)
      BY <2>1
    <3>1. ~\E b \in Agent, t \in StaticToken : AuthWithStaticToken(s, b, t)
      BY <1>2 DEF AuthWithStaticToken, AuthFrame, Admitted, Secret
    <3>2. agentId' = agentId
      BY <3>1 DEF AgentSends, Connect, AuthWithoutList, StartHandshake, EarlyFrame,
                  Snapshot, Reject
    <3>3. Receiving(r)
      BY <3>1, <3>2
         DEF AgentSends, Connect, AuthWithoutList, StartHandshake, EarlyFrame, Snapshot,
             Reject, ClosedByServer, Receiving, PatientInv, FreshIsUnbound,
             Authenticated, TypeOK
    <3> QED
      BY <3>2, <3>3 DEF Connected
  <2>2. CASE \E k \in Slot : FinishHandshake(k)
    <3> PICK k \in Slot : FinishHandshake(k)
      BY <2>2
    <3> DEFINE h == handshake[k]
    <3>1. h.ws \in Socket /\ h.agent \in Agent /\ h.token \in Secret
      BY DEF FinishHandshake, Running, TypeOK, Handshake, Secret
    <3>2. handshake'[k] = NoHandshake
      BY DEF FinishHandshake, TypeOK
    <3>3. ~FinishAccepted(h)
      BY <1>2, <3>1, <3>2
         DEF FinishAccepted, FinishHandshake, StillListed, Admitted, FinishedLate
    <3>4. Reject(h.ws)
      BY <3>3 DEF FinishHandshake, FinishRejected
    <3> QED
      BY <3>1, <3>4, ServerCloseKeepsClosed DEF Connected
  <2>3. CASE \E s \in Socket : SocketCloses(s) \/ Collect(s)
    BY <2>3 DEF SocketCloses, Collect, Connected, Receiving, TypeOK
  <2>4. CASE Restart
    BY <2>4 DEF Restart
  <2>5. CASE GetAll \/ Tick \/ SettingsRoutes \/ UNCHANGED vars
             \/ \E b \in Agent : RemoveAgent(b)
    <3>1. UNCHANGED <<sock, agentId>>
      BY <2>5 DEF GetAll, Tick, SettingsRoutes, RemoveAgent, sessionVars, vars
    <3> QED
      BY <3>1 DEF Connected, Receiving
  <2> QED
    BY <2>1, <2>2, <2>3, <2>4, <2>5 DEF Next
<1> QED
  BY <1>1, <1>2

LEMMA OfflineTruthInductive ==
    TypeOK /\ PatientInv /\ SingleInv /\ [Next]_vars => OfflineIsTrue'
<1> SUFFICES ASSUME TypeOK, PatientInv, OneSpeaker, OfflineIsTrue, [Next]_vars,
                    NEW a \in Agent, Offline(a)', Connected(a)'
             PROVE  FALSE
  BY DEF OfflineIsTrue, SingleInv
<1>1. ~\E s \in Socket, t \in Secret : Admitted(s, a, t)
  BY AcceptedEntry DEF Admitted, Offline
<1>2. Connected(a)
  BY <1>1, ConnectionsAreAdmitted
<1>3. ~Offline(a)
  BY <1>2 DEF OfflineIsTrue
<1>4. CASE \E s \in Socket, b \in Agent, t \in Secret : Admitted(s, b, t)
  BY <1>1, <1>3, <1>4, AcceptedEntry DEF Admitted, Offline, Registered
<1>5. CASE \E s \in Socket : Snapshot(s)
  <2> PICK s \in Socket : Snapshot(s)
    BY <1>5
  <2>1. agentId[s] \in Agent /\ registry' = UpdatedFor(agentId[s])
    BY DEF Snapshot, Authenticated, TypeOK
  <2> QED
    BY <2>1, <1>3, UpdatedEntry DEF Offline, Registered
<1>6. CASE \E s \in Socket : SocketCloses(s)
  <2> PICK s \in Socket : SocketCloses(s)
    BY <1>6
  <2>1. /\ Receiving(s) /\ sock' = [sock EXCEPT ![s] = "closed"] /\ agentId' = agentId
        /\ \/ registry' = registry
           \/ (agentId[s] \in Agent /\ registry' = DisconnectedFrom(s, agentId[s]))
    BY DEF SocketCloses, Authenticated, TypeOK
  <2>2. agentId[s] = a /\ Owns(s, a)
    BY <2>1, <1>3, DisconnectedEntry DEF Offline, Registered
  <2>3. PICK r \in Socket : Receiving(r)' /\ agentId'[r] = a
    BY DEF Connected
  <2>4. r # s /\ Receiving(r) /\ agentId[r] = a
    BY <2>1, <2>3 DEF Receiving, TypeOK
  <2> QED
    BY <2>1, <2>2, <2>4 DEF OneSpeaker, Speaks
<1>7. CASE OnlyOfflineLeave
  BY <1>3, <1>7 DEF OnlyOfflineLeave, Offline, Registered
<1>8. CASE Tick
  BY <1>3, <1>8, TickedEntry DEF Offline
<1>9. CASE Restart
  BY <1>9 DEF Restart, Offline, Registered
<1>10. CASE RegistryUntouched
  BY <1>3, <1>10 DEF RegistryUntouched, Offline, Registered
<1> QED
  BY <1>4, <1>5, <1>6, <1>7, <1>8, <1>9, <1>10, StepKinds

(* What strands an online agent's entry.                                    *)
LEMMA StrandingSteps ==
    ASSUME TypeOK, PatientInv, SingleInv, [Next]_vars,
           NEW a \in Agent, Stranded(a)', ~Stranded(a)
    PROVE  FinishedLate(a)
<1>1. CASE \E s \in Socket, b \in Agent, t \in Secret : Admitted(s, b, t)
  BY <1>1, AcceptedEntry DEF Admitted, Stranded, Online, Registered, Receiving
<1>2. CASE \E s \in Socket : Snapshot(s)
  <2> PICK s \in Socket : Snapshot(s)
    BY <1>2
  <2>1. /\ agentId[s] \in Agent /\ registry' = UpdatedFor(agentId[s])
        /\ Receiving(s) /\ sock' = sock
    BY DEF Snapshot, Authenticated, TypeOK
  <2>2. agentId[s] = a => ~Offline(a)
    BY <2>1 DEF SingleInv, OfflineIsTrue, Connected
  <2> QED
    BY <2>1, <2>2, UpdatedEntry DEF Stranded, Online, Offline, Registered, Receiving
<1>3. CASE \E s \in Socket : SocketCloses(s)
  <2> PICK s \in Socket : SocketCloses(s)
    BY <1>3
  <2>1. /\ Receiving(s) /\ sock' = [sock EXCEPT ![s] = "closed"]
        /\ \/ (~Authenticated(s) /\ registry' = registry)
           \/ (agentId[s] \in Agent /\ registry' = DisconnectedFrom(s, agentId[s]))
    BY DEF SocketCloses, Authenticated, TypeOK
  <2>2. Registered(a) /\ registry'[a].ws = registry[a].ws /\ registry'[a].online
    BY <2>1, DisconnectedEntry DEF Stranded, Online, Registered
  <2>3. ~Owns(s, a)
    BY <2>1, <2>2, DisconnectedEntry, SessionAssumption
       DEF Owns, PatientInv, OwnersAreBound, Authenticated
  <2>4. Online(a)
    BY <2>1, <2>2, <2>3, DisconnectedEntry DEF Online
  <2>5. registry[a].ws \in Socket
    BY <2>2 DEF TypeOK, Registered, Entry
  <2> QED
    BY <2>1, <2>2, <2>3, <2>4, <2>5 DEF Stranded, Owns, Receiving, TypeOK
<1>4. CASE OnlyOfflineLeave
  BY <1>4 DEF OnlyOfflineLeave, Stranded, Online, Offline, Registered, Receiving
<1>5. CASE Tick
  <2>1. sock' = sock
    BY <1>5 DEF Tick
  <2> QED
    BY <1>5, <2>1, TickedEntry DEF Stranded, Online, Receiving
<1>6. CASE Restart
  BY <1>6 DEF Restart, Stranded, Online, Registered
<1>7. CASE RegistryUntouched
  <2>1. Online(a) /\ registry'[a].ws = registry[a].ws
    BY <1>7 DEF RegistryUntouched, Stranded, Online, Registered
  <2>2. registry[a].ws \in Socket
    BY <2>1 DEF TypeOK, Online, Registered, Entry
  <2> QED
    BY <1>7, <2>1, <2>2 DEF RegistryUntouched, Stranded
<1> QED
  BY <1>1, <1>2, <1>3, <1>4, <1>5, <1>6, <1>7, StepKinds

(* The one way the list misleads about a single, patient connection.        *)
THEOREM SingleConnectionsAreShown ==
    ~Pipelined /\ ~Overlapping /\ Spec => OnlyLateAnswersMislead
<1> SUFFICES ASSUME ~Pipelined, ~Overlapping PROVE Spec => OnlyLateAnswersMislead
  OBVIOUS
<1>1. Init => SingleInv
  BY DEF Init, SingleInv, OneSpeaker, OfflineIsTrue, Receiving, Offline, Registered
<1>2. TypeOK /\ PatientInv /\ SingleInv /\ [Next]_vars => SingleInv'
  BY SpeakersInductive, OfflineTruthInductive DEF SingleInv
<1>3. TypeOK /\ PatientInv /\ SingleInv
        => OfflineIsTrue /\ \A a \in Agent : Ghost(a) => Stranded(a)
  <2>1. ASSUME TypeOK, PatientInv, NEW a \in Agent, Ghost(a) PROVE Stranded(a)
    BY <2>1 DEF Ghost, Online, Stranded, Connected, PatientInv, OwnersAreBound,
                TypeOK, Registered, Entry
  <2> QED
    BY <2>1 DEF SingleInv
<1>4. TypeOK /\ PatientInv /\ SingleInv /\ [Next]_vars => StrandingStep
  BY StrandingSteps DEF StrandingStep
<1>5. Spec => []PatientInv
  BY PatientAgents
<1> QED
  BY <1>1, <1>2, <1>3, <1>4, <1>5, TypeCorrect, PTL DEF Spec, OnlyLateAnswersMislead
=============================================================================
