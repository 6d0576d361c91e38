--------------------------- MODULE Streams_proofs ---------------------------
(* Theorems about LogStreams, for any streams, containers and agents: the   *)
(* child that a stream knows, the ways a process outlives its stream, and   *)
(* the lines that are on the screen; and about MetricsStream, for any       *)
(* connections and counters: the window that a reading is of.               *)
EXTENDS LogStreams, MetricsStream, SequenceTheorems, TLAPS

-----------------------------------------------------------------------------
(* What the operations make of a stream's record.                           *)

LEMMA StartedRecord ==
    ASSUME NEW r \in ServerStream, NEW g \in {"none", "pending"}
    PROVE  LET n == [r EXCEPT !.started = TRUE, !.gateway = g]
           IN /\ n \in ServerStream /\ n.started /\ n.gateway = g
              /\ n.for = r.for /\ n.left = r.left /\ n.aborted = r.aborted
              /\ n.child = r.child /\ n.running = r.running
<1>1. [r EXCEPT !.started = TRUE, !.gateway = g] \in ServerStream
  BY Zenon DEF ServerStream
<1> QED  BY <1>1, SMT DEF ServerStream

LEMMA StartedOnly ==
    ASSUME NEW r \in ServerStream
    PROVE  LET n == [r EXCEPT !.started = TRUE]
           IN /\ n \in ServerStream /\ n.started /\ n.gateway = r.gateway
              /\ n.for = r.for /\ n.left = r.left /\ n.aborted = r.aborted
              /\ n.child = r.child /\ n.running = r.running
<1>1. [r EXCEPT !.started = TRUE] \in ServerStream
  BY Zenon DEF ServerStream
<1> QED  BY <1>1, SMT DEF ServerStream

LEMMA GatewayRecord ==
    ASSUME NEW r \in ServerStream, NEW g \in {"none", "pending", "cancelling", "streaming"}
    PROVE  LET n == [r EXCEPT !.gateway = g]
           IN /\ n \in ServerStream /\ n.gateway = g /\ n.started = r.started
              /\ n.for = r.for /\ n.left = r.left /\ n.aborted = r.aborted
              /\ n.child = r.child /\ n.running = r.running
<1>1. [r EXCEPT !.gateway = g] \in ServerStream
  BY Zenon DEF ServerStream
<1> QED  BY <1>1, SMT DEF ServerStream

LEMMA SpawnedRecord ==
    ASSUME NEW r \in ServerStream, NEW c \in Child
    PROVE  LET n == Spawned(r, c)
           IN /\ n \in ServerStream /\ n.child = c /\ n.running = r.running \cup {c}
              /\ n.for = r.for /\ n.left = r.left /\ n.aborted = r.aborted
              /\ n.started = r.started /\ n.gateway = r.gateway
<1>1. Spawned(r, c) \in ServerStream
  BY Zenon DEF ServerStream, Spawned
<1> QED  BY <1>1, SMT DEF ServerStream, Spawned

LEMMA RunningRecord ==
    ASSUME NEW r \in ServerStream, NEW cs
    PROVE  LET n == [r EXCEPT !.running = @ \ cs]
           IN /\ n \in ServerStream /\ n.running = r.running \ cs
              /\ n.for = r.for /\ n.left = r.left /\ n.aborted = r.aborted
              /\ n.started = r.started /\ n.gateway = r.gateway /\ n.child = r.child
<1>1. [r EXCEPT !.running = @ \ cs] \in ServerStream
  BY Zenon DEF ServerStream
<1> QED  BY <1>1, SMT DEF ServerStream

LEMMA AbortedRecord ==
    ASSUME NEW r \in ServerStream
    PROVE  LET n == [r EXCEPT !.aborted = TRUE]
           IN /\ n \in ServerStream /\ n.aborted /\ n.running = r.running
              /\ n.for = r.for /\ n.left = r.left /\ n.child = r.child
              /\ n.started = r.started /\ n.gateway = r.gateway
<1>1. [r EXCEPT !.aborted = TRUE] \in ServerStream
  BY Zenon DEF ServerStream
<1> QED  BY <1>1, SMT DEF ServerStream

LEMMA LeftRecord ==
    ASSUME NEW r \in ServerStream
    PROVE  LET n == [r EXCEPT !.left = TRUE]
           IN /\ n \in ServerStream /\ n.left /\ n.running = r.running
              /\ n.for = r.for /\ n.aborted = r.aborted /\ n.child = r.child
              /\ n.started = r.started /\ n.gateway = r.gateway
<1>1. [r EXCEPT !.left = TRUE] \in ServerStream
  BY Zenon DEF ServerStream
<1> QED  BY <1>1, SMT DEF ServerStream

LEMMA KilledRecord ==
    ASSUME NEW r \in ServerStream, r.running \subseteq {r.child}
    PROVE  LET n == Killed(r)
           IN /\ n \in ServerStream /\ n.running = {}
              /\ n.for = r.for /\ n.left = r.left /\ n.aborted = r.aborted
              /\ n.started = r.started /\ n.gateway = r.gateway /\ n.child = r.child
<1>1. Killed(r) = [r EXCEPT !.running = @ \ {r.child}]
  BY DEF Killed
<1> QED  BY <1>1, RunningRecord

-----------------------------------------------------------------------------
(* The inductive invariant.                                                 *)

(* No child was started yet: before the handler ran, while a gateway is     *)
(* asked, and for an agent at all.                                          *)
ChildlessSoFar(r) == ~r.started \/ r.gateway # "none" \/ r.for.agent # NoAgent

(* What a stream's record keeps.                                            *)
Sound(r) ==
    /\ r \in ServerStream
    /\ r.running \subseteq {r.child}
    /\ ChildlessSoFar(r) => r.running = {} /\ r.child = NoChild
    /\ ~r.started => r.gateway = "none"
    /\ r.aborted => r.left

(* The stream the browser reads is up, was not left and is the selection's; *)
(* once the effect ran, that is the selection on the screen.                *)
WidgetInv ==
    /\ es \in Stream => Up(es) /\ stream[es].for = esFor /\ ~stream[es].left
    /\ shown # {} => esFor # Idle /\ shown = {esFor}
    /\ Settled /\ esFor # Idle => esFor = Selected

LsInv ==
    /\ LsTypeOK
    /\ \A s \in Stream : Up(s) => Sound(stream[s])
    /\ WidgetInv

(* A step of the server on one stream: it stays that selection's, and what  *)
(* becomes an orphan has one of the three origins.                          *)
Late(r, n) ==
    \/ ~r.started
    \/ r.gateway = "cancelling" \/ (r.gateway = "pending" /\ r.for.agent = NoAgent)
    \/ r.child = "journal" /\ n.child = "tail"

Becomes(r, n) ==
    /\ Sound(n)
    /\ n.for = r.for /\ n.left = r.left
    /\ n.aborted /\ n.running # {} /\ ~(r.aborted /\ r.running # {}) =>
         r.aborted /\ Late(r, n)

ServerStep(s) ==
    /\ Up(s) /\ UNCHANGED widgetVars
    /\ \E n : Set(s, n) /\ Becomes(stream[s], n)

LEMMA StartStep ==
    ASSUME LsInv, NEW s \in Stream, Start(s)
    PROVE  ServerStep(s)
<1> DEFINE r == stream[s]
           begun == [r EXCEPT !.started = TRUE]
<1>0. /\ Up(s) /\ UNCHANGED widgetVars /\ Sound(r) /\ r \in ServerStream
      /\ ~r.started /\ r.running = {} /\ r.child = NoChild /\ r.gateway = "none"
  BY DEF LsInv, Start, Sound, ChildlessSoFar
<1>1. /\ begun \in ServerStream /\ begun.started /\ begun.gateway = "none"
      /\ begun.for = r.for /\ begun.left = r.left /\ begun.aborted = r.aborted
      /\ begun.child = NoChild /\ begun.running = {}
  BY <1>0, StartedOnly
<1> HIDE DEF begun
<1>2. Becomes(r, begun)
  BY <1>0, <1>1 DEF Becomes, Sound
<1>3. ASSUME NEW c \in {"docker", "journal"}, r.for.agent = NoAgent
      PROVE  Becomes(r, Spawned(begun, c))
  <2>1. c \in Child
    BY DEF Child
  <2> QED  BY <1>0, <1>1, <1>3, <2>1, SpawnedRecord DEF Becomes, Sound, ChildlessSoFar, Late
<1>4. Becomes(r, [begun EXCEPT !.gateway = "pending"])
  <2> DEFINE n == [begun EXCEPT !.gateway = "pending"]
  <2>1. /\ n \in ServerStream /\ n.gateway = "pending" /\ n.started = begun.started
        /\ n.for = begun.for /\ n.left = begun.left /\ n.aborted = begun.aborted
        /\ n.child = begun.child /\ n.running = begun.running
    BY <1>1, GatewayRecord
  <2> HIDE DEF n
  <2>2. Becomes(r, n)
    BY <1>0, <1>1, <2>1 DEF Becomes, Sound
  <2> QED  BY <2>2 DEF n
<1>5. CASE StartHostStream(s)
  <2>1. r.for.agent = NoAgent
    BY <1>5 DEF StartHostStream
  <2>2. \/ Set(s, begun)
        \/ \E c \in {"docker", "journal"} : Set(s, Spawned(begun, c))
        \/ Set(s, [begun EXCEPT !.gateway = "pending"])
    BY <1>5 DEF StartHostStream, begun
  <2> QED  BY <1>0, <1>2, <1>3, <1>4, <2>1, <2>2 DEF ServerStep
<1>6. CASE StartAgentStream(s)
  <2>1. PICK g \in {"none", "pending"} :
          Set(s, [r EXCEPT !.started = TRUE, !.gateway = g])
    BY <1>6 DEF StartAgentStream
  <2> DEFINE n == [r EXCEPT !.started = TRUE, !.gateway = g]
  <2>2. /\ n \in ServerStream /\ n.started /\ n.gateway = g
        /\ n.for = r.for /\ n.left = r.left /\ n.aborted = r.aborted
        /\ n.child = r.child /\ n.running = r.running
    BY <1>0, StartedRecord
  <2>3. Set(s, n)
    BY <2>1
  <2> HIDE DEF n
  <2>4. Becomes(r, n)
    BY <1>0, <2>2 DEF Becomes, Sound
  <2> QED  BY <1>0, <2>3, <2>4 DEF ServerStep
<1> QED  BY <1>5, <1>6 DEF Start

LEMMA ChildStep ==
    ASSUME LsInv, NEW s \in Stream,
           (\E c \in Child : ChildExits(s, c)) \/ JournalComplains(s)
    PROVE  ServerStep(s)
<1> DEFINE r == stream[s]
<1>0. /\ Up(s) /\ UNCHANGED widgetVars /\ Sound(r) /\ r \in ServerStream /\ r.started
  BY DEF LsInv, ChildExits, JournalComplains, Serving, Sound
<1>1. ASSUME NEW c \in Child, ChildExits(s, c) PROVE ServerStep(s)
  <2>1. Set(s, [r EXCEPT !.running = @ \ {c}])
    BY <1>1 DEF ChildExits
  <2> DEFINE n == [r EXCEPT !.running = @ \ {c}]
  <2>2. /\ n \in ServerStream /\ n.running = r.running \ {c}
        /\ n.for = r.for /\ n.left = r.left /\ n.aborted = r.aborted
        /\ n.started = r.started /\ n.gateway = r.gateway /\ n.child = r.child
    BY <1>0, RunningRecord
  <2> HIDE DEF n
  <2>3. Becomes(r, n)
    BY <1>0, <2>2 DEF Becomes, Sound, ChildlessSoFar
  <2> QED  BY <1>0, <2>1, <2>3 DEF ServerStep, n
<1>2. CASE JournalComplains(s)
  <2>1. Set(s, FallBackToTail(r)) /\ r.child = "journal"
    BY <1>2 DEF JournalComplains
  <2>2. "tail" \in Child /\ NoChild # "journal"
    BY LogAssumption DEF Child
  <2>3. /\ Killed(r) \in ServerStream /\ Killed(r).running = {}
        /\ Killed(r).for = r.for /\ Killed(r).left = r.left
        /\ Killed(r).aborted = r.aborted /\ Killed(r).started = r.started
        /\ Killed(r).gateway = r.gateway
    BY <1>0, KilledRecord DEF Sound
  <2> DEFINE n == FallBackToTail(r)
  <2>4. /\ n \in ServerStream /\ n.child = "tail" /\ n.running = {"tail"}
        /\ n.for = r.for /\ n.left = r.left /\ n.aborted = r.aborted
        /\ n.started = r.started /\ n.gateway = r.gateway
    BY <2>2, <2>3, SpawnedRecord DEF FallBackToTail
  <2> HIDE DEF n
  <2>5. Becomes(r, n)
    BY <1>0, <2>1, <2>2, <2>4 DEF Becomes, Sound, ChildlessSoFar, Late
  <2> QED  BY <1>0, <2>1, <2>5 DEF ServerStep, n
<1> QED  BY <1>1, <1>2

LEMMA GatewayStep ==
    ASSUME LsInv, NEW s \in Stream,
           \/ GatewayStreams(s) \/ GatewayLacksStream(s) \/ Cancelled(s)
           \/ UrlRefused(s) \/ GatewayEnds(s)
    PROVE  ServerStep(s)
<1> DEFINE r == stream[s]
<1>0. /\ Up(s) /\ UNCHANGED widgetVars /\ Sound(r) /\ r \in ServerStream /\ r.started
      /\ r.gateway # "none" /\ r.running = {} /\ r.child = NoChild
  BY DEF LsInv, GatewayStreams, GatewayLacksStream, Cancelled, UrlRefused, GatewayEnds,
     Serving, Sound, ChildlessSoFar
<1>1. ASSUME NEW g \in {"none", "cancelling", "streaming"}, Set(s, [r EXCEPT !.gateway = g])
      PROVE  ServerStep(s)
  <2> DEFINE n == [r EXCEPT !.gateway = g]
  <2>1. /\ n \in ServerStream /\ n.gateway = g /\ n.started = r.started
        /\ n.for = r.for /\ n.left = r.left /\ n.aborted = r.aborted
        /\ n.child = r.child /\ n.running = r.running
    <3>1. r \in ServerStream /\ g \in {"none", "pending", "cancelling", "streaming"}
      BY <1>0
    <3> HIDE DEF r
    <3> QED  BY <3>1, GatewayRecord
  <2> HIDE DEF n
  <2>2. Becomes(r, n)
    BY <1>0, <2>1 DEF Becomes, Sound
  <2> QED  BY <1>0, <1>1, <2>2 DEF ServerStep, n
<1>2. CASE GatewayStreams(s) \/ GatewayLacksStream(s) \/ GatewayEnds(s)
  BY <1>1, <1>2 DEF GatewayStreams, GatewayLacksStream, GatewayEnds
<1>3. CASE Cancelled(s) \/ UrlRefused(s)
  <2> DEFINE over == [r EXCEPT !.gateway = "none"]
  <2>1. Set(s, FallBackToJournal(r)) /\ r.gateway \in {"cancelling", "pending"}
    BY <1>3 DEF Cancelled, UrlRefused
  <2>2. /\ over \in ServerStream /\ over.gateway = "none" /\ over.started
        /\ over.for = r.for /\ over.left = r.left /\ over.aborted = r.aborted
        /\ over.child = NoChild /\ over.running = {}
    <3> DEFINE none == "none"
    <3>1. r \in ServerStream /\ none \in {"none", "pending", "cancelling", "streaming"}
      BY <1>0
    <3> HIDE DEF r
    <3>2. LET n == [r EXCEPT !.gateway = none]
          IN /\ n \in ServerStream /\ n.gateway = none /\ n.started = r.started
             /\ n.for = r.for /\ n.left = r.left /\ n.aborted = r.aborted
             /\ n.child = r.child /\ n.running = r.running
      <4> HIDE DEF none
      <4> QED  BY <3>1, GatewayRecord
    <3> QED  BY <1>0, <3>2
  <2> HIDE DEF over
  <2>3. CASE r.for.agent # NoAgent
    <3>1. FallBackToJournal(r) = over
      BY <2>3, <2>2 DEF FallBackToJournal, over
    <3>2. Becomes(r, over)
      BY <1>0, <2>2 DEF Becomes, Sound
    <3> QED  BY <1>0, <2>1, <3>1, <3>2 DEF ServerStep
  <2>4. CASE r.for.agent = NoAgent
    <3>1. FallBackToJournal(r) = Spawned(over, "unit")
      BY <2>4, <2>2 DEF FallBackToJournal, over
    <3>2. "unit" \in Child
      BY DEF Child
    <3> DEFINE n == Spawned(over, "unit")
    <3>3. /\ n \in ServerStream /\ n.child = "unit" /\ n.running = {"unit"}
          /\ n.for = r.for /\ n.left = r.left /\ n.aborted = r.aborted
          /\ n.started /\ n.gateway = "none"
      BY <2>2, <3>2, SpawnedRecord
    <3> HIDE DEF n
    <3>4. Becomes(r, n)
      BY <1>0, <2>1, <2>2, <2>4, <3>3 DEF Becomes, Sound, ChildlessSoFar, Late
    <3> QED  BY <1>0, <2>1, <3>1, <3>4 DEF ServerStep, n
  <2> QED  BY <2>3, <2>4
<1> QED  BY <1>2, <1>3

LEMMA AbortStep ==
    ASSUME LsInv, NEW s \in Stream, Abort(s)
    PROVE  ServerStep(s)
<1> DEFINE r == stream[s]
           told == [r EXCEPT !.aborted = TRUE]
<1>0. /\ Up(s) /\ UNCHANGED widgetVars /\ Sound(r) /\ r \in ServerStream
      /\ r.left /\ ~r.aborted
  BY DEF LsInv, Abort, Sound
<1>1. /\ told \in ServerStream /\ told.aborted /\ told.running = r.running
      /\ told.for = r.for /\ told.left = r.left /\ told.child = r.child
      /\ told.started = r.started /\ told.gateway = r.gateway
  BY <1>0, AbortedRecord
<1>2. Set(s, IF told.started THEN AbortHandler(told) ELSE told)
  BY DEF Abort
<1> HIDE DEF told
<1>3. CASE ~r.started
  <2>1. Becomes(r, told)
    BY <1>0, <1>1, <1>3 DEF Becomes, Sound, ChildlessSoFar
  <2> QED  BY <1>0, <1>1, <1>2, <1>3, <2>1 DEF ServerStep
<1>4. CASE r.started
  <2>1. /\ AbortHandler(told) \in ServerStream /\ AbortHandler(told).running = {}
        /\ AbortHandler(told).for = r.for /\ AbortHandler(told).left = r.left
        /\ AbortHandler(told).started /\ AbortHandler(told).gateway = r.gateway
        /\ AbortHandler(told).child = r.child
    BY <1>0, <1>1, <1>4, KilledRecord DEF AbortHandler, Sound
  <2>2. Becomes(r, AbortHandler(told))
    BY <1>0, <1>1, <2>1 DEF Becomes, Sound, ChildlessSoFar
  <2> QED  BY <1>0, <1>1, <1>2, <1>4, <2>2 DEF ServerStep
<1> QED  BY <1>0, <1>3, <1>4 DEF ServerStream

(* A step of the server keeps the invariant: the browser's stream stays the *)
(* selection's.                                                             *)
LEMMA ServerPreserves ==
    ASSUME LsInv, NEW s \in Stream, ServerStep(s)
    PROVE  LsInv'
<1> USE DEF LsInv, LsTypeOK
<1>1. PICK n : Set(s, n) /\ Becomes(stream[s], n)
  BY DEF ServerStep
<1>2. /\ stream' = [stream EXCEPT ![s] = n] /\ n \in ServerStream /\ Sound(n)
      /\ n.for = stream[s].for /\ n.left = stream[s].left
      /\ UNCHANGED widgetVars /\ Up(s)
  BY <1>1 DEF Set, Becomes, Sound, ServerStep
<1>3. \A q \in Stream : Up(q)' => Up(q) /\ Sound(stream[q])'
  BY <1>2 DEF Up, Sound, ChildlessSoFar
<1>4. n # Idle
  BY <1>2, LogAssumption
<1>5. LsTypeOK'
  BY <1>2 DEF widgetVars
<1>6. WidgetInv'
  <2>1. es' \in Stream => Up(es)' /\ stream'[es'].for = esFor' /\ ~stream'[es'].left
    BY <1>2, <1>4 DEF WidgetInv, Up, widgetVars
  <2> QED  BY <1>2, <2>1 DEF WidgetInv, Settled, Selected, widgetVars
<1> QED  BY <1>3, <1>5, <1>6

(* A stream's name that is free again was not the browser's.                *)
LEMMA FreedPreserves ==
    ASSUME LsInv, NEW s \in Stream, RefuseStream(s) \/ Collected(s)
    PROVE  LsInv'
<1> USE DEF LsInv, LsTypeOK
<1>1. /\ stream' = [stream EXCEPT ![s] = Idle] /\ es' \in {es, GivenUp} /\ es' # s
      /\ UNCHANGED <<source, container, activeAgent, effectFor, esFor, shown>>
  <2>1. CASE RefuseStream(s)
    BY <2>1, LogAssumption DEF RefuseStream, Set
  <2>2. CASE Collected(s)
    <3>1. stream[s].left /\ Up(s)
      BY <2>2 DEF Collected, Serving, Sound
    <3>2. es # s
      BY <3>1 DEF WidgetInv
    <3> QED  BY <2>2, <3>2 DEF Collected, Set, widgetVars
  <2> QED  BY <2>1, <2>2
<1>2. \A q \in Stream : Up(q)' => Up(q) /\ Sound(stream[q])'
  BY <1>1 DEF Up, Sound, ChildlessSoFar
<1>3. LsTypeOK'
  BY <1>1
<1>4. es' \in Stream => Up(es)' /\ stream'[es'].for = esFor' /\ ~stream'[es'].left
  BY <1>1, LogAssumption DEF WidgetInv, Up
<1>5. WidgetInv'
  BY <1>1, <1>4 DEF WidgetInv, Settled, Selected
<1> QED  BY <1>2, <1>3, <1>5

LEMMA NewStreamIsSound ==
    ASSUME NEW sel \in Selection
    PROVE  LET n == NewStream(sel)
           IN Sound(n) /\ n \in ServerStream /\ n.for = sel /\ ~n.left /\ ~n.aborted
<1>1. NewStream(sel) \in ServerStream
  BY Zenon DEF NewStream, ServerStream
<1> QED  BY <1>1 DEF NewStream, Sound, ChildlessSoFar

(* Opening a stream leaves the one before it, if there was one.             *)
LEMMA OpenedSound ==
    ASSUME LsInv, NEW s \in Stream, NEW sel \in Selection, Opened(s, sel)
    PROVE  /\ stream' \in [Stream -> ServerStream \cup {Idle}]
           /\ \A q \in Stream : Up(q)' => Sound(stream[q])'
           /\ es' = s /\ esFor' = sel
           /\ Up(s)' /\ stream'[s].for = sel /\ ~stream'[s].left
           /\ \A q \in Stream : Up(q)' /\ stream'[q].aborted => Up(q) /\ stream[q].aborted
                                  /\ stream'[q].running = stream[q].running
<1> USE DEF LsInv, LsTypeOK
<1> DEFINE new == NewStream(sel)
<1>1. Sound(new) /\ new \in ServerStream /\ new.for = sel /\ ~new.left /\ ~new.aborted
      /\ new # Idle
  BY NewStreamIsSound, LogAssumption
<1>2. stream' = [r \in Stream |->
         IF r = s THEN new
         ELSE IF r = es THEN [stream[r] EXCEPT !.left = TRUE]
         ELSE stream[r]] /\ es' = s /\ esFor' = sel
  BY DEF Opened
<1> HIDE DEF new
<1>3. ASSUME NEW q \in Stream, q # s
      PROVE  /\ stream'[q] \in ServerStream \cup {Idle}
             /\ Up(q)' => Sound(stream'[q]) /\ Up(q) /\ stream'[q].aborted = stream[q].aborted
                          /\ stream'[q].running = stream[q].running
  <2>1. CASE q # es
    BY <1>2, <1>3, <2>1 DEF Up
  <2>2. CASE q = es
    <3> DEFINE left == [stream[q] EXCEPT !.left = TRUE]
    <3>1. Up(q) /\ stream[q] \in ServerStream /\ Sound(stream[q])
      BY <2>2 DEF WidgetInv, Sound
    <3>2. /\ left \in ServerStream /\ left.left /\ left.running = stream[q].running
          /\ left.for = stream[q].for /\ left.aborted = stream[q].aborted
          /\ left.child = stream[q].child /\ left.started = stream[q].started
          /\ left.gateway = stream[q].gateway
      BY <3>1, LeftRecord
    <3>3. stream'[q] = left
      BY <1>2, <1>3, <2>2
    <3> HIDE DEF left
    <3>4. Sound(left)
      BY <3>1, <3>2 DEF Sound, ChildlessSoFar
    <3> QED  BY <3>1, <3>2, <3>3, <3>4
  <2> QED  BY <2>1, <2>2
<1>4. stream'[s] = new
  BY <1>2
<1>5. stream' \in [Stream -> ServerStream \cup {Idle}]
  <2>1. \A q \in Stream : stream'[q] \in ServerStream \cup {Idle}
    BY <1>1, <1>3, <1>4
  <2> QED  BY <1>2, <2>1
<1> QED  BY <1>1, <1>2, <1>3, <1>4, <1>5 DEF Up

(* The widget's steps.                                                      *)
LEMMA WidgetPreserves ==
    ASSUME LsInv,
           \/ \E s \in Stream : RunEffect(s) \/ Message(s) \/ ConnectionBreaks(s) \/ Reconnect(s)
           \/ \E s \in Stream, c \in Container \cup {NoContainer} : ChooseContainer(s, c)
           \/ \E src \in LogSource : ChooseSource(src)
           \/ \E a \in Agent \cup {NoAgent} : SelectAgent(a)
    PROVE  LsInv'
<1> USE DEF LsInv, LsTypeOK
<1>0. Selected \in Selection /\ Selected # Idle /\ Idle \notin Selection
  <2>1. "openclaw" \in LogSource
    BY DEF LogSource
  <2> QED  BY <2>1, LogAssumption DEF Selected, Selection
<1>1. ASSUME NEW s \in Stream, RunEffect(s) PROVE LsInv'
  <2>1. /\ Opened(s, Selected) /\ shown' = {} /\ effectFor' = Selected
        /\ UNCHANGED <<source, container, activeAgent>>
    BY <1>1 DEF RunEffect, Connect
  <2>2. /\ stream' \in [Stream -> ServerStream \cup {Idle}]
        /\ \A q \in Stream : Up(q)' => Sound(stream[q])'
        /\ es' = s /\ esFor' = Selected
        /\ Up(s)' /\ stream'[s].for = Selected /\ ~stream'[s].left
    BY <1>0, <2>1, OpenedSound
  <2>3. Selected' = Selected
    BY <2>1 DEF Selected
  <2>4. WidgetInv'
    BY <2>1, <2>2, <2>3 DEF WidgetInv
  <2> QED  BY <1>0, <2>1, <2>2, <2>4
<1>2. ASSUME NEW s \in Stream, Message(s) PROVE LsInv'
  <2>1. /\ stream[s].for = esFor /\ Up(s) /\ shown' = shown \cup {stream[s].for}
        /\ UNCHANGED <<stream, source, container, activeAgent, effectFor, es, esFor>>
    BY <1>2 DEF Message, WidgetInv
  <2>2. stream[s].for \in Selection
    BY <2>1 DEF Sound, ServerStream
  <2>3. \A q \in Stream : Up(q)' => Sound(stream[q])'
    BY <2>1 DEF Up, Sound, ChildlessSoFar
  <2>4. WidgetInv'
    BY <1>0, <2>1, <2>2 DEF WidgetInv, Up, Settled, Selected
  <2> QED  BY <2>1, <2>2, <2>3, <2>4
<1>3. ASSUME NEW s \in Stream, ConnectionBreaks(s) PROVE LsInv'
  <2> DEFINE left == [stream[s] EXCEPT !.left = TRUE]
  <2>1. /\ stream' = [stream EXCEPT ![s] = left] /\ es' = NoStream /\ es = s
        /\ UNCHANGED <<source, container, activeAgent, effectFor, esFor, shown>>
    BY <1>3 DEF ConnectionBreaks, Set
  <2>2. Up(s) /\ stream[s] \in ServerStream /\ Sound(stream[s])
    BY <2>1 DEF WidgetInv, Sound
  <2>3. /\ left \in ServerStream /\ left.left /\ left.running = stream[s].running
        /\ left.for = stream[s].for /\ left.aborted = stream[s].aborted
        /\ left.child = stream[s].child /\ left.started = stream[s].started
        /\ left.gateway = stream[s].gateway
    BY <2>2, LeftRecord
  <2> HIDE DEF left
  <2>4. Sound(left)
    BY <2>2, <2>3 DEF Sound, ChildlessSoFar
  <2>5. \A q \in Stream : Up(q)' => Sound(stream'[q])
    BY <2>1, <2>4 DEF Up
  <2>6. WidgetInv'
    BY <2>1, LogAssumption DEF WidgetInv, Settled, Selected
  <2> QED  BY <2>1, <2>3, <2>5, <2>6
<1>4. ASSUME NEW s \in Stream, Reconnect(s) PROVE LsInv'
  <2>1. /\ Opened(s, esFor) /\ esFor \in Selection
        /\ UNCHANGED <<source, container, activeAgent, effectFor, shown>>
    BY <1>4 DEF Reconnect
  <2>2. /\ stream' \in [Stream -> ServerStream \cup {Idle}]
        /\ \A q \in Stream : Up(q)' => Sound(stream[q])'
        /\ es' = s /\ esFor' = esFor
        /\ Up(s)' /\ stream'[s].for = esFor /\ ~stream'[s].left
    BY <2>1, OpenedSound
  <2>3. WidgetInv'
    BY <2>1, <2>2 DEF WidgetInv, Settled, Selected
  <2> QED  BY <2>1, <2>2, <2>3
<1>5. ASSUME NEW s \in Stream, NEW c \in Container \cup {NoContainer}, ChooseContainer(s, c)
      PROVE  LsInv'
  <2> DEFINE sel == [Selected EXCEPT !.container = c]
  <2>1. /\ Opened(s, sel) /\ shown' = {} /\ container' = c /\ c # container /\ Settled
        /\ UNCHANGED <<source, activeAgent, effectFor>>
    BY <1>5 DEF ChooseContainer, Connect
  <2>2. sel \in Selection
    BY <1>0 DEF Selection
  <2> HIDE DEF sel
  <2>3. /\ stream' \in [Stream -> ServerStream \cup {Idle}]
        /\ \A q \in Stream : Up(q)' => Sound(stream[q])'
        /\ es' = s /\ esFor' = sel
        /\ Up(s)' /\ stream'[s].for = sel /\ ~stream'[s].left
    BY <2>1, <2>2, OpenedSound
  <2>4. ~Settled'
    <3>1. Selected.container = container /\ Selected'.container = c /\ effectFor' = Selected
      BY <2>1 DEF Settled, Selected
    <3> QED  BY <2>1, <3>1 DEF Settled
  <2>5. WidgetInv'
    BY <2>1, <2>3, <2>4 DEF WidgetInv
  <2> QED  BY <2>1, <2>2, <2>3, <2>5
<1>6. ASSUME (\E src \in LogSource : ChooseSource(src))
               \/ \E a \in Agent \cup {NoAgent} : SelectAgent(a)
      PROVE  LsInv'
  <2>1. /\ UNCHANGED <<stream, container, effectFor, es, esFor, shown>> /\ Settled
        /\ source' \in LogSource /\ activeAgent' \in Agent \cup {NoAgent}
    BY <1>6 DEF ChooseSource, SelectAgent
  <2>2. Settled' => Selected' = Selected
    BY <2>1 DEF Settled
  <2>3. \A q \in Stream : Up(q)' => Sound(stream[q])'
    BY <2>1 DEF Up, Sound, ChildlessSoFar
  <2>4. WidgetInv'
    BY <2>1, <2>2 DEF WidgetInv, Up
  <2> QED  BY <2>1, <2>3, <2>4
<1> QED  BY <1>1, <1>2, <1>3, <1>4, <1>5, <1>6

LEMMA LsInitHolds == LsInit => LsInv
<1> SUFFICES ASSUME LsInit PROVE LsInv
  OBVIOUS
<1>1. LsTypeOK
  BY DEF LsInit, LsTypeOK, LogSource
<1>2. WidgetInv /\ \A s \in Stream : ~Up(s)
  BY LogAssumption DEF LsInit, WidgetInv, Up
<1> QED  BY <1>1, <1>2 DEF LsInv

(* The steps of the server, by what they do.                                *)
LEMMA StepKinds ==
    ASSUME LsInv, LsNext
    PROVE  \/ \E s \in Stream : ServerStep(s)
           \/ \E s \in Stream : RefuseStream(s) \/ Collected(s)
           \/ \E s \in Stream : RunEffect(s) \/ Message(s) \/ ConnectionBreaks(s) \/ Reconnect(s)
           \/ \E s \in Stream, c \in Container \cup {NoContainer} : ChooseContainer(s, c)
           \/ \E src \in LogSource : ChooseSource(src)
           \/ \E a \in Agent \cup {NoAgent} : SelectAgent(a)
BY StartStep, ChildStep, GatewayStep, AbortStep DEF LsNext

LEMMA LsStepPreserves == LsInv /\ [LsNext]_lsVars => LsInv'
<1> SUFFICES ASSUME LsInv, [LsNext]_lsVars PROVE LsInv'
  OBVIOUS
<1>1. CASE UNCHANGED lsVars
  <2>1. \A q \in Stream : Up(q)' => Sound(stream[q])'
    BY <1>1 DEF lsVars, LsInv, Up, Sound, ChildlessSoFar
  <2>2. WidgetInv'
    BY <1>1 DEF lsVars, LsInv, WidgetInv, Up, Settled, Selected
  <2> QED  BY <1>1, <2>1, <2>2 DEF lsVars, LsInv, LsTypeOK
<1>2. CASE LsNext
  BY <1>2, StepKinds, ServerPreserves, FreedPreserves, WidgetPreserves
<1> QED  BY <1>1, <1>2

LEMMA StreamInvariant == LsSpec => []LsInv
<1> QED  BY LsInitHolds, LsStepPreserves, PTL DEF LsSpec

(* Every stream and the widget are of their types.                          *)
THEOREM LogTypes == LsSpec => []LsTypeOK
<1>1. LsInv => LsTypeOK
  BY DEF LsInv
<1> QED  BY StreamInvariant, <1>1, PTL

(* The child that the abort handler would signal is the only one that may   *)
(* run: no fallback leaves another behind.                                  *)
THEOREM KnownChild == LsSpec => []RunningChildIsKnown
<1>1. LsInv => RunningChildIsKnown
  BY DEF LsInv, RunningChildIsKnown, Sound
<1> QED  BY StreamInvariant, <1>1, PTL

(* No process is started for an agent, and the lines on the screen are the  *)
(* selection's, through switches, double connects and reconnects.           *)
THEOREM ScreenLines == LsSpec => []LinesAreOfTheSelection
<1>1. LsInv => LinesAreOfTheSelection
  BY DEF LsInv, LinesAreOfTheSelection, WidgetInv, Sound, ChildlessSoFar
<1> QED  BY StreamInvariant, <1>1, PTL

(* A process outlives its stream in one of three ways and in no other: each *)
(* is a start after the abort; the abort itself leaves none.                *)
LEMMA OrphanStep == LsInv /\ [LsNext]_lsVars => OrphanOriginStep
<1> SUFFICES ASSUME LsInv, [LsNext]_lsVars, NEW q \in Stream, Orphan(q)', ~Orphan(q)
             PROVE  SpawnedLate(q)
  BY DEF OrphanOriginStep
<1>1. ASSUME UNCHANGED stream PROVE FALSE
  BY <1>1 DEF Orphan, Up
<1>2. ASSUME NEW s \in Stream, ServerStep(s) PROVE SpawnedLate(q)
  <2>1. PICK n : stream' = [stream EXCEPT ![s] = n] /\ Becomes(stream[s], n)
    BY <1>2 DEF ServerStep, Set
  <2>2. Up(s)
    BY <1>2 DEF ServerStep
  <2>3. q = s /\ stream'[q] = n
    BY <2>1 DEF Orphan, Up, LsInv, LsTypeOK
  <2>4. stream[q].aborted /\ Late(stream[q], n)
    BY <2>1, <2>2, <2>3 DEF Becomes, Orphan, Up
  <2> QED  BY <2>3, <2>4 DEF Late, SpawnedLate
<1>3. ASSUME NEW s \in Stream, RefuseStream(s) \/ Collected(s) PROVE FALSE
  BY <1>3 DEF RefuseStream, Collected, Set, Orphan, Up, LsInv, LsTypeOK
<1>4. ASSUME NEW s \in Stream, NEW sel \in Selection, Opened(s, sel) PROVE FALSE
  BY <1>4, OpenedSound DEF Orphan
<1>5. ASSUME NEW s \in Stream, ConnectionBreaks(s) PROVE FALSE
  <2>1. stream' = [stream EXCEPT ![s] = [stream[s] EXCEPT !.left = TRUE]] /\ Up(s)
    BY <1>5 DEF ConnectionBreaks, Set, LsInv, WidgetInv
  <2>2. stream[s] \in ServerStream
    BY <2>1 DEF LsInv, Sound
  <2>3. /\ stream'[s].aborted = stream[s].aborted /\ stream'[s].running = stream[s].running
        /\ \A r \in Stream : r # s => stream'[r] = stream[r]
    BY <2>1, <2>2, LeftRecord DEF LsInv, LsTypeOK
  <2> QED  BY <2>1, <2>3 DEF Orphan, Up
<1>6. \A sel : sel = Selected => sel \in Selection
  BY DEF LsInv, LsTypeOK, Selected, Selection, LogSource
<1>7. ASSUME NEW s \in Stream, RunEffect(s) \/ Reconnect(s) PROVE FALSE
  BY <1>4, <1>6, <1>7 DEF RunEffect, Connect, Reconnect, LsInv, LsTypeOK
<1>8. ASSUME NEW s \in Stream, NEW c \in Container \cup {NoContainer}, ChooseContainer(s, c)
      PROVE  FALSE
  <2>1. [Selected EXCEPT !.container = c] \in Selection
    BY <1>6 DEF Selection
  <2> QED  BY <1>4, <1>8, <2>1 DEF ChooseContainer, Connect
<1> QED
  BY <1>1, <1>2, <1>3, <1>5, <1>7, <1>8, StepKinds
     DEF lsVars, Message, ChooseSource, SelectAgent

(* The same of every step of every behaviour.                               *)
THEOREM OrphanOrigins == LsSpec => OrphansHaveThreeOrigins
<1> QED  BY StreamInvariant, OrphanStep, PTL DEF LsSpec, OrphansHaveThreeOrigins

-----------------------------------------------------------------------------
(* The windows of the metrics stream.                                       *)

(* Idle time and busy time only grow.                                       *)
Grows(from, to) ==
    /\ from.idle <= to.idle
    /\ to.idle - from.idle <= to.total - from.total

CountersGrow == \A m, n \in 0 .. Now : m <= n => Grows(Counters(m), Counters(n))

(* A sample is of a moment of the past, and the baseline is what the        *)
(* counters were at the connection's last one.                              *)
BaselineOf(f) ==
    /\ feed[f] \in OpenFeed
    /\ feed[f].taken[1] \in 0 .. Now /\ feed[f].taken[2] \in 0 .. Now
    /\ feed[f].base = Counters(feed[f].taken[2])

MsInv ==
    /\ MsTypeOK
    /\ CountersGrow
    /\ \A f \in Feed : FeedIsOpen(f) => BaselineOf(f)

LEMMA CountersAreCounters ==
    ASSUME MsTypeOK, NEW n \in 0 .. Now
    PROVE  Counters(n) \in Counter
<1>1. CASE n = 0
  BY <1>1 DEF Counters, Counter
<1>2. CASE n # 0
  <2>1. n \in 1 .. Len(proc) /\ proc \in Seq(Counter)
    BY <1>2 DEF MsTypeOK, Now
  <2>2. proc[n] \in Counter
    BY <2>1, ElementOfSeq
  <2> QED  BY <1>2, <2>2 DEF Counters
<1> QED  BY <1>1, <1>2

LEMMA NowIsLast ==
    ASSUME MsTypeOK
    PROVE  Now \in Nat \ {0} /\ Now \in 0 .. Now /\ Counters(Now) = proc[Now]
BY DEF MsTypeOK, Now, Counters

LEMMA QuotientIsNat ==
    ASSUME NEW m \in Nat, NEW d \in Nat \ {0}
    PROVE  m \div d \in Nat
OBVIOUS

LEMMA ShareIsPercent ==
    ASSUME NEW from \in Counter, NEW to \in Counter, Grows(from, to)
    PROVE  BusyShare(from, to) \in 0 .. 100
<1> DEFINE total == to.total - from.total
           busy == total - (to.idle - from.idle)
<1>1. to.total \in Nat /\ from.total \in Nat /\ to.idle \in Nat /\ from.idle \in Nat
  BY DEF Counter
<1>2. CASE to.total > from.total
  <2>1. total \in Nat \ {0} /\ busy \in Nat
    BY <1>1, <1>2 DEF Grows
  <2> HIDE DEF total, busy
  <2>2. 200 * busy + total \in Nat /\ 2 * total \in Nat \ {0}
    BY <2>1
  <2>3. (200 * busy + total) \div (2 * total) \in Nat
    BY <2>2, QuotientIsNat
  <2>4. Clamp((200 * busy + total) \div (2 * total)) \in 0 .. 100
    BY <2>3 DEF Clamp
  <2> QED  BY <1>2, <2>4 DEF BusyShare, total, busy
<1>3. CASE ~(to.total > from.total)
  BY <1>3 DEF BusyShare
<1> QED  BY <1>2, <1>3

(* What the sampling of a connection makes of it.                           *)
LEMMA SampleRecord ==
    ASSUME MsInv, NEW f \in Feed, FeedIsOpen(f)
    PROVE  LET n == SampleTaken(f, ReadCpuPercent(feed[f].base))
           IN /\ n \in OpenFeed
              /\ n.warm = feed[f].warm /\ n.ticking = feed[f].ticking
              /\ n.closed = feed[f].closed
              /\ n.taken[1] \in 0 .. Now /\ n.taken[2] \in 0 .. Now
              /\ n.base = Counters(n.taken[2])
              /\ \/ n.taken = feed[f].taken
                 \/ n.percent = BusyShare(Counters(n.taken[1]), Counters(n.taken[2]))
<1> DEFINE old == feed[f]
           r == ReadCpuPercent(old.base)
           n == SampleTaken(f, r)
<1>1. /\ MsTypeOK /\ old \in OpenFeed
      /\ old.taken[1] \in 0 .. Now /\ old.taken[2] \in 0 .. Now
      /\ old.base = Counters(old.taken[2])
  BY DEF MsInv, BaselineOf
<1>2. Now \in Nat \ {0} /\ Now \in 0 .. Now /\ Counters(Now) = proc[Now]
  BY <1>1, NowIsLast
<1>3. /\ old.base \in Counter /\ Counters(Now) \in Counter
      /\ Grows(old.base, Counters(Now))
  BY <1>1, <1>2, CountersAreCounters DEF MsInv, CountersGrow
<1>4. /\ r.base \in Counter /\ r.percent \in 0 .. 100
      /\ IF procReadable
         THEN r.base = Counters(Now) /\ r.percent = BusyShare(old.base, Counters(Now))
         ELSE r.base = old.base
  <2>1. CASE procReadable
    BY <1>2, <1>3, <2>1, ShareIsPercent DEF ReadCpuPercent
  <2>2. CASE ~procReadable
    BY <1>3, <2>2 DEF ReadCpuPercent
  <2> QED  BY <2>1, <2>2
<1> HIDE DEF old, r
<1> DEFINE taken == IF procReadable THEN <<old.taken[2], Now>> ELSE old.taken
<1>5. old.taken \in Nat \X Nat
  BY <1>1 DEF OpenFeed
<1>6. taken \in Nat \X Nat
  BY <1>2, <1>5
<1>7. n = [old EXCEPT !.base = r.base, !.percent = r.percent, !.taken = taken]
  BY Zenon DEF SampleTaken, old
<1> HIDE DEF n, taken
<1>8. /\ n \in OpenFeed
      /\ n.warm = old.warm /\ n.ticking = old.ticking /\ n.closed = old.closed
      /\ n.base = r.base /\ n.percent = r.percent /\ n.taken = taken
  <2>1. n \in OpenFeed
    BY <1>1, <1>4, <1>6, <1>7, Zenon DEF OpenFeed
  <2> QED  BY <1>1, <1>7, <2>1 DEF OpenFeed
<1>9. CASE procReadable
  <2>1. n.taken[1] = old.taken[2] /\ n.taken[2] = Now
    BY <1>8, <1>9 DEF taken
  <2> QED  BY <1>1, <1>2, <1>4, <1>8, <1>9, <2>1 DEF n, r, old
<1>10. CASE ~procReadable
  <2>1. n.taken = old.taken
    BY <1>8, <1>10 DEF taken
  <2> QED  BY <1>1, <1>4, <1>8, <1>10, <2>1 DEF n, r, old
<1> QED  BY <1>9, <1>10

(* The connections change, and the counters do not.                         *)
LEMMA FeedsChange ==
    ASSUME MsInv, UNCHANGED <<proc, procReadable, monitored, reading>>,
           feedOpen' \in Feed \cup {NoFeed}, NEW f \in Feed, NEW r \in OpenFeed \cup {NoFeed},
           feed' = [feed EXCEPT ![f] = r],
           r # NoFeed => /\ r.taken[1] \in 0 .. Now /\ r.taken[2] \in 0 .. Now
                         /\ r.base = Counters(r.taken[2])
    PROVE  MsInv'
<1>1. MsTypeOK'
  BY DEF MsInv, MsTypeOK
<1>2. Now' = Now /\ \A n : Counters(n)' = Counters(n)
  BY DEF Now, Counters
<1>3. CountersGrow'
  BY <1>2 DEF MsInv, CountersGrow
<1>4. \A g \in Feed : feed'[g] = IF g = f THEN r ELSE feed[g]
  BY DEF MsInv, MsTypeOK
<1>5. ASSUME NEW g \in Feed, FeedIsOpen(g)'
      PROVE  BaselineOf(g)'
  <2>1. CASE g = f
    BY <1>2, <1>4, <1>5, <2>1 DEF FeedIsOpen, BaselineOf
  <2>2. CASE g # f
    BY <1>2, <1>4, <1>5, <2>2 DEF FeedIsOpen, BaselineOf, MsInv
  <2> QED  BY <2>1, <2>2
<1> QED  BY <1>1, <1>3, <1>5 DEF MsInv

LEMMA FeedsStay ==
    ASSUME MsInv, UNCHANGED <<proc, feed>>, procReadable' \in BOOLEAN,
           monitored' \in Monitored \cup {Local}, feedOpen' \in Feed \cup {NoFeed},
           reading' \in Monitored \cup {Local, NoReading}
    PROVE  MsInv'
<1>1. MsTypeOK'
  BY DEF MsInv, MsTypeOK
<1>2. Now' = Now /\ \A n : Counters(n)' = Counters(n)
  BY DEF Now, Counters
<1>3. CountersGrow'
  BY <1>2 DEF MsInv, CountersGrow
<1>4. \A f \in Feed : FeedIsOpen(f)' => BaselineOf(f)'
  BY <1>2 DEF MsInv, FeedIsOpen, BaselineOf
<1> QED  BY <1>1, <1>3, <1>4 DEF MsInv

LEMMA TimePreserves ==
    ASSUME MsInv, NEW idle \in 0 .. 1, NEW busy \in 0 .. 1, TimeGoesOn(idle, busy)
    PROVE  MsInv'
<1> DEFINE new == [idle |-> proc[Now].idle + idle, total |-> proc[Now].total + idle + busy]
<1>1. /\ MsTypeOK /\ proc' = Append(proc, new) /\ Now < MaxSamples
      /\ UNCHANGED <<procReadable, feed, monitored, feedOpen, reading>>
  BY DEF MsInv, TimeGoesOn, metricsWidgetVars
<1>2. Now \in Nat \ {0} /\ Now \in 0 .. Now /\ Counters(Now) = proc[Now] /\ Now = Len(proc)
  BY <1>1, NowIsLast DEF Now
<1>3. Counters(Now) \in Counter
  BY <1>1, <1>2, CountersAreCounters
<1>4. new \in Counter /\ Grows(Counters(Now), new)
  <2>1. Counters(Now).idle \in Nat /\ Counters(Now).total \in Nat
    BY <1>3 DEF Counter
  <2>2. /\ new.idle = Counters(Now).idle + idle
        /\ new.total = Counters(Now).total + idle + busy
    BY <1>2
  <2>3. new \in Counter
    BY <1>2, <2>1 DEF Counter
  <2> HIDE DEF new
  <2> QED  BY <2>1, <2>2, <2>3 DEF Grows
<1> HIDE DEF new
<1>5. /\ proc' \in Seq(Counter) /\ Now' = Now + 1
      /\ \A n \in 1 .. Now : proc'[n] = proc[n]
      /\ proc'[Now + 1] = new
  <2>1. proc \in Seq(Counter)
    BY <1>1 DEF MsTypeOK
  <2>2. /\ Append(proc, new) \in Seq(Counter) /\ Len(Append(proc, new)) = Len(proc) + 1
        /\ \A n \in 1 .. Len(proc) : Append(proc, new)[n] = proc[n]
        /\ Append(proc, new)[Len(proc) + 1] = new
    BY <1>4, <2>1, AppendProperties
  <2> QED  BY <1>1, <1>2, <2>2 DEF Now
<1>6. MsTypeOK'
  BY <1>1, <1>2, <1>5, MetricsAssumption DEF MsTypeOK, Now
<1>7. /\ \A n \in 0 .. Now : Counters(n)' = Counters(n)
      /\ \A n : n = Now + 1 => Counters(n)' = new
  BY <1>2, <1>5 DEF Counters
<1>8. CountersGrow'
  <2> SUFFICES ASSUME NEW m \in 0 .. Now + 1, NEW n \in 0 .. Now + 1, m <= n
               PROVE  Grows(Counters(m)', Counters(n)')
    BY <1>5 DEF CountersGrow, Grows
  <2>1. CASE n \in 0 .. Now
    <3>1. m \in 0 .. Now
      BY <1>2, <2>1
    <3> QED  BY <1>7, <2>1, <3>1 DEF MsInv, CountersGrow
  <2>2. CASE n = Now + 1 /\ m \in 0 .. Now
    <3>1. Grows(Counters(m), Counters(Now)) /\ Counters(m) \in Counter
      BY <1>1, <1>2, <2>2, CountersAreCounters DEF MsInv, CountersGrow
    <3>2. Grows(Counters(m), new)
      BY <1>3, <1>4, <3>1 DEF Grows, Counter
    <3> QED  BY <1>7, <2>2, <3>2
  <2>3. CASE n = Now + 1 /\ m = Now + 1
    <3>1. Grows(new, new)
      BY <1>4 DEF Grows, Counter
    <3> QED  BY <1>7, <2>3, <3>1
  <2> QED  BY <1>2, <2>1, <2>2, <2>3
<1>9. \A f \in Feed : FeedIsOpen(f)' => BaselineOf(f)'
  <2> SUFFICES ASSUME NEW f \in Feed, FeedIsOpen(f)
               PROVE  BaselineOf(f)'
    BY <1>1 DEF FeedIsOpen
  <2>1. BaselineOf(f)
    BY DEF MsInv
  <2>2. feed[f].taken[1] \in 0 .. Now + 1 /\ feed[f].taken[2] \in 0 .. Now + 1
    BY <1>2, <2>1 DEF BaselineOf
  <2> QED  BY <1>1, <1>5, <1>7, <2>1, <2>2 DEF BaselineOf
<1> QED  BY <1>6, <1>8, <1>9 DEF MsInv

(* The steps of a connection, by what becomes of its record.                *)
LEMMA SampleSteps ==
    ASSUME MsInv, NEW f \in Feed, FeedTicks(f) \/ FeedWarms(f)
    PROVE  \E r \in OpenFeed :
             /\ FeedIsOpen(f) /\ feed' = [feed EXCEPT ![f] = r]
             /\ UNCHANGED <<proc, procReadable, monitored, feedOpen, reading>>
             /\ r.taken[1] \in 0 .. Now /\ r.taken[2] \in 0 .. Now
             /\ r.base = Counters(r.taken[2])
             /\ \/ r.taken = feed[f].taken
                \/ r.percent = BusyShare(Counters(r.taken[1]), Counters(r.taken[2]))
<1> DEFINE n == SampleTaken(f, ReadCpuPercent(feed[f].base))
<1>1. /\ FeedIsOpen(f) /\ feed \in [Feed -> OpenFeed \cup {NoFeed}]
      /\ UNCHANGED <<proc, procReadable, monitored, feedOpen, reading>>
  BY DEF MsInv, MsTypeOK, FeedTicks, FeedWarms, metricsWidgetVars
<1>2. /\ n \in OpenFeed /\ n.taken[1] \in 0 .. Now /\ n.taken[2] \in 0 .. Now
      /\ n.base = Counters(n.taken[2])
      /\ \/ n.taken = feed[f].taken
         \/ n.percent = BusyShare(Counters(n.taken[1]), Counters(n.taken[2]))
  BY <1>1, SampleRecord
<1>3. CASE FeedTicks(f)
  <2>1. feed' = [feed EXCEPT ![f] = n]
    BY <1>3 DEF FeedTicks, Sampled
  <2> QED  BY <1>1, <1>2, <2>1
<1>4. CASE FeedWarms(f)
  <2> DEFINE r == [n EXCEPT !.warm = FALSE, !.ticking = @ /\ ~feed[f].closed]
  <2>1. feed' = [feed EXCEPT ![f] = r]
    <3>1. feed' = [[feed EXCEPT ![f] = n] EXCEPT ![f].warm = FALSE,
                                                 ![f].ticking = @ /\ ~feed[f].closed]
      BY <1>4 DEF FeedWarms, Sampled
    <3> HIDE DEF n
    <3> QED  BY <1>1, <3>1
  <2> HIDE DEF n
  <2>2. r \in OpenFeed
    BY <1>2, Zenon DEF OpenFeed
  <2>3. r.taken = n.taken /\ r.base = n.base /\ r.percent = n.percent
    BY <1>2 DEF OpenFeed
  <2> HIDE DEF r
  <2> QED  BY <1>1, <1>2, <2>1, <2>2, <2>3
<1> QED  BY <1>3, <1>4

LEMMA AbortPreserves ==
    ASSUME MsInv, NEW f \in Feed, FeedAborts(f)
    PROVE  MsInv'
<1> DEFINE r == [feed[f] EXCEPT !.ticking = FALSE, !.closed = TRUE]
<1>1. /\ FeedIsOpen(f) /\ BaselineOf(f) /\ feed[f] \in OpenFeed
      /\ UNCHANGED <<proc, procReadable, monitored, feedOpen, reading>>
      /\ feedOpen' \in Feed \cup {NoFeed}
  BY DEF FeedAborts, MsInv, MsTypeOK, BaselineOf, metricsWidgetVars
<1>2. feed' = [feed EXCEPT ![f] = r]
  BY DEF FeedAborts
<1>3. r \in OpenFeed
  BY <1>1, Zenon DEF OpenFeed
<1>4. r.taken = feed[f].taken /\ r.base = feed[f].base
  BY <1>1 DEF OpenFeed
<1> HIDE DEF r
<1> QED  BY <1>1, <1>2, <1>3, <1>4, FeedsChange DEF BaselineOf

LEMMA WatchPreserves ==
    ASSUME MsInv, NEW f \in Feed, WatchHost(f)
    PROVE  MsInv'
<1> DEFINE zero == [idle |-> 0, total |-> 0]
           r == [base |-> IF procReadable THEN proc[Now] ELSE zero, warm |-> TRUE,
                 ticking |-> TRUE, closed |-> FALSE, percent |-> 0,
                 taken |-> IF procReadable THEN <<0, Now>> ELSE <<0, 0>>]
<1>1. /\ MsTypeOK /\ feedOpen' = f
      /\ UNCHANGED <<proc, procReadable, monitored, reading>>
      /\ feed' = [feed EXCEPT ![f] = r]
  BY DEF WatchHost, OpenFeedAt, MsInv
<1>2. /\ Now \in Nat \ {0} /\ Now \in 0 .. Now /\ Counters(Now) = proc[Now]
      /\ Counters(Now) \in Counter /\ 0 \in 0 .. Now /\ Counters(0) = zero /\ zero \in Counter
  <2>1. Now \in Nat \ {0} /\ Now \in 0 .. Now /\ Counters(Now) = proc[Now]
    BY <1>1, NowIsLast
  <2>2. Counters(Now) \in Counter
    BY <1>1, <2>1, CountersAreCounters
  <2> QED  BY <2>1, <2>2 DEF Counters, Counter
<1> HIDE DEF zero
<1>3. /\ r.base = IF procReadable THEN proc[Now] ELSE zero
      /\ r.taken = IF procReadable THEN <<0, Now>> ELSE <<0, 0>>
  OBVIOUS
<1>4. /\ r.taken[1] \in 0 .. Now /\ r.taken[2] \in 0 .. Now
      /\ r.base = Counters(r.taken[2])
  <2>1. CASE procReadable
    <3>1. r.taken[1] = 0 /\ r.taken[2] = Now
      BY <1>3, <2>1
    <3> QED  BY <1>2, <1>3, <2>1, <3>1
  <2>2. CASE ~procReadable
    <3>1. r.taken[1] = 0 /\ r.taken[2] = 0
      BY <1>3, <2>2
    <3> QED  BY <1>2, <1>3, <2>2, <3>1
  <2> QED  BY <2>1, <2>2
<1>5. r \in OpenFeed
  <2>1. (IF procReadable THEN proc[Now] ELSE zero) \in Counter
    BY <1>2
  <2>2. (IF procReadable THEN <<0, Now>> ELSE <<0, 0>>) \in Nat \X Nat
    BY <1>2
  <2>3. 0 \in 0 .. 100
    OBVIOUS
  <2> QED  BY <2>1, <2>2, <2>3, Zenon DEF OpenFeed
<1> HIDE DEF r
<1> QED  BY <1>1, <1>4, <1>5, FeedsChange

LEMMA MsStepPreserves == MsInv /\ [MsNext]_msVars => MsInv'
<1> SUFFICES ASSUME MsInv, [MsNext]_msVars PROVE MsInv'
  OBVIOUS
<1>1. /\ procReadable \in BOOLEAN /\ monitored \in Monitored \cup {Local}
      /\ feedOpen \in Feed \cup {NoFeed} /\ reading \in Monitored \cup {Local, NoReading}
  BY DEF MsInv, MsTypeOK
<1>2. CASE \E f \in Feed : FeedTicks(f) \/ FeedWarms(f)
  BY <1>1, <1>2, SampleSteps, FeedsChange
<1>3. CASE \E f \in Feed : FeedAborts(f)
  BY <1>3, AbortPreserves
<1>4. CASE \E f \in Feed : FeedIsGone(f)
  BY <1>1, <1>4, FeedsChange DEF FeedIsGone, metricsWidgetVars
<1>5. CASE \E f \in Feed : WatchHost(f)
  BY <1>5, WatchPreserves
<1>6. CASE \E idle, busy \in 0 .. 1 : TimeGoesOn(idle, busy)
  BY <1>6, TimePreserves
<1>7. CASE ProcChanges
  BY <1>1, <1>7, FeedsStay DEF ProcChanges, metricsWidgetVars
<1>8. CASE \E a \in Monitored \cup {Local} : Monitor(a)
  BY <1>1, <1>8, FeedsStay DEF Monitor
<1>9. CASE FeedMessage
  BY <1>1, <1>9, FeedsStay DEF FeedMessage
<1>10. CASE \E a \in Monitored : SnapshotArrives(a)
  BY <1>1, <1>10, FeedsStay DEF SnapshotArrives
<1>11. CASE UNCHANGED msVars
  BY <1>1, <1>11, FeedsStay DEF msVars
<1> QED  BY <1>2, <1>3, <1>4, <1>5, <1>6, <1>7, <1>8, <1>9, <1>10, <1>11 DEF MsNext

LEMMA MsInvariant == MsSpec => []MsInv
<1>1. MsInit => MsInv
  <2> SUFFICES ASSUME MsInit PROVE MsInv
    OBVIOUS
  <2> DEFINE first == [idle |-> 1, total |-> 2]
  <2>1. first \in Counter
    BY DEF Counter
  <2>2. proc = <<first>>
    BY DEF MsInit
  <2> HIDE DEF first
  <2>3. proc \in Seq(Counter) /\ Len(proc) = 1 /\ proc[1] = first
    BY <2>1, <2>2
  <2>4. MsTypeOK
    BY <2>3, MetricsAssumption DEF MsInit, MsTypeOK
  <2>5. CountersGrow
    <3> SUFFICES ASSUME NEW m \in 0 .. 1, NEW n \in 0 .. 1, m <= n
                 PROVE  Grows(Counters(m), Counters(n))
      BY <2>3 DEF CountersGrow, Now
    <3>1. Counters(0).idle = 0 /\ Counters(0).total = 0
      BY DEF Counters
    <3>2. Counters(1).idle = 1 /\ Counters(1).total = 2
      BY <2>3 DEF Counters, first
    <3>3. (m = 0 /\ n = 0) \/ (m = 0 /\ n = 1) \/ (m = 1 /\ n = 1)
      OBVIOUS
    <3> QED  BY <3>1, <3>2, <3>3 DEF Grows
  <2>6. \A f \in Feed : ~FeedIsOpen(f)
    BY DEF MsInit, FeedIsOpen
  <2> QED  BY <2>4, <2>5, <2>6 DEF MsInv
<1> QED  BY <1>1, MsStepPreserves, PTL DEF MsSpec

(* The stream's and the widget's state is of its type; what a connection    *)
(* reports is a percentage, since idle and busy time only grow (stream/     *)
(* metrics/route.ts).                                                       *)
THEOREM MetricsTypes == MsSpec => []MsTypeOK
<1>1. MsInv => MsTypeOK
  BY DEF MsInv
<1> QED  BY MsInvariant, <1>1, PTL

(* Every sample of a connection is of the window since its own last one,    *)
(* whatever the other connections sample meanwhile (stream/metrics/         *)
(* route.ts).                                                               *)
THEOREM MetricsWindows == MsSpec => EveryFeedHasItsWindow
<1>1. MsInv /\ [MsNext]_msVars => OwnWindowStep
  <2> SUFFICES ASSUME MsInv, [MsNext]_msVars, NEW f \in Feed,
                      FeedIsOpen(f), FeedIsOpen(f)', feed'[f].taken # feed[f].taken
               PROVE  feed'[f].percent =
                        BusyShare(Counters(feed'[f].taken[1]), Counters(feed'[f].taken[2]))
    BY DEF OwnWindowStep
  <2>1. feed \in [Feed -> OpenFeed \cup {NoFeed}] /\ feed[f] \in OpenFeed
    BY DEF MsInv, MsTypeOK, FeedIsOpen
  <2>2. CASE \E g \in Feed : FeedTicks(g) \/ FeedWarms(g)
    <3> PICK g \in Feed : FeedTicks(g) \/ FeedWarms(g)
      BY <2>2
    <3>1. PICK r \in OpenFeed :
            /\ feed' = [feed EXCEPT ![g] = r]
            /\ \/ r.taken = feed[g].taken
               \/ r.percent = BusyShare(Counters(r.taken[1]), Counters(r.taken[2]))
      BY SampleSteps
    <3>2. f = g /\ feed'[f] = r
      BY <2>1, <3>1
    <3> QED  BY <3>1, <3>2
  <2>3. CASE \E g \in Feed : FeedAborts(g)
    <3> PICK g \in Feed : FeedAborts(g)
      BY <2>3
    <3>1. feed' = [feed EXCEPT ![g].ticking = FALSE, ![g].closed = TRUE]
      BY DEF FeedAborts
    <3>2. feed'[f].taken = feed[f].taken
      BY <2>1, <3>1 DEF OpenFeed
    <3> QED  BY <3>2
  <2>4. CASE \E g \in Feed : FeedIsGone(g)
    BY <2>1, <2>4 DEF FeedIsGone, FeedIsOpen
  <2>5. CASE \E g \in Feed : WatchHost(g)
    BY <2>1, <2>5 DEF WatchHost, OpenFeedAt, FeedIsOpen
  <2>6. CASE \E idle, busy \in 0 .. 1 : TimeGoesOn(idle, busy)
    BY <2>6 DEF TimeGoesOn
  <2>7. CASE UNCHANGED feed
    BY <2>7
  <2>8. \/ \E g \in Feed : FeedTicks(g) \/ FeedWarms(g)
        \/ \E g \in Feed : FeedAborts(g)
        \/ \E g \in Feed : FeedIsGone(g)
        \/ \E g \in Feed : WatchHost(g)
        \/ \E idle, busy \in 0 .. 1 : TimeGoesOn(idle, busy)
        \/ UNCHANGED feed
    BY DEF MsNext, msVars, ProcChanges, Monitor, FeedMessage, SnapshotArrives
  <2> QED  BY <2>2, <2>3, <2>4, <2>5, <2>6, <2>7, <2>8
<1> QED  BY MsInvariant, <1>1, PTL DEF MsSpec, EveryFeedHasItsWindow
=============================================================================
