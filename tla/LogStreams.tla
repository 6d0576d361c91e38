----------------------------- MODULE LogStreams -----------------------------
(* The log tail: the widget's EventSource in the browser, and the server's  *)
(* two routes that answer it, GET /api/stream/logs (this host's logs, by a  *)
(* child process or the gateway) and GET /api/agents/[agentId]/logs (an     *)
(* agent's gateway).                                                        *)
(*                                                                          *)
(* A stream's handler runs in one step (Start).  What comes later comes in  *)
(* any order: output and exit of a child, the gateway's answer, and the     *)
(* abort of the request, which may even be there before the handler runs.   *)
(* Lines are told apart by the selection they were read for.                *)
EXTENDS Naturals, FiniteSets

CONSTANTS
    Stream,         \* requests the server has at once
    Container, Agent,
    NoContainer, NoAgent, NoStream, GivenUp, NoChild, Idle

VARIABLES
    stream,         \* the server's side of each request
    source,         \* the widget: chosenSource, container
    container,
    activeAgent,    \* what the agent switcher selected
    effectFor,      \* the dependencies the widget's effect ran for last
    es,             \* the request esRef's EventSource reads, if one is up
    esFor,          \* the selection that EventSource was opened for
    shown           \* the selections the lines on the screen belong to

lsVars == <<stream, source, container, activeAgent, effectFor, es, esFor, shown>>
widgetVars == <<source, container, activeAgent, effectFor, es, esFor, shown>>

LogSource == {"openclaw", "docker", "system"}
Selection == [source : LogSource, container : Container \cup {NoContainer},
              agent : Agent \cup {NoAgent}]

(* docker logs; journalctl, and tail after it; journalctl -u openclaw.      *)
Child == {"docker", "journal", "tail", "unit"}

(* child: what the handler's variable names; running: children that have    *)
(* neither exited nor been signalled; gateway: the state of the request to  *)
(* the gateway, if there is one.                                            *)
ServerStream ==
    [for : Selection, started : BOOLEAN, left : BOOLEAN, aborted : BOOLEAN,
     child : Child \cup {NoChild}, running : SUBSET Child,
     gateway : {"none", "pending", "cancelling", "streaming"}]

ASSUME LogAssumption ==
    /\ NoContainer \notin Container /\ NoAgent \notin Agent
    /\ {NoStream, GivenUp} \cap Stream = {} /\ NoStream # GivenUp /\ NoChild \notin Child
    /\ Idle \notin ServerStream /\ Idle \notin Selection

LsTypeOK ==
    /\ stream \in [Stream -> ServerStream \cup {Idle}]
    /\ source \in LogSource
    /\ container \in Container \cup {NoContainer}
    /\ activeAgent \in Agent \cup {NoAgent}
    /\ effectFor \in Selection \cup {Idle}
    /\ es \in Stream \cup {NoStream, GivenUp}
    /\ esFor \in Selection \cup {Idle}
    /\ shown \subseteq Selection

Up(s) == stream[s] # Idle
Serving(s) == Up(s) /\ stream[s].started

-----------------------------------------------------------------------------
(* The server.                                                              *)

(* Mutants: definitions named ..._Mutant are faults that the properties      *)
(* below must tell from the code; no other definition uses them.            *)

Set(s, r) == stream' = [stream EXCEPT ![s] = r]

Spawned(r, c) == [r EXCEPT !.child = c, !.running = @ \cup {c}]
Killed(r) == [r EXCEPT !.running = @ \ {r.child}]

(* The handler of /api/stream/logs.  Without a container it says so and     *)
(* returns.                                                                 *)
StartHostStream(s) ==
    LET r == [stream[s] EXCEPT !.started = TRUE] IN
    /\ stream[s].for.agent = NoAgent
    /\ CASE r.for.source = "docker" ->
              Set(s, IF r.for.container = NoContainer THEN r ELSE Spawned(r, "docker"))
         [] r.for.source = "system" -> Set(s, Spawned(r, "journal"))
         [] OTHER -> Set(s, [r EXCEPT !.gateway = "pending"])

(* The handler of an agent's route: a gateway request, or lines that say    *)
(* there is nothing to see.  It never starts a process.                     *)
StartAgentStream(s) ==
    /\ stream[s].for.agent # NoAgent
    /\ \E reported \in BOOLEAN : Set(s,
         [stream[s] EXCEPT !.started = TRUE,
            !.gateway = IF stream[s].for.source = "openclaw" /\ reported
                          THEN "pending" ELSE "none"])

Start(s) ==
    /\ Up(s) /\ ~stream[s].started
    /\ StartHostStream(s) \/ StartAgentStream(s)
    /\ UNCHANGED widgetVars

(* The agent is gone or offline, or the session ended: no stream, and an    *)
(* EventSource that gives up.                                               *)
RefuseStream(s) ==
    /\ Up(s) /\ ~stream[s].started
    /\ Set(s, Idle)
    /\ es' = IF es = s THEN GivenUp ELSE es
    /\ UNCHANGED <<source, container, activeAgent, effectFor, esFor, shown>>

(* A child exits by itself, or could never be started.                      *)
ChildExits(s, c) ==
    /\ Serving(s) /\ c \in stream[s].running
    /\ Set(s, [stream[s] EXCEPT !.running = @ \ {c}])
    /\ UNCHANGED widgetVars

(* Mutant: the tail takes the journal's place beside it.                    *)
FallBackToTail_Mutant(r) == Spawned(r, "tail")

FallBackToTail(r) == Spawned(Killed(r), "tail")

(* The first output on the journal's stderr, which may be read after it has *)
(* exited or was signalled, and after the abort.                            *)
JournalComplains(s) ==
    /\ Serving(s) /\ stream[s].child = "journal"
    /\ Set(s, FallBackToTail(stream[s]))
    /\ UNCHANGED widgetVars

GatewayStreams(s) ==
    /\ Serving(s) /\ stream[s].gateway = "pending" /\ ~stream[s].aborted
    /\ Set(s, [stream[s] EXCEPT !.gateway = "streaming"])
    /\ UNCHANGED widgetVars

(* Not ok: the body is cancelled, and awaited, first.                       *)
GatewayLacksStream(s) ==
    /\ Serving(s) /\ stream[s].gateway = "pending" /\ ~stream[s].aborted
    /\ Set(s, [stream[s] EXCEPT !.gateway = "cancelling"])
    /\ UNCHANGED widgetVars

(* The local journal of the openclaw unit, or for an agent two lines.       *)
FallBackToJournal(r) ==
    LET over == [r EXCEPT !.gateway = "none"]
    IN IF r.for.agent = NoAgent THEN Spawned(over, "unit") ELSE over

Cancelled(s) ==
    /\ Serving(s) /\ stream[s].gateway = "cancelling"
    /\ Set(s, FallBackToJournal(stream[s]))
    /\ UNCHANGED widgetVars

(* A URL that is not allowed is refused whatever the state of the signal.   *)
UrlRefused(s) ==
    /\ Serving(s) /\ stream[s].gateway = "pending"
    /\ Set(s, FallBackToJournal(stream[s]))
    /\ UNCHANGED widgetVars

(* Unreachable, aborted, or at its end: lines at most.                      *)
GatewayEnds(s) ==
    /\ Serving(s) /\ stream[s].gateway \in {"pending", "streaming"}
    /\ Set(s, [stream[s] EXCEPT !.gateway = "none"])
    /\ UNCHANGED widgetVars

(* Mutant: the child is the one that was started with the stream.           *)
AbortHandler_Mutant(r) ==
    IF r.child \in {"tail", "unit"} THEN r ELSE Killed(r)

(* The child that is known by now is signalled; the heartbeat, which is     *)
(* left out here, stops.                                                    *)
AbortHandler(r) == Killed(r)

(* The server learns that the browser has left; a handler that has not run  *)
(* yet will find a signal whose event is past.                              *)
Abort(s) ==
    /\ Up(s) /\ stream[s].left /\ ~stream[s].aborted
    /\ LET r == [stream[s] EXCEPT !.aborted = TRUE]
       IN Set(s, IF r.started THEN AbortHandler(r) ELSE r)
    /\ UNCHANGED widgetVars

(* Nothing of the request is left; its name is used again.                  *)
Collected(s) ==
    /\ Serving(s) /\ stream[s].aborted
    /\ stream[s].running = {} /\ stream[s].gateway = "none"
    /\ Set(s, Idle)
    /\ UNCHANGED widgetVars

-----------------------------------------------------------------------------
(* The widget.                                                              *)

(* With an agent selected, only its OpenClaw log can be shown.              *)
Selected ==
    [source |-> IF activeAgent # NoAgent THEN "openclaw" ELSE source,
     container |-> container, agent |-> activeAgent]

NewStream(sel) ==
    [for |-> sel, started |-> FALSE, left |-> FALSE, aborted |-> FALSE,
     child |-> NoChild, running |-> {}, gateway |-> "none"]

(* An EventSource that is closed delivers nothing more.                     *)
Opened(s, sel) ==
    /\ ~Up(s)
    /\ stream' = [r \in Stream |->
         IF r = s THEN NewStream(sel)
         ELSE IF r = es THEN [stream[r] EXCEPT !.left = TRUE]
         ELSE stream[r]]
    /\ es' = s
    /\ esFor' = sel

(* Mutant: the lines are kept.                                              *)
Connect_Mutant(s, sel) == Opened(s, sel) /\ UNCHANGED shown

(* connect(): one EventSource at a time, on an empty screen.                *)
Connect(s, sel) == Opened(s, sel) /\ shown' = {}

(* React runs the effects of one change before it renders the next.         *)
Settled == effectFor = Selected

RunEffect(s) ==
    /\ ~Settled
    /\ Connect(s, Selected)
    /\ effectFor' = Selected
    /\ UNCHANGED <<source, container, activeAgent>>

ChooseSource(src) ==
    /\ Settled /\ activeAgent = NoAgent
    /\ source' = src
    /\ UNCHANGED <<stream, container, activeAgent, effectFor, es, esFor, shown>>

(* The container's selector connects by itself, before the effect does.     *)
ChooseContainer(s, c) ==
    /\ Settled /\ Selected.source = "docker" /\ c # container
    /\ container' = c
    /\ Connect(s, [Selected EXCEPT !.container = c])
    /\ UNCHANGED <<source, activeAgent, effectFor>>

SelectAgent(a) ==
    /\ Settled
    /\ activeAgent' = a
    /\ UNCHANGED <<stream, source, container, effectFor, es, esFor, shown>>

Message(s) ==
    /\ es = s /\ Serving(s) /\ ~stream[s].aborted
    /\ shown' = shown \cup {stream[s].for}
    /\ UNCHANGED <<stream, source, container, activeAgent, effectFor, es, esFor>>

(* The connection breaks; the EventSource reconnects by itself, and keeps   *)
(* the lines.                                                               *)
ConnectionBreaks(s) ==
    /\ es = s
    /\ Set(s, [stream[s] EXCEPT !.left = TRUE])
    /\ es' = NoStream
    /\ UNCHANGED <<source, container, activeAgent, effectFor, esFor, shown>>

Reconnect(s) ==
    /\ es = NoStream /\ esFor # Idle
    /\ Opened(s, esFor)
    /\ UNCHANGED <<source, container, activeAgent, effectFor, shown>>

LsInit ==
    /\ stream = [s \in Stream |-> Idle]
    /\ source = "openclaw" /\ container = NoContainer /\ activeAgent = NoAgent
    /\ effectFor = Idle /\ es = NoStream /\ esFor = Idle /\ shown = {}

LsNext ==
    \/ \E s \in Stream :
         \/ Start(s) \/ RefuseStream(s) \/ JournalComplains(s)
         \/ GatewayStreams(s) \/ GatewayLacksStream(s) \/ Cancelled(s)
         \/ UrlRefused(s) \/ GatewayEnds(s)
         \/ Abort(s) \/ Collected(s)
         \/ RunEffect(s) \/ Message(s) \/ ConnectionBreaks(s) \/ Reconnect(s)
    \/ \E s \in Stream, c \in Child : ChildExits(s, c)
    \/ \E s \in Stream, c \in Container \cup {NoContainer} : ChooseContainer(s, c)
    \/ \E src \in LogSource : ChooseSource(src)
    \/ \E a \in Agent \cup {NoAgent} : SelectAgent(a)

LsSpec == LsInit /\ [][LsNext]_lsVars

-----------------------------------------------------------------------------
(* Properties.                                                              *)

(* Every child of a stream that has not been signalled is the one the abort *)
(* handler would signal: the fallbacks leave no other running.              *)
RunningChildIsKnown ==
    \A s \in Stream : Up(s) => stream[s].running \subseteq {stream[s].child}

Orphan(s) == Up(s) /\ stream[s].aborted /\ stream[s].running # {}

SpawnedLate(s) ==
    /\ stream[s].aborted
    /\ \/ ~stream[s].started
       \/ stream[s].gateway = "cancelling" \/ (stream[s].gateway = "pending" /\ stream[s].for.agent = NoAgent)
       \/ stream[s].child = "journal" /\ stream'[s].child = "tail"

OrphanOriginStep == \A s \in Stream : Orphan(s)' /\ ~Orphan(s) => SpawnedLate(s)

(* The whole list of ways a process outlives its stream: the handler ran    *)
(* after the abort, the gateway's refusal was dealt with after it, or the   *)
(* journal's first complaint came after it.  The abort of a stream whose    *)
(* child is up always reaches that child.                                   *)
OrphansHaveThreeOrigins == [][OrphanOriginStep]_lsVars

(* An agent's route starts no process on the dashboard's host, and the      *)
(* lines on the screen are those of the selection the EventSource was       *)
(* opened for: none of another agent, container or source stays, through    *)
(* switches, the double connect of the container selector and automatic     *)
(* reconnects (LogTailWidget.connect and its effect).                       *)
LinesAreOfTheSelection ==
    /\ \A s \in Stream : Up(s) /\ stream[s].for.agent # NoAgent => stream[s].running = {}
    /\ shown # {} => esFor # Idle /\ shown = {esFor}
    /\ Settled /\ esFor # Idle => esFor = Selected
=============================================================================
