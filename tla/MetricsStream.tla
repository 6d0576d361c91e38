---------------------------- MODULE MetricsStream ---------------------------
(* GET /api/stream/metrics, one CPU baseline per connection, and the widget *)
(* that shows the stream of this host or the snapshots of an agent.         *)
(*                                                                          *)
(* The kernel's counters grow; /proc/stat may be unreadable for a while.    *)
(* Memory and the time stamps are left out: each reading is of its moment.  *)
EXTENDS Naturals, Sequences

CONSTANTS
    Feed,           \* connections of the stream
    Monitored,      \* agents
    MaxSamples,     \* bound: moments at which the counters are looked at
    Local, NoFeed, NoReading

VARIABLES
    proc,           \* the counters at each moment, the last one is now
    procReadable,
    feed,           \* the server's side of each connection
    monitored,      \* the widget: the agent selected, or this host
    feedOpen,       \* the widget's EventSource, when it has one
    reading         \* whose numbers are on the screen

msVars == <<proc, procReadable, feed, monitored, feedOpen, reading>>
metricsWidgetVars == <<monitored, feedOpen, reading>>

Counter == [idle : Nat, total : Nat]

(* base: the connection's previous counters; warm, ticking: the first timer *)
(* and the interval are set; taken: the moments of its last two samples.    *)
OpenFeed ==
    [base : Counter, warm : BOOLEAN, ticking : BOOLEAN, closed : BOOLEAN,
     percent : 0 .. 100, taken : Nat \X Nat]

ASSUME MetricsAssumption ==
    /\ MaxSamples \in Nat \ {0}
    /\ Local \notin Monitored
    /\ NoReading \notin Monitored \cup {Local}
    /\ NoFeed \notin OpenFeed

MsTypeOK ==
    /\ proc \in Seq(Counter) /\ Len(proc) \in 1 .. MaxSamples
    /\ procReadable \in BOOLEAN
    /\ feed \in [Feed -> OpenFeed \cup {NoFeed}]
    /\ monitored \in Monitored \cup {Local}
    /\ feedOpen \in Feed \cup {NoFeed}
    /\ reading \in Monitored \cup {Local, NoReading}

FeedIsOpen(f) == feed[f] # NoFeed
Now == Len(proc)

-----------------------------------------------------------------------------
(* Mutants: definitions named ..._Mutant are faults that the properties      *)
(* below must tell from the code; no other definition uses them.            *)

Clamp(n) == IF n > 100 THEN 100 ELSE n

(* The busy share of a window in per cent, rounded half up.                 *)
BusyShare(from, to) ==
    LET total == to.total - from.total
        busy == total - (to.idle - from.idle)
    IN IF to.total > from.total THEN Clamp((200 * busy + total) \div (2 * total)) ELSE 0

(* readCpuPercent(): an unreadable file is 0 per cent and the old baseline. *)
ReadCpuPercent(base) ==
    IF procReadable THEN [percent |-> BusyShare(base, proc[Now]), base |-> proc[Now]]
    ELSE [percent |-> 0, base |-> base]

SampleTaken(f, r) ==
    [feed[f] EXCEPT !.base = r.base, !.percent = r.percent,
                    !.taken = IF procReadable THEN <<@[2], Now>> ELSE @]

(* Mutant: the connections share their baseline.                            *)
Sampled_Mutant(f) ==
    LET r == ReadCpuPercent(feed[f].base)
    IN [g \in Feed |->
          IF g = f THEN SampleTaken(f, r)
          ELSE IF FeedIsOpen(g) THEN [feed[g] EXCEPT !.base = r.base] ELSE NoFeed]

(* sampleCpu(): the connection's baseline moves on.                         *)
Sampled(f) == [feed EXCEPT ![f] = SampleTaken(f, ReadCpuPercent(feed[f].base))]

(* The handler: a first sample, an interval and a timer.                    *)
OpenFeedAt(f) ==
    LET zero == [idle |-> 0, total |-> 0]
    IN /\ ~FeedIsOpen(f)
       /\ feed' = [feed EXCEPT ![f] =
            [base |-> IF procReadable THEN proc[Now] ELSE zero, warm |-> TRUE,
             ticking |-> TRUE, closed |-> FALSE, percent |-> 0,
             taken |-> IF procReadable THEN <<0, Now>> ELSE <<0, 0>>]]

(* The interval's turn.                                                     *)
FeedTicks(f) ==
    /\ FeedIsOpen(f) /\ feed[f].ticking
    /\ feed' = Sampled(f)
    /\ UNCHANGED <<proc, procReadable, metricsWidgetVars>>

(* The timer's turn, which no abort cancels: a sample that cannot be sent   *)
(* any more clears the interval.                                            *)
FeedWarms(f) ==
    /\ FeedIsOpen(f) /\ feed[f].warm
    /\ feed' = [Sampled(f) EXCEPT ![f].warm = FALSE,
                                  ![f].ticking = @ /\ ~feed[f].closed]
    /\ UNCHANGED <<proc, procReadable, metricsWidgetVars>>

FeedAborts(f) ==
    /\ FeedIsOpen(f) /\ feedOpen # f /\ ~feed[f].closed
    /\ feed' = [feed EXCEPT ![f].ticking = FALSE, ![f].closed = TRUE]
    /\ UNCHANGED <<proc, procReadable, metricsWidgetVars>>

FeedIsGone(f) ==
    /\ FeedIsOpen(f) /\ feed[f].closed /\ ~feed[f].warm
    /\ feed' = [feed EXCEPT ![f] = NoFeed]
    /\ UNCHANGED <<proc, procReadable, metricsWidgetVars>>

TimeGoesOn(idle, busy) ==
    /\ Now < MaxSamples
    /\ proc' = Append(proc, [idle |-> proc[Now].idle + idle,
                             total |-> proc[Now].total + idle + busy])
    /\ UNCHANGED <<procReadable, feed, metricsWidgetVars>>

ProcChanges ==
    /\ procReadable' = ~procReadable
    /\ UNCHANGED <<proc, feed, metricsWidgetVars>>

(* The widget: an EventSource as long as no agent is selected.              *)
WatchHost(f) ==
    /\ monitored = Local /\ feedOpen = NoFeed
    /\ OpenFeedAt(f)
    /\ feedOpen' = f
    /\ UNCHANGED <<proc, procReadable, monitored, reading>>

(* The cleanup of the effect closes the EventSource; the numbers stay.      *)
Monitor(a) ==
    /\ monitored' = a /\ a # monitored
    /\ feedOpen' = NoFeed
    /\ UNCHANGED <<proc, procReadable, feed, reading>>

FeedMessage ==
    /\ feedOpen # NoFeed
    /\ reading' = Local
    /\ UNCHANGED <<proc, procReadable, feed, monitored, feedOpen>>

(* A poll's answer for another agent than the selected one stays in SWR.    *)
SnapshotArrives(a) ==
    /\ monitored = a
    /\ reading' = a
    /\ UNCHANGED <<proc, procReadable, feed, monitored, feedOpen>>

MsInit ==
    /\ proc = <<[idle |-> 1, total |-> 2]>> /\ procReadable = TRUE
    /\ feed = [f \in Feed |-> NoFeed]
    /\ monitored = Local /\ feedOpen = NoFeed /\ reading = NoReading

MsNext ==
    \/ \E f \in Feed :
         FeedTicks(f) \/ FeedWarms(f) \/ FeedAborts(f) \/ FeedIsGone(f) \/ WatchHost(f)
    \/ \E idle, busy \in 0 .. 1 : TimeGoesOn(idle, busy)
    \/ ProcChanges
    \/ \E a \in Monitored \cup {Local} : Monitor(a)
    \/ FeedMessage
    \/ \E a \in Monitored : SnapshotArrives(a)

MsSpec == MsInit /\ [][MsNext]_msVars

-----------------------------------------------------------------------------
(* Properties.                                                              *)

Counters(n) == IF n = 0 THEN [idle |-> 0, total |-> 0] ELSE proc[n]

OwnWindowStep ==
    \A f \in Feed :
        FeedIsOpen(f) /\ FeedIsOpen(f)' /\ feed'[f].taken # feed[f].taken =>
            feed'[f].percent = BusyShare(Counters(feed'[f].taken[1]), Counters(feed'[f].taken[2]))

(* What a connection reports is the load since its own previous sample,     *)
(* whatever other connections sample in between, and it starts over from    *)
(* the last one it could read (the per-connection baseline).                *)
EveryFeedHasItsWindow == [][OwnWindowStep]_msVars
=============================================================================
