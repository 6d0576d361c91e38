---------------------------- MODULE AgentSwitcher ---------------------------
(* The agent switcher of the dashboard: a poll of the agent list every 5 s, *)
(* the removal of offline agents, and the selected agent, which is kept in  *)
(* localStorage and shared with the agent list widget.                      *)
(*                                                                          *)
(* The server is the three states of an agent in the registry; requests     *)
(* are served in any order and an answer arrives at any time after it was   *)
(* given. The order of the list, names and ages are left out, and so is     *)
(* the menu, which MenuFocus models.                                        *)
EXTENDS Naturals

CONSTANTS
    Peer,           \* agents
    Poll, Removal,  \* places of requests in flight
    NoPeer

ASSUME SwitcherAssumption == NoPeer \notin Peer

VARIABLES
    registered,     \* the server's registry
    listed,         \* agents: the state that the list shows
    poll, removal,  \* requests in flight
    removing,
    active, saved,  \* activeAgentId and what localStorage holds
    mounted,        \* the dashboard is on the screen
    missed,         \* agents the registry was without since the mounting
    dropped         \* agents whose removal this list has shown since they left

swVars == <<registered, listed, poll, removal, removing, active, saved, mounted, missed, dropped>>

RegistryView == [Peer -> {"absent", "offline", "online"}]
Nobody == [a \in Peer |-> "absent"]
Quiet == [at |-> "quiet"]
PollSent == [at |-> "sent"]
PollAnswer(list) == [at |-> "answered", list |-> list]

(* ours: the component that sent the request is still on the screen.        *)
RemovalOf(a, selected) ==
    [at |-> "sent", peer |-> a, selected |-> selected, ours |-> TRUE]

RemovalInFlight ==
    [at : {"sent", "removed", "gone", "refused"}, peer : Peer,
     selected : BOOLEAN, ours : BOOLEAN]

SwTypeOK ==
    /\ registered \in RegistryView /\ listed \in RegistryView
    /\ poll \in [Poll -> {Quiet, PollSent} \cup {PollAnswer(list) : list \in RegistryView}]
    /\ removal \in [Removal -> {Quiet} \cup RemovalInFlight]
    /\ removing \in Peer \cup {NoPeer}
    /\ active \in Peer \cup {NoPeer} /\ saved \in Peer \cup {NoPeer}
    /\ mounted \in BOOLEAN
    /\ missed \subseteq Peer /\ dropped \subseteq Peer

-----------------------------------------------------------------------------
(* Mutants: definitions named ..._Mutant are faults that the properties      *)
(* below must tell from the code; no other definition uses them.            *)

(* The registry as the switcher meets it: registerAgent, a closed socket.   *)
PeerConnects(a) ==
    /\ registered[a] # "online"
    /\ registered' = [registered EXCEPT ![a] = "online"]
    /\ dropped' = dropped \ {a}
    /\ UNCHANGED <<listed, poll, removal, removing, active, saved, mounted, missed>>

PeerDisconnects(a) ==
    /\ registered[a] = "online"
    /\ registered' = [registered EXCEPT ![a] = "offline"]
    /\ UNCHANGED <<listed, poll, removal, removing, active, saved, mounted, missed, dropped>>

(* load(), sent at the mounting and by the interval.                        *)
LoadSent(q) ==
    /\ mounted /\ poll[q] = Quiet
    /\ poll' = [poll EXCEPT ![q] = PollSent]
    /\ UNCHANGED <<registered, listed, removal, removing, active, saved, mounted, missed, dropped>>

LoadServed(q) ==
    /\ poll[q] = PollSent
    /\ poll' = [poll EXCEPT ![q] = PollAnswer(registered)]
    /\ UNCHANGED <<registered, listed, removal, removing, active, saved, mounted, missed, dropped>>

LoadArrives(q) ==
    /\ poll[q].at = "answered"
    /\ listed' = poll[q].list
    /\ poll' = [poll EXCEPT ![q] = Quiet]
    /\ UNCHANGED <<registered, removal, removing, active, saved, mounted, missed, dropped>>

(* An answer that is not ok, or none.                                       *)
LoadFails(q) ==
    /\ poll[q] # Quiet
    /\ poll' = [poll EXCEPT ![q] = Quiet]
    /\ UNCHANGED <<registered, listed, removal, removing, active, saved, mounted, missed, dropped>>

(* select(id), by the menu.                                                 *)
Select(a) ==
    /\ mounted /\ a \in {NoPeer} \cup {b \in Peer : listed[b] # "absent"}
    /\ active' = a /\ saved' = a
    /\ UNCHANGED <<registered, listed, poll, removal, removing, mounted, missed, dropped>>

(* The agent list widget has a list of its own, and does not save.          *)
ToggleInListWidget(a) ==
    /\ mounted /\ registered[a] # "absent"
    /\ active' = IF active = a THEN NoPeer ELSE a
    /\ UNCHANGED <<registered, listed, poll, removal, removing, saved, mounted, missed, dropped>>

(* removeAgent up to its await: the selection is the one at the click, and  *)
(* a second click forgets which row the first one had disabled.             *)
RemoveClicked(d, a) ==
    /\ mounted /\ removal[d] = Quiet
    /\ listed[a] = "offline" /\ removing # a
    /\ removing' = a
    /\ removal' = [removal EXCEPT ![d] = RemovalOf(a, active = a)]
    /\ UNCHANGED <<registered, listed, poll, active, saved, mounted, missed, dropped>>

(* DELETE /api/agents/:id: 409 for an agent that is online, 404 for none.   *)
RemoveServed(d) ==
    /\ removal[d].at = "sent"
    /\ LET a == removal[d].peer
       IN /\ registered' = [registered EXCEPT ![a] = IF @ = "offline" THEN "absent" ELSE @]
          /\ missed' = IF registered[a] = "online" THEN missed ELSE missed \cup {a}
          /\ removal' = [removal EXCEPT ![d].at = CASE registered[a] = "online" -> "refused"
                                                    [] registered[a] = "offline" -> "removed"
                                                    [] OTHER -> "gone"]
    /\ UNCHANGED <<listed, poll, removing, active, saved, mounted, dropped>>

(* Another refusal, or no answer, before or after the server acted.         *)
RemoveFails(d) ==
    /\ removal[d] # Quiet
    /\ removal' = [removal EXCEPT ![d] = Quiet]
    /\ removing' = IF removal[d].ours THEN NoPeer ELSE removing
    /\ UNCHANGED <<registered, listed, poll, active, saved, mounted, missed, dropped>>

(* Mutant: a refused removal drops the row as well.                         *)
DropsTheRow_Mutant(answer) == answer \in {"removed", "gone", "refused"}

DropsTheRow(answer) == answer \in {"removed", "gone"}

(* removeAgent after its await. A component that has left the screen still  *)
(* forgets the saved agent; its setters change nothing.                     *)
RemoveAnswered(d) ==
    LET r == removal[d]
        drop == DropsTheRow(r.at)
    IN /\ r.at \in {"removed", "gone", "refused"}
       /\ removal' = [removal EXCEPT ![d] = Quiet]
       /\ removing' = IF r.ours THEN NoPeer ELSE removing
       /\ saved' = IF drop /\ r.selected THEN NoPeer ELSE saved
       /\ active' = IF drop /\ r.selected /\ r.ours THEN NoPeer ELSE active
       /\ listed' = IF drop /\ r.ours THEN [listed EXCEPT ![r.peer] = "absent"] ELSE listed
       /\ dropped' = IF drop /\ r.ours /\ registered[r.peer] = "absent"
                     THEN dropped \cup {r.peer} ELSE dropped
       /\ UNCHANGED <<registered, poll, mounted, missed>>

(* Another page: the answers that are under way find nothing to change.     *)
LeaveDashboard ==
    /\ mounted /\ mounted' = FALSE
    /\ poll' = [q \in Poll |-> Quiet]
    /\ removal' = [d \in Removal |->
         IF removal[d] = Quiet THEN Quiet ELSE [removal[d] EXCEPT !.ours = FALSE]]
    /\ listed' = Nobody /\ removing' = NoPeer /\ active' = NoPeer
    /\ missed' = {} /\ dropped' = {}
    /\ UNCHANGED <<registered, saved>>

(* Back on the dashboard: the selection is restored from localStorage.      *)
Enter ==
    /\ ~mounted /\ mounted' = TRUE
    /\ active' = saved
    /\ missed' = {a \in Peer : registered[a] = "absent"}
    /\ UNCHANGED <<registered, listed, poll, removal, removing, saved, dropped>>

SwInit ==
    /\ registered = Nobody /\ listed = Nobody
    /\ poll = [q \in Poll |-> Quiet] /\ removal = [d \in Removal |-> Quiet]
    /\ removing = NoPeer /\ active = NoPeer /\ saved \in Peer \cup {NoPeer}
    /\ mounted = FALSE /\ missed = {} /\ dropped = {}

SwNext ==
    \/ \E a \in Peer : PeerConnects(a) \/ PeerDisconnects(a) \/ ToggleInListWidget(a)
    \/ \E q \in Poll : LoadSent(q) \/ LoadServed(q) \/ LoadArrives(q) \/ LoadFails(q)
    \/ \E a \in Peer \cup {NoPeer} : Select(a)
    \/ \E d \in Removal :
         \/ \E a \in Peer : RemoveClicked(d, a)
         \/ RemoveServed(d) \/ RemoveFails(d) \/ RemoveAnswered(d)
    \/ LeaveDashboard
    \/ Enter

SwSpec == SwInit /\ [][SwNext]_swVars

-----------------------------------------------------------------------------
(* Properties.                                                              *)

DropStep ==
    \A a \in Peer :
        mounted /\ mounted' /\ listed[a] # "absent" /\ listed'[a] = "absent" => a \in missed'

(* A row leaves the list only if the registry has been without the agent    *)
(* since the switcher came up: a removal that was refused because the agent *)
(* is back online, or that failed, keeps the entry, whatever the order of   *)
(* the answers.                                                             *)
DropsOnlyTheRemoved == [][DropStep]_swVars

(* An agent that was removed from the list does not come back unless it     *)
(* reconnects. The code does not ensure it: the answer of a poll that was   *)
(* served before the removal may arrive after the removal's.                *)
RemovedStaysUnlisted == \A a \in dropped : listed[a] = "absent"
=============================================================================
