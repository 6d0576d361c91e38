---------------------------- MODULE Pages_proofs ----------------------------
(* Theorems about the pages: the agent switcher, the settings page, the     *)
(* dashboard's layout, the focus of a menu and the "Add Agent" dialog, for  *)
(* any agents, tokens, widgets, rows and requests in flight.                *)
EXTENDS AgentSwitcher, SettingsPage, MenuFocus, DashboardLayout, AddAgentModal,
        FiniteSetTheorems, TLAPS

-----------------------------------------------------------------------------
(* AgentSwitcher.                                                           *)

(* An agent that the registry is without, or that an answer under way is    *)
(* without, is known to have been missed since the mounting.                *)
SwInv ==
    /\ SwTypeOK
    /\ mounted => \A a \in Peer : registered[a] = "absent" => a \in missed
    /\ \A q \in Poll : poll[q] # Quiet => mounted
    /\ \A q \in Poll : poll[q].at = "answered" =>
         \A a \in Peer : poll[q].list[a] = "absent" => a \in missed
    /\ \A d \in Removal : removal[d] # Quiet /\ removal[d].ours =>
         /\ mounted
         /\ removal[d].at \in {"removed", "gone"} => removal[d].peer \in missed

LEMMA SwInitHolds == SwInit => SwInv
<1> SUFFICES ASSUME SwInit PROVE SwInv
  OBVIOUS
<1>1. Nobody \in RegistryView /\ Quiet.at = "quiet"
  BY DEF Nobody, RegistryView, Quiet
<1> QED  BY <1>1 DEF SwInit, SwInv, SwTypeOK

(* The registry's steps.                                                    *)
LEMMA PeerPreserves ==
    ASSUME SwInv, NEW a \in Peer,
           PeerConnects(a) \/ PeerDisconnects(a) \/ ToggleInListWidget(a)
    PROVE  SwInv'
<1> USE DEF SwInv, SwTypeOK, RegistryView
<1>1. CASE PeerConnects(a)
  BY <1>1 DEF PeerConnects
<1>2. CASE PeerDisconnects(a)
  BY <1>2 DEF PeerDisconnects
<1>3. CASE ToggleInListWidget(a)
  BY <1>3 DEF ToggleInListWidget
<1> QED  BY <1>1, <1>2, <1>3

(* The polls: an answer is what the registry was.                           *)
LEMMA PollPreserves ==
    ASSUME SwInv, NEW q \in Poll,
           LoadSent(q) \/ LoadServed(q) \/ LoadArrives(q) \/ LoadFails(q)
    PROVE  SwInv'
<1> USE DEF SwInv, SwTypeOK
<1> DEFINE Answers == {PollAnswer(list) : list \in RegistryView}
<1>0. /\ PollSent.at = "sent" /\ Quiet.at = "quiet" /\ PollSent # Quiet
      /\ PollAnswer(registered) \in Answers
      /\ PollAnswer(registered).at = "answered" /\ PollAnswer(registered).list = registered
      /\ PollAnswer(registered) # Quiet
  BY DEF PollSent, Quiet, PollAnswer
<1>1. CASE LoadSent(q)
  BY <1>0, <1>1 DEF LoadSent
<1>2. CASE LoadServed(q)
  <2>1. poll' = [poll EXCEPT ![q] = PollAnswer(registered)] /\ mounted
        /\ UNCHANGED <<registered, listed, removal, removing, active, saved, mounted, missed, dropped>>
    BY <1>0, <1>2 DEF LoadServed
  <2> HIDE DEF Answers
  <2> QED  BY <1>0, <2>1 DEF Answers
<1>3. CASE LoadArrives(q)
  <2>1. poll[q] \in Answers
    BY <1>0, <1>3 DEF LoadArrives
  <2>2. poll[q].list \in RegistryView
    BY <2>1 DEF PollAnswer
  <2> QED  BY <1>0, <1>3, <2>2 DEF LoadArrives
<1>4. CASE LoadFails(q)
  BY <1>0, <1>4 DEF LoadFails
<1> QED  BY <1>1, <1>2, <1>3, <1>4

(* The selection, which the property does not look at.                      *)
LEMMA SelectPreserves ==
    ASSUME SwInv, NEW a \in Peer \cup {NoPeer}, Select(a)
    PROVE  SwInv'
BY DEF SwInv, SwTypeOK, Select

(* A removal that was served found the agent offline or gone, or was        *)
(* refused.                                                                 *)
LEMMA RemovalRecord ==
    ASSUME NEW r \in RemovalInFlight, NEW answer \in {"removed", "gone", "refused"}
    PROVE  LET n == [r EXCEPT !.at = answer]
           IN n \in RemovalInFlight /\ n.at = answer /\ n.peer = r.peer /\ n.ours = r.ours
<1>1. [r EXCEPT !.at = answer] \in RemovalInFlight
  BY Zenon DEF RemovalInFlight
<1> QED  BY <1>1, SMT DEF RemovalInFlight

LEMMA ClickPreserves ==
    ASSUME SwInv, NEW d \in Removal, NEW a \in Peer, RemoveClicked(d, a)
    PROVE  SwInv'
<1> USE DEF SwInv, SwTypeOK
<1> DEFINE new == RemovalOf(a, active = a)
<1>1. new \in RemovalInFlight
  BY Zenon DEF RemovalOf, RemovalInFlight
<1>2. new.at = "sent" /\ new.peer = a /\ new.ours
  BY DEF RemovalOf
<1>3. /\ removal' = [removal EXCEPT ![d] = new] /\ removing' = a /\ mounted
      /\ UNCHANGED <<registered, listed, poll, active, saved, mounted, missed, dropped>>
  BY DEF RemoveClicked
<1> HIDE DEF new
<1> QED  BY <1>1, <1>2, <1>3

LEMMA ServedPreserves ==
    ASSUME SwInv, NEW d \in Removal, RemoveServed(d)
    PROVE  SwInv'
<1> USE DEF SwInv, SwTypeOK
<1> DEFINE a == removal[d].peer
           answer == CASE registered[a] = "online" -> "refused"
                       [] registered[a] = "offline" -> "removed"
                       [] OTHER -> "gone"
           new == [removal[d] EXCEPT !.at = answer]
<1>1. /\ registered' = [registered EXCEPT ![a] = IF registered[a] = "offline" THEN "absent" ELSE registered[a]]
      /\ missed' = IF registered[a] = "online" THEN missed ELSE missed \cup {a}
      /\ removal' = [removal EXCEPT ![d] = new]
      /\ removal[d].at = "sent"
      /\ UNCHANGED <<listed, poll, removing, active, saved, mounted, dropped>>
  BY DEF RemoveServed
<1>2. removal[d] \in RemovalInFlight /\ removal[d] # Quiet /\ a \in Peer
  BY <1>1 DEF Quiet, RemovalInFlight
<1>3. answer \in {"removed", "gone", "refused"} /\ (answer # "refused" => registered[a] # "online")
  OBVIOUS
<1> HIDE DEF answer
<1>4. new \in RemovalInFlight /\ new.at = answer /\ new.peer = a /\ new.ours = removal[d].ours
  BY <1>2, <1>3, RemovalRecord
<1> HIDE DEF new, a
<1>5. /\ missed \subseteq missed' /\ missed' \subseteq Peer
      /\ answer # "refused" => a \in missed'
      /\ registered' \in RegistryView
      /\ \A b \in Peer : registered'[b] = "absent" => registered[b] = "absent" \/ b \in missed'
  BY <1>1, <1>2, <1>3 DEF RegistryView
<1>6. SwTypeOK'
  BY <1>1, <1>4, <1>5
<1>7. \A e \in Removal : removal'[e] # Quiet /\ removal'[e].ours =>
        /\ mounted'
        /\ removal'[e].at \in {"removed", "gone"} => removal'[e].peer \in missed'
  BY <1>1, <1>2, <1>4, <1>5
<1> QED  BY <1>1, <1>5, <1>6, <1>7

LEMMA AnsweredPreserves ==
    ASSUME SwInv, NEW d \in Removal, RemoveFails(d) \/ RemoveAnswered(d)
    PROVE  SwInv'
<1> USE DEF SwInv, SwTypeOK
<1>1. removal[d] # Quiet /\ removal[d] \in RemovalInFlight /\ removal[d].peer \in Peer
  BY DEF RemoveFails, RemoveAnswered, Quiet, RemovalInFlight
<1>2. /\ removal' = [removal EXCEPT ![d] = Quiet]
      /\ UNCHANGED <<registered, poll, mounted, missed>>
  BY DEF RemoveFails, RemoveAnswered
<1>3. /\ removing' \in Peer \cup {NoPeer} /\ active' \in Peer \cup {NoPeer}
      /\ saved' \in Peer \cup {NoPeer}
      /\ dropped' \subseteq Peer /\ listed' \in RegistryView
  BY <1>1 DEF RemoveFails, RemoveAnswered, RegistryView
<1> QED  BY <1>2, <1>3

(* Leaving the dashboard forgets what was missed, and every poll; what is   *)
(* still under way is not ours.                                             *)
LEMMA PagePreserves ==
    ASSUME SwInv, LeaveDashboard \/ Enter
    PROVE  SwInv'
<1> USE DEF SwInv, SwTypeOK
<1>1. CASE LeaveDashboard
  <2>1. ASSUME NEW r \in RemovalInFlight
        PROVE  [r EXCEPT !.ours = FALSE] \in RemovalInFlight /\ ~[r EXCEPT !.ours = FALSE].ours
    <3>1. [r EXCEPT !.ours = FALSE] \in RemovalInFlight
      BY Zenon DEF RemovalInFlight
    <3> QED  BY <3>1, SMT DEF RemovalInFlight
  <2>2. \A d \in Removal : /\ removal'[d] \in {Quiet} \cup RemovalInFlight
                           /\ removal'[d] # Quiet => ~removal'[d].ours
    BY <1>1, <2>1 DEF LeaveDashboard
  <2>3. removal' \in [Removal -> {Quiet} \cup RemovalInFlight]
    BY <1>1, <2>2 DEF LeaveDashboard
  <2>4. Nobody \in RegistryView /\ Quiet.at = "quiet"
    BY DEF Nobody, RegistryView, Quiet
  <2> QED  BY <1>1, <2>2, <2>3, <2>4 DEF LeaveDashboard
<1>2. CASE Enter
  BY <1>2 DEF Enter, Quiet
<1> QED  BY <1>1, <1>2

LEMMA SwStepPreserves == SwInv /\ [SwNext]_swVars => SwInv'
<1> SUFFICES ASSUME SwInv, [SwNext]_swVars PROVE SwInv'
  OBVIOUS
<1>1. CASE UNCHANGED swVars
  BY <1>1 DEF swVars, SwInv, SwTypeOK
<1>2. CASE SwNext
  BY <1>2, PeerPreserves, PollPreserves, SelectPreserves, ClickPreserves, ServedPreserves,
     AnsweredPreserves, PagePreserves DEF SwNext
<1> QED  BY <1>1, <1>2

LEMMA SwitcherInvariant == SwSpec => []SwInv
<1> QED  BY SwInitHolds, SwStepPreserves, PTL DEF SwSpec

(* The registry, the list, the requests and the selection are of their      *)
(* types.                                                                   *)
THEOREM SwitcherTypes == SwSpec => []SwTypeOK
<1>1. SwInv => SwTypeOK
  BY DEF SwInv
<1> QED  BY SwitcherInvariant, <1>1, PTL

LEMMA DropStepHolds == SwInv /\ [SwNext]_swVars => DropStep
<1> SUFFICES ASSUME SwInv, [SwNext]_swVars, NEW a \in Peer, mounted, mounted',
                    listed[a] # "absent", listed'[a] = "absent"
             PROVE  a \in missed'
  BY DEF DropStep
<1>1. ASSUME NEW q \in Poll, LoadArrives(q) PROVE a \in missed'
  BY <1>1 DEF LoadArrives, SwInv
<1>2. ASSUME NEW d \in Removal, RemoveAnswered(d) PROVE a \in missed'
  <2>1. removal[d].peer = a /\ DropsTheRow(removal[d].at) /\ removal[d].ours
    BY <1>2 DEF RemoveAnswered, SwInv, SwTypeOK, RegistryView
  <2>2. removal[d] # Quiet
    BY <1>2 DEF RemoveAnswered, Quiet
  <2> QED  BY <1>2, <2>1, <2>2 DEF RemoveAnswered, DropsTheRow, SwInv
<1> QED
  BY <1>1, <1>2 DEF SwNext, swVars, PeerConnects, PeerDisconnects, ToggleInListWidget,
     LoadSent, LoadServed, LoadFails, Select, RemoveClicked, RemoveServed, RemoveFails,
     LeaveDashboard, Enter

(* A row leaves the list only if the registry has been without its agent    *)
(* since the dashboard came up, in whatever order the answers arrive.       *)
THEOREM DropsNeedARemoval == SwSpec => DropsOnlyTheRemoved
<1> QED  BY SwitcherInvariant, DropStepHolds, PTL DEF SwSpec, DropsOnlyTheRemoved

-----------------------------------------------------------------------------
(* AgentSwitcher: what becomes of a removed row.                            *)

(* The answers under way that were given before the agent was removed.      *)
OldAnswers(a) == {q \in Poll : poll[q].at = "answered" /\ poll[q].list[a] # "absent"}

DroppedAreGone == \A a \in dropped : registered[a] = "absent"

RelistStep ==
    \A a \in dropped \cap dropped' :
        /\ OldAnswers(a)' \subseteq OldAnswers(a)
        /\ \A q \in Poll :
             LoadArrives(q) => (listed'[a] # "absent" <=> q \in OldAnswers(a))
        /\ listed[a] = "absent" /\ listed'[a] # "absent" =>
             \E q \in OldAnswers(a) : q \notin OldAnswers(a)'

(* A row that was removed can come back, unlike what one would expect of    *)
(* it, but only by the answer of a poll that the server gave before the     *)
(* removal.  There are no new answers of this kind until the agent          *)
(* reconnects, each of them brings the row back once, and every other       *)
(* answer takes the row out again.                                          *)
RelistingsAreNumbered == [][RelistStep]_swVars

LEMMA DroppedInductive == SwInv /\ DroppedAreGone /\ [SwNext]_swVars => DroppedAreGone'
<1> SUFFICES ASSUME SwInv, DroppedAreGone, [SwNext]_swVars, NEW a \in dropped'
             PROVE  registered'[a] = "absent"
  BY DEF DroppedAreGone
<1> USE DEF SwInv, SwTypeOK, DroppedAreGone
<1>1. ASSUME NEW b \in Peer, PeerConnects(b) \/ PeerDisconnects(b) \/ ToggleInListWidget(b)
      PROVE  registered'[a] = "absent"
  BY <1>1 DEF PeerConnects, PeerDisconnects, ToggleInListWidget, RegistryView
<1>2. ASSUME NEW d \in Removal, RemoveServed(d) PROVE registered'[a] = "absent"
  BY <1>2 DEF RemoveServed, RegistryView
<1>3. ASSUME NEW d \in Removal, RemoveAnswered(d) PROVE registered'[a] = "absent"
  BY <1>3 DEF RemoveAnswered
<1>4. CASE LeaveDashboard
  BY <1>4 DEF LeaveDashboard
<1> QED
  BY <1>1, <1>2, <1>3, <1>4 DEF SwNext, swVars, LoadSent, LoadServed, LoadArrives,
     LoadFails, Select, RemoveClicked, RemoveFails, Enter

(* While an agent is gone from the registry no poll is answered with it.    *)
LEMMA NoNewOldAnswers ==
    ASSUME SwInv, DroppedAreGone, [SwNext]_swVars, NEW a \in dropped \cap dropped',
           NEW q \in Poll
    PROVE  q \in OldAnswers(a)' => q \in OldAnswers(a)
<1> SUFFICES ASSUME poll'[q].at = "answered", poll'[q].list[a] # "absent"
             PROVE  poll[q].at = "answered" /\ poll[q].list[a] # "absent"
  BY DEF OldAnswers
<1> USE DEF SwInv, SwTypeOK
<1>0. /\ Quiet.at = "quiet" /\ PollSent.at = "sent"
      /\ PollAnswer(registered).list = registered
  BY DEF Quiet, PollSent, PollAnswer
<1>1. registered[a] = "absent"
  BY DEF DroppedAreGone
<1>2. ASSUME NEW p \in Poll, LoadSent(p) \/ LoadArrives(p) \/ LoadFails(p)
      PROVE  poll[q].at = "answered" /\ poll[q].list[a] # "absent"
  BY <1>0, <1>2 DEF LoadSent, LoadArrives, LoadFails
<1>3. ASSUME NEW p \in Poll, LoadServed(p)
      PROVE  poll[q].at = "answered" /\ poll[q].list[a] # "absent"
  BY <1>0, <1>1, <1>3 DEF LoadServed
<1>4. CASE LeaveDashboard
  BY <1>0, <1>4 DEF LeaveDashboard
<1> QED
  BY <1>2, <1>3, <1>4 DEF SwNext, swVars, PeerConnects, PeerDisconnects,
     ToggleInListWidget, Select, RemoveClicked, RemoveServed, RemoveFails,
     RemoveAnswered, Enter

LEMMA RelistStepHolds == SwInv /\ DroppedAreGone /\ [SwNext]_swVars => RelistStep
<1> SUFFICES ASSUME SwInv, DroppedAreGone, [SwNext]_swVars, NEW a \in dropped \cap dropped'
             PROVE  /\ OldAnswers(a)' \subseteq OldAnswers(a)
                    /\ \A q \in Poll :
                         LoadArrives(q) => (listed'[a] # "absent" <=> q \in OldAnswers(a))
                    /\ listed[a] = "absent" /\ listed'[a] # "absent" =>
                         \E q \in OldAnswers(a) : q \notin OldAnswers(a)'
  BY DEF RelistStep
<1> USE DEF SwInv, SwTypeOK
<1>1. OldAnswers(a)' \subseteq OldAnswers(a)
  BY NoNewOldAnswers DEF OldAnswers
<1>2. ASSUME NEW q \in Poll, LoadArrives(q)
      PROVE  /\ listed'[a] # "absent" <=> q \in OldAnswers(a)
             /\ q \notin OldAnswers(a)'
  BY <1>2 DEF LoadArrives, OldAnswers, Quiet
<1>3. ASSUME listed[a] = "absent", listed'[a] # "absent"
      PROVE  \E q \in Poll : LoadArrives(q)
  <2>1. ASSUME NEW d \in Removal, RemoveAnswered(d) PROVE FALSE
    BY <1>3, <2>1 DEF RemoveAnswered, RegistryView
  <2>2. ~LeaveDashboard
    BY DEF LeaveDashboard
  <2> QED
    BY <1>3, <2>1, <2>2 DEF SwNext, swVars, PeerConnects, PeerDisconnects,
       ToggleInListWidget, LoadSent, LoadServed, LoadFails, Select, RemoveClicked,
       RemoveServed, RemoveFails, Enter
<1> QED
  BY <1>1, <1>2, <1>3

(* How a removed row may come back, and how often.                          *)
THEOREM RelistingsComeFromOldPolls == SwSpec => RelistingsAreNumbered
<1>1. SwInit => DroppedAreGone
  BY DEF SwInit, DroppedAreGone
<1> QED
  BY <1>1, SwitcherInvariant, DroppedInductive, RelistStepHolds, PTL
     DEF SwSpec, RelistingsAreNumbered

-----------------------------------------------------------------------------
(* SettingsPage.                                                            *)

(* RevocationIsExclusive without counting.                                  *)
OneRevocation ==
    /\ \A v, w \in Revocation : revocation[v] # Nothing /\ revocation[w] # Nothing => v = w
    /\ revokeInFlight <=> \E v \in Revocation : revocation[v] # Nothing
    /\ revokeInFlight <=> revokingId # NoToken
    /\ \A v \in Revocation : revocation[v] # Nothing => revocation[v].token = revokingId

StInv == StTypeOK /\ OneRevocation

LEMMA StInitHolds == StInit => StInv
<1> SUFFICES ASSUME StInit PROVE StInv
  OBVIOUS
<1>1. renaming \in 0 .. MaxRenames
  BY SettingsAssumption DEF SettingsAssumption, StInit
<1>2. StTypeOK
  BY <1>1 DEF StInit, StTypeOK
<1>3. OneRevocation
  BY DEF StInit, OneRevocation
<1> QED  BY <1>2, <1>3 DEF StInv

LEMMA LoadRecords ==
    /\ Nothing.at = "nothing" /\ Nothing \notin LoadInFlight /\ Nothing \notin RevocationInFlight
    /\ \A why \in {"mount", "generate", "revoke", "rename"} :
         [at |-> "sent", list |-> {}, for |-> why] \in LoadInFlight
BY DEF Nothing, LoadInFlight, RevocationInFlight

LEMMA LoadTokensType ==
    ASSUME StTypeOK, NEW why \in {"mount", "generate", "revoke", "rename"}, LoadTokens(why)
    PROVE  load' \in [Load -> {Nothing} \cup LoadInFlight]
BY LoadRecords DEF StTypeOK, LoadTokens

(* The steps that touch no revocation.                                      *)
LEMMA OtherPreserves ==
    ASSUME StInv, StTypeOK', UNCHANGED <<revocation, revokeInFlight, revokingId>>
    PROVE  StInv'
BY DEF StInv, OneRevocation

LEMMA ListPreserves ==
    ASSUME StInv,
           \/ \E signedIn \in BOOLEAN : SettingsAuthChecked(signedIn)
           \/ \E l \in Load :
                \/ TokensServed(l) \/ TokensAnswered(l)
                \/ \E rejects \in BOOLEAN : TokensFail(l, rejects)
    PROVE  StInv'
<1> USE LoadRecords DEF StInv, StTypeOK
<1>1. ASSUME NEW signedIn \in BOOLEAN, SettingsAuthChecked(signedIn) PROVE StInv'
  <2>1. load' \in [Load -> {Nothing} \cup LoadInFlight]
    BY <1>1, LoadTokensType DEF SettingsAuthChecked
  <2>2. settingsPage' \in {"ready", "login"}
        /\ UNCHANGED <<serverTokens, tokens, generateVars, revokeVars, editVars, pwVarsOfPage>>
    BY <1>1 DEF SettingsAuthChecked
  <2>3. StTypeOK'
    BY <2>1, <2>2 DEF serverTokens, generateVars, revokeVars, editVars, pwVarsOfPage
  <2> QED  BY <2>2, <2>3, OtherPreserves DEF revokeVars
<1>2. ASSUME NEW l \in Load, TokensServed(l) PROVE StInv'
  <2>1. load[l] \in LoadInFlight /\ held \in SUBSET TokenId
    BY <1>2 DEF TokensServed
  <2>2. [load[l] EXCEPT !.at = "answered", !.list = held] \in LoadInFlight
    <3>1. \A r \in LoadInFlight : [r EXCEPT !.at = "answered", !.list = held] \in LoadInFlight
      BY <2>1, Zenon DEF LoadInFlight
    <3> QED  BY <2>1, <3>1
  <2>3. load' = [load EXCEPT ![l] = [load[l] EXCEPT !.at = "answered", !.list = held]]
        /\ UNCHANGED <<settingsPage, serverTokens, tokens, generateVars, revokeVars,
                       editVars, pwVarsOfPage>>
    BY <1>2 DEF TokensServed
  <2>4. StTypeOK'
    BY <2>2, <2>3 DEF serverTokens, generateVars, revokeVars, editVars, pwVarsOfPage
  <2> QED  BY <2>3, <2>4, OtherPreserves DEF revokeVars
<1>3. ASSUME NEW l \in Load, NEW rejects \in BOOLEAN, TokensAnswered(l) \/ TokensFail(l, rejects)
      PROVE  StInv'
  <2>1. load' = [load EXCEPT ![l] = Nothing] /\ settingsPage' \in {"ready", "login"}
        /\ UNCHANGED <<serverTokens, generating, newToken, revokeVars, editVars, pwVarsOfPage>>
    BY <1>3 DEF TokensAnswered, TokensFail, OnPage
  <2>2. tokens' \subseteq TokenId
    <3>1. CASE TokensAnswered(l)
      <4>1. load[l] \in LoadInFlight
        BY <3>1 DEF TokensAnswered
      <4> QED  BY <3>1, <4>1 DEF TokensAnswered, LoadInFlight
    <3>2. CASE TokensFail(l, rejects)
      BY <3>2 DEF TokensFail
    <3> QED  BY <1>3, <3>1, <3>2
  <2>3. tokenLoading' \in BOOLEAN
    BY <1>3, Zenon DEF TokensAnswered, TokensFail
  <2>4. StTypeOK'
    BY <2>1, <2>2, <2>3 DEF serverTokens, generateVars, revokeVars, editVars, pwVarsOfPage
  <2> QED  BY <2>1, <2>4, OtherPreserves DEF revokeVars
<1> QED  BY <1>1, <1>2, <1>3

LEMMA GeneratePreserves ==
    ASSUME StInv,
           \/ HandleGenerateToken \/ GenerateRefused \/ GenerateAnswered \/ GenerateFails
           \/ DismissNewToken
           \/ \E t \in TokenId : GenerateServed(t)
    PROVE  StInv'
<1> USE LoadRecords DEF StInv, StTypeOK, serverTokens, listVars, generateVars, revokeVars,
        editVars, pwVarsOfPage
<1>1. CASE HandleGenerateToken \/ GenerateRefused \/ GenerateFails \/ DismissNewToken
  <2>1. generating' \in {"no", "sent", "refused"} \cup TokenId
        /\ newToken' \in TokenId \cup {NoToken} /\ tokenLoading' \in BOOLEAN
    <3>1. CASE HandleGenerateToken
      BY <3>1 DEF HandleGenerateToken
    <3>2. CASE GenerateRefused
      BY <3>2 DEF GenerateRefused
    <3>3. CASE GenerateFails
      BY <3>3 DEF GenerateFails
    <3>4. CASE DismissNewToken
      BY <3>4 DEF DismissNewToken
    <3> QED  BY <1>1, <3>1, <3>2, <3>3, <3>4
  <2>2. UNCHANGED <<settingsPage, serverTokens, listVars, revokeVars, editVars, pwVarsOfPage>>
    BY <1>1 DEF HandleGenerateToken, GenerateRefused, GenerateFails, DismissNewToken
  <2>3. StTypeOK'
    BY <2>1, <2>2
  <2> QED  BY <2>2, <2>3, OtherPreserves
<1>2. CASE GenerateAnswered
  <2>1. load' \in [Load -> {Nothing} \cup LoadInFlight]
    BY <1>2, LoadTokensType DEF GenerateAnswered
  <2> QED  BY <1>2, <2>1, OtherPreserves DEF GenerateAnswered
<1>3. ASSUME NEW t \in TokenId, GenerateServed(t) PROVE StInv'
  BY <1>3, OtherPreserves DEF GenerateServed
<1> QED  BY <1>1, <1>2, <1>3

LEMMA EditPreserves ==
    ASSUME StInv,
           \/ \E t \in TokenId : StartEdit(t) \/ RevokeDismissed(t)
           \/ EndEdit \/ SaveEdit \/ SaveEditAnswered \/ SaveEditFails
           \/ HandleChangePassword \/ LogOut
           \/ \E ok \in BOOLEAN : ChangePasswordAnswered(ok)
    PROVE  StInv'
<1> USE LoadRecords DEF StInv, StTypeOK, serverTokens, listVars, generateVars, revokeVars,
        editVars, pwVarsOfPage
<1>1. ASSUME NEW t \in TokenId, StartEdit(t) \/ RevokeDismissed(t) PROVE StInv'
  <2>1. CASE StartEdit(t)
    BY <2>1, OtherPreserves DEF StartEdit
  <2>2. CASE RevokeDismissed(t)
    <3>1. revokeError' \in BOOLEAN
      BY <2>2, Zenon DEF RevokeDismissed
    <3>2. UNCHANGED <<settingsPage, serverTokens, listVars, generateVars, revocation,
                      revokeInFlight, revokingId, editVars, pwVarsOfPage>>
      BY <2>2 DEF RevokeDismissed
    <3>3. StTypeOK'
      BY <3>1, <3>2
    <3> QED  BY <3>2, <3>3, OtherPreserves
  <2> QED  BY <1>1, <2>1, <2>2
<1>2. CASE EndEdit \/ SaveEdit \/ SaveEditFails \/ HandleChangePassword \/ LogOut
  <2>1. CASE EndEdit
    BY <2>1, OtherPreserves DEF EndEdit
  <2>2. CASE SaveEdit
    BY <2>2, OtherPreserves, SettingsAssumption DEF SettingsAssumption, SaveEdit
  <2>3. CASE SaveEditFails
    BY <2>3, OtherPreserves, SettingsAssumption DEF SettingsAssumption, SaveEditFails
  <2>4. CASE HandleChangePassword
    BY <2>4, OtherPreserves DEF HandleChangePassword
  <2>5. CASE LogOut
    BY <2>5, OtherPreserves DEF LogOut
  <2> QED  BY <1>2, <2>1, <2>2, <2>3, <2>4, <2>5
<1>3. CASE SaveEditAnswered
  <2>1. load' \in [Load -> {Nothing} \cup LoadInFlight]
    BY <1>3, LoadTokensType DEF SaveEditAnswered
  <2> QED  BY <1>3, <2>1, OtherPreserves, SettingsAssumption DEF SettingsAssumption, SaveEditAnswered
<1>4. ASSUME NEW ok \in BOOLEAN, ChangePasswordAnswered(ok) PROVE StInv'
  <2>1. loggingOut' \in BOOLEAN
    BY <1>4, Zenon DEF ChangePasswordAnswered
  <2> QED  BY <1>4, <2>1, OtherPreserves DEF ChangePasswordAnswered
<1> QED  BY <1>1, <1>2, <1>3, <1>4

(* The revocations themselves.                                              *)
LEMMA RevocationPreserves ==
    ASSUME StInv, NEW v \in Revocation,
           \/ \E t \in TokenId : HandleRevokeToken(v, t)
           \/ RevocationServed(v) \/ RevocationAnswered(v) \/ RevocationFails(v)
    PROVE  StInv'
<1> USE LoadRecords DEF StInv, StTypeOK, serverTokens, listVars, generateVars, editVars,
        pwVarsOfPage
<1>1. ASSUME NEW t \in TokenId, HandleRevokeToken(v, t) PROVE StInv'
  <2> DEFINE new == [at |-> "sent", token |-> t]
  <2>1. new \in RevocationInFlight /\ new # Nothing /\ new.token = t
    BY DEF RevocationInFlight
  <2>2. /\ revocation' = [revocation EXCEPT ![v] = new]
        /\ ~revokeInFlight /\ revokeInFlight' = TRUE
        /\ revokingId' = t /\ revokeError' = FALSE
        /\ UNCHANGED <<settingsPage, serverTokens, listVars, generateVars, editVars, pwVarsOfPage>>
    BY <1>1 DEF HandleRevokeToken
  <2> HIDE DEF new
  <2>3. StTypeOK'
    <3>1. revocation' \in [Revocation -> {Nothing} \cup RevocationInFlight]
      BY <2>1, <2>2
    <3>2. revokeInFlight' \in BOOLEAN /\ revokeError' \in BOOLEAN
      BY <2>2, Zenon
    <3>3. revokingId' \in TokenId \cup {NoToken}
      BY <2>2
    <3>4. UNCHANGED <<settingsPage, serverTokens, listVars, generateVars, editVars, pwVarsOfPage>>
      BY <2>2
    <3> QED  BY <3>1, <3>2, <3>3, <3>4
  <2>4. OneRevocation'
    BY <2>1, <2>2, SettingsAssumption DEF OneRevocation
  <2> QED  BY <2>3, <2>4
<1>2. CASE RevocationServed(v)
  <2> DEFINE answer == IF revocation[v].token \in held THEN "revoked" ELSE "refused"
             new == [revocation[v] EXCEPT !.at = answer]
  <2>1. revocation[v] \in RevocationInFlight /\ revocation[v] # Nothing
    BY <1>2 DEF RevocationServed
  <2>2. new \in RevocationInFlight /\ new.token = revocation[v].token
    BY <2>1 DEF RevocationInFlight
  <2>3. /\ revocation' = [revocation EXCEPT ![v] = new]
        /\ held' = held \ {revocation[v].token}
        /\ UNCHANGED <<settingsPage, issued, listVars, generateVars, revokeInFlight, revokingId,
                       revokeError, editVars, pwVarsOfPage>>
    BY <1>2 DEF RevocationServed
  <2> HIDE DEF new, answer
  <2>4. StTypeOK'
    BY <2>2, <2>3
  <2>5. OneRevocation'
    BY <2>1, <2>2, <2>3 DEF OneRevocation
  <2> QED  BY <2>4, <2>5
<1>3. CASE RevocationAnswered(v) \/ RevocationFails(v)
  <2>1. /\ revocation' = [revocation EXCEPT ![v] = Nothing] /\ revocation[v] # Nothing
        /\ revokeInFlight' = FALSE /\ revokingId' = NoToken /\ revokeError' \in BOOLEAN
        /\ UNCHANGED <<settingsPage, serverTokens, tokens, generateVars, editVars, pwVarsOfPage>>
    BY <1>3 DEF RevocationAnswered, RevocationFails, RevocationEnds
  <2>2. load' \in [Load -> {Nothing} \cup LoadInFlight]
    BY <1>3, LoadTokensType DEF RevocationAnswered, RevocationFails
  <2>3. StTypeOK'
    <3>1. revocation' \in [Revocation -> {Nothing} \cup RevocationInFlight]
      BY <2>1
    <3>2. revokeInFlight' \in BOOLEAN
      BY <2>1, Zenon
    <3> QED  BY <3>1, <3>2, <2>1, <2>2
  <2>4. OneRevocation'
    BY <2>1 DEF OneRevocation
  <2> QED  BY <2>3, <2>4
<1> QED  BY <1>1, <1>2, <1>3

LEMMA StStepPreserves == StInv /\ [StNext]_stVars => StInv'
<1> SUFFICES ASSUME StInv, [StNext]_stVars PROVE StInv'
  OBVIOUS
<1>1. CASE UNCHANGED stVars
  BY <1>1, OtherPreserves DEF stVars, serverTokens, listVars, generateVars, revokeVars,
     editVars, pwVarsOfPage, StInv, StTypeOK
<1>2. CASE StNext
  BY <1>2, ListPreserves, GeneratePreserves, EditPreserves, RevocationPreserves DEF StNext
<1> QED  BY <1>1, <1>2

LEMMA SettingsInvariant == StSpec => []StInv
<1> QED  BY StInitHolds, StStepPreserves, PTL DEF StSpec

(* The server's tokens, the page's list and its forms are of their types;   *)
(* the server holds no token that it did not issue.                         *)
THEOREM SettingsTypes == StSpec => []StTypeOK
<1>1. StInv => StTypeOK
  BY DEF StInv
<1> QED  BY SettingsInvariant, <1>1, PTL

(* There is one revocation under way at most, the page marks the row it is  *)
(* for, and the buttons work again when it is over, however it ended.       *)
THEOREM OneRevocationAtATime == StSpec => []RevocationIsExclusive
<1>1. StInv => RevocationIsExclusive
  <2> SUFFICES ASSUME StInv PROVE RevocationIsExclusive
    OBVIOUS
  <2> DEFINE inFlight == {v \in Revocation : revocation[v] # Nothing}
  <2>1. Cardinality(inFlight) <= 1
    <3>1. CASE inFlight = {}
      <4>1. Cardinality(inFlight) = 0
        BY <3>1, FS_EmptySet
      <4> QED  BY <4>1
    <3>2. CASE inFlight # {}
      <4>1. PICK v \in inFlight : inFlight = {v}
        BY <3>2 DEF StInv, OneRevocation
      <4>2. Cardinality(inFlight) = 1
        BY <4>1, FS_Singleton
      <4> QED  BY <4>2
    <3> QED  BY <3>1, <3>2
  <2>2. revokeInFlight = (inFlight # {})
    BY DEF StInv, StTypeOK, OneRevocation
  <2>3. revokeInFlight = (revokingId # NoToken)
    BY DEF StInv, StTypeOK, OneRevocation
  <2>4. \A v \in inFlight : revocation[v].token = revokingId
    BY DEF StInv, OneRevocation
  <2> QED  BY <2>1, <2>2, <2>3, <2>4 DEF RevocationIsExclusive
<1> QED  BY SettingsInvariant, <1>1, PTL
-----------------------------------------------------------------------------
(* Positions: facts about filtering that need no induction, because the     *)
(* position of an element of the result is counted.                         *)

RankIn(I, i) == Cardinality({j \in I : j <= i})

(* The positions of I are the first, the second and so on up to the last.   *)
LEMMA RanksCount ==
    ASSUME NEW n \in Nat, NEW I \in SUBSET (1 .. n)
    PROVE  /\ IsFiniteSet(I) /\ Cardinality(I) \in Nat
           /\ \A i \in I : RankIn(I, i) \in 1 .. Cardinality(I)
           /\ \A i, j \in I : i < j => RankIn(I, i) < RankIn(I, j)
           /\ \A k \in 1 .. Cardinality(I) : \E i \in I : RankIn(I, i) = k
<1> DEFINE c == Cardinality(I)
           Upto(i) == {j \in I : j <= i}
<1>0. \A i \in I : i \in Nat
  OBVIOUS
<1>1. IsFiniteSet(I) /\ c \in Nat
  <2>1. IsFiniteSet(1 .. n)
    BY FS_Interval
  <2>2. IsFiniteSet(I)
    BY <2>1, FS_Subset
  <2> QED
    BY <2>2, FS_CardinalityType
<1>2. \A i \in I : IsFiniteSet(Upto(i)) /\ Cardinality(Upto(i)) \in Nat
  <2> SUFFICES ASSUME NEW i \in I PROVE IsFiniteSet(Upto(i)) /\ Cardinality(Upto(i)) \in Nat
    OBVIOUS
  <2>1. Upto(i) \in SUBSET I
    OBVIOUS
  <2> QED
    BY <1>1, <2>1, FS_Subset, FS_CardinalityType
<1>3. ASSUME NEW i \in I PROVE RankIn(I, i) \in 1 .. c
  <2>1. Upto(i) \in SUBSET I /\ i \in Upto(i)
    OBVIOUS
  <2>2. Cardinality(Upto(i)) <= c
    BY <1>1, <2>1, FS_Subset
  <2>3. Cardinality(Upto(i)) # 0
    BY <1>2, <2>1, FS_EmptySet
  <2>4. RankIn(I, i) = Cardinality(Upto(i))
    BY DEF RankIn
  <2> HIDE DEF Upto, c
  <2> QED
    BY <1>1, <1>2, <2>2, <2>3, <2>4
<1>4. ASSUME NEW i \in I, NEW j \in I, i < j PROVE RankIn(I, i) < RankIn(I, j)
  <2>1. Upto(i) \in SUBSET Upto(j)
    <3>1. ASSUME NEW k \in I, k <= i PROVE k <= j
      <4>1. k \in Nat /\ i \in Nat /\ j \in Nat
        BY <1>0
      <4> QED
        BY <1>4, <3>1, <4>1
    <3> QED
      BY <3>1
  <2>2. j \in Upto(j) /\ j \notin Upto(i)
    BY <1>4
  <2>3. RankIn(I, i) = Cardinality(Upto(i)) /\ RankIn(I, j) = Cardinality(Upto(j))
    BY DEF RankIn
  <2> HIDE DEF Upto
  <2>4. Cardinality(Upto(i)) <= Cardinality(Upto(j)) /\ Cardinality(Upto(i)) # Cardinality(Upto(j))
    BY <1>2, <2>1, <2>2, FS_Subset
  <2> QED
    BY <1>2, <2>3, <2>4
<1>5. \A k \in 1 .. c : \E i \in I : RankIn(I, i) = k
  <2> DEFINE r == [i \in I |-> RankIn(I, i)]
  <2>1. r \in [I -> 1 .. c]
    BY <1>3
  <2>2. \A i, j \in I : r[i] = r[j] => i = j
    <3> SUFFICES ASSUME NEW i \in I, NEW j \in I, RankIn(I, i) = RankIn(I, j) PROVE i = j
      OBVIOUS
    <3>1. RankIn(I, i) \in 1 .. c
      BY <1>3
    <3> HIDE DEF c
    <3> QED
      BY <1>1, <1>4, <3>1
  <2>3. r \in Injection(I, 1 .. c)
    BY <2>1, <2>2 DEF Injection, IsInjective
  <2>4. IsFiniteSet(1 .. c) /\ Cardinality(1 .. c) = c
    <3> HIDE DEF c
    <3> QED
      BY <1>1, FS_Interval
  <2>5. r \in Surjection(I, 1 .. c)
    <3> HIDE DEF r
    <3> QED
      BY <2>3, <2>4, FS_Injection
  <2> QED
    BY <2>5 DEF Surjection
<1> QED
  BY <1>1, <1>3, <1>4, <1>5

(* What a subsequence is: the elements at the positions, each position      *)
(* taken once, the first one first.                                         *)
PicksFrom(p, s, I) ==
    /\ p \in [1 .. Cardinality(I) -> I]
    /\ SubsequenceAt(s, I) = [k \in 1 .. Cardinality(I) |-> s[p[k]]]
    /\ \A k, l \in 1 .. Cardinality(I) : p[k] = p[l] => k = l
    /\ \A i \in I : \E k \in 1 .. Cardinality(I) : p[k] = i
    /\ \A i \in I : Cardinality(I) # 0 => p[1] <= i

LEMMA SubsequencePicks ==
    ASSUME NEW n \in Nat, NEW I \in SUBSET (1 .. n), NEW s
    PROVE  /\ Cardinality(I) \in Nat /\ (Cardinality(I) = 0 <=> I = {})
           /\ \E p : PicksFrom(p, s, I)
<1> DEFINE c == Cardinality(I)
           p == [k \in 1 .. c |-> CHOOSE i \in I : RankIn(I, i) = k]
<1>0. \A i \in I : i \in Nat
  OBVIOUS
<1>1. c \in Nat /\ (c = 0 <=> I = {})
  BY RanksCount, FS_EmptySet
<1>2. \A k \in 1 .. c : p[k] \in I /\ RankIn(I, p[k]) = k
  BY RanksCount
<1>3. p \in [1 .. c -> I]
  BY <1>2
<1>4. SubsequenceAt(s, I) = [k \in 1 .. c |-> s[p[k]]]
  BY DEF SubsequenceAt, RankIn
<1>5. \A k, l \in 1 .. c : p[k] = p[l] => k = l
  <2> HIDE DEF p
  <2> QED
    BY <1>2
<1>6. \A i \in I : RankIn(I, i) \in 1 .. c /\ p[RankIn(I, i)] = i
  <2> SUFFICES ASSUME NEW i \in I PROVE RankIn(I, i) \in 1 .. c /\ p[RankIn(I, i)] = i
    OBVIOUS
  <2>1. RankIn(I, i) \in 1 .. c
    BY RanksCount
  <2>2. p[RankIn(I, i)] \in I /\ RankIn(I, p[RankIn(I, i)]) = RankIn(I, i)
    BY <1>2, <2>1
  <2> HIDE DEF p
  <2>3. ASSUME NEW j \in I, RankIn(I, j) = RankIn(I, i) PROVE j = i
    <3>1. i \in Nat /\ j \in Nat
      BY <1>0
    <3>2. RankIn(I, i) \in Nat
      <4> HIDE DEF c
      <4> QED
        BY <1>1, <2>1
    <3>3. i < j => RankIn(I, i) < RankIn(I, j)
      BY RanksCount
    <3>4. j < i => RankIn(I, j) < RankIn(I, i)
      BY RanksCount
    <3> QED
      BY <2>3, <3>1, <3>2, <3>3, <3>4
  <2> QED
    BY <2>1, <2>2, <2>3
<1>7. ASSUME NEW i \in I, c # 0 PROVE p[1] <= i
  <2>1. 1 \in 1 .. c
    BY <1>1, <1>7
  <2>2. p[1] \in I /\ RankIn(I, p[1]) = 1
    BY <1>2, <2>1
  <2>3. RankIn(I, i) \in 1 .. c
    BY RanksCount
  <2> HIDE DEF p, c
  <2>4. ~(RankIn(I, i) < 1)
    BY <1>1, <2>3
  <2>5. ~(i < p[1])
    BY <2>2, <2>4, RanksCount
  <2>6. i \in Nat /\ p[1] \in Nat
    BY <1>0, <2>2
  <2> QED
    BY <2>5, <2>6
<1> HIDE DEF p, c
<1>8. \A i \in I : \E k \in 1 .. c : p[k] = i
  BY <1>6
<1>9. PicksFrom(p, s, I)
  BY <1>3, <1>4, <1>5, <1>7, <1>8 DEF c, PicksFrom
<1> QED
  BY <1>1, <1>9 DEF c

LEMMA SequenceOfFunction ==
    ASSUME NEW c \in Nat, NEW T, NEW t, DOMAIN t = 1 .. c, t = [k \in 1 .. c |-> t[k]],
           \A k \in 1 .. c : t[k] \in T
    PROVE  t \in Seq(T) /\ Len(t) = c
<1>1. t \in [1 .. c -> T]
  BY Zenon
<1> QED
  BY <1>1

(* A subsequence holds the elements at its positions, and each once if they *)
(* differ there.                                                            *)
IsSubsequence(t, s, I, T) ==
    /\ t \in Seq(T)
    /\ Range(t) = {s[i] : i \in I}
    /\ t = <<>> <=> I = {}
    /\ (\A i, j \in I : s[i] = s[j] => i = j) => IsInjective(t)
    /\ I # {} => \E i \in I : t[1] = s[i] /\ \A j \in I : i <= j

LEMMA Subsequences ==
    ASSUME NEW n \in Nat, NEW I \in SUBSET (1 .. n), NEW s, NEW T, \A i \in I : s[i] \in T
    PROVE  IsSubsequence(SubsequenceAt(s, I), s, I, T)
<1> DEFINE c == Cardinality(I)
           t == SubsequenceAt(s, I)
<1>1. c \in Nat /\ (c = 0 <=> I = {})
  BY SubsequencePicks
<1>0. PICK p : PicksFrom(p, s, I)
  BY SubsequencePicks
<1>2. /\ p \in [1 .. c -> I]
      /\ t = [k \in 1 .. c |-> s[p[k]]]
      /\ \A k, l \in 1 .. c : p[k] = p[l] => k = l
      /\ \A i \in I : \E k \in 1 .. c : p[k] = i
      /\ \A i \in I : c # 0 => p[1] <= i
  BY <1>0, Zenon DEF PicksFrom
<1> HIDE DEF c, t
<1>3. DOMAIN t = 1 .. c /\ \A k \in 1 .. c : t[k] = s[p[k]] /\ p[k] \in I
  BY <1>2
<1>4. t \in Seq(T) /\ Len(t) = c
  <2>1. t = [k \in 1 .. c |-> t[k]]
    BY <1>2
  <2>2. \A k \in 1 .. c : t[k] \in T
    BY <1>3
  <2> QED
    BY <1>1, <1>3, <2>1, <2>2, SequenceOfFunction
<1>5. Range(t) = {s[i] : i \in I}
  <2>1. ASSUME NEW x \in Range(t) PROVE x \in {s[i] : i \in I}
    <3>1. PICK k \in 1 .. c : x = t[k]
      BY <1>3 DEF Range
    <3> QED
      BY <1>3, <3>1
  <2>2. ASSUME NEW i \in I PROVE s[i] \in Range(t)
    BY <1>2, <1>3 DEF Range
  <2> QED
    BY <2>1, <2>2
<1>6. t = <<>> <=> I = {}
  BY <1>1, <1>4
<1>7. ASSUME \A i, j \in I : s[i] = s[j] => i = j PROVE IsInjective(t)
  <2>1. ASSUME NEW k \in 1 .. c, NEW l \in 1 .. c, t[k] = t[l] PROVE k = l
    <3>1. p[k] \in I /\ p[l] \in I /\ s[p[k]] = s[p[l]]
      BY <1>3, <2>1
    <3>2. p[k] = p[l]
      BY <1>7, <3>1
    <3> QED
      BY <1>2, <3>2
  <2> QED
    BY <1>3, <2>1 DEF IsInjective
<1>8. ASSUME I # {} PROVE \E i \in I : t[1] = s[i] /\ \A j \in I : i <= j
  <2>1. c # 0
    BY <1>1, <1>8
  <2>2. 1 \in 1 .. c
    BY <1>1, <2>1
  <2>3. p[1] \in I /\ t[1] = s[p[1]]
    BY <1>3, <2>2
  <2>4. \A i \in I : p[1] <= i
    BY <1>2, <2>1
  <2> QED
    BY <2>3, <2>4
<1> QED
  BY <1>4, <1>5, <1>6, <1>7, <1>8 DEF t, IsSubsequence

LEMMA WithoutElement ==
    ASSUME NEW T, NEW s \in Seq(T), NEW e
    PROVE  /\ Without(s, e) \in Seq(T)
           /\ Range(Without(s, e)) = Range(s) \ {e}
           /\ IsInjective(s) => IsInjective(Without(s, e))
<1> DEFINE I == {i \in DOMAIN s : s[i] # e}
<1>1. Len(s) \in Nat /\ DOMAIN s = 1 .. Len(s) /\ \A i \in DOMAIN s : s[i] \in T
  OBVIOUS
<1>2. I \in SUBSET (1 .. Len(s)) /\ \A i \in I : s[i] \in T
  BY <1>1
<1>3. Without(s, e) = SubsequenceAt(s, I)
  BY DEF Without
<1>4. {s[i] : i \in I} = Range(s) \ {e}
  BY DEF Range
<1>5. IsInjective(s) => \A i, j \in I : s[i] = s[j] => i = j
  BY DEF IsInjective
<1> HIDE DEF I
<1>6. IsSubsequence(SubsequenceAt(s, I), s, I, T)
  BY <1>1, <1>2, Subsequences
<1> QED
  BY <1>3, <1>4, <1>5, <1>6 DEF IsSubsequence

LEMMA FirstIndex ==
    ASSUME NEW T, NEW s \in Seq(T), NEW e \in Range(s)
    PROVE  IndexOf(s, e) \in 1 .. Len(s) /\ s[IndexOf(s, e)] = e
<1> DEFINE I == {i \in DOMAIN s : s[i] = e}
<1>1. Len(s) \in Nat /\ DOMAIN s = 1 .. Len(s) /\ \A i \in DOMAIN s : s[i] \in T
  OBVIOUS
<1>2. I \in SUBSET (1 .. Len(s)) /\ I # {} /\ \A i \in I : s[i] \in T
  BY <1>1 DEF Range
<1>3. \E i \in I : \A j \in I : i <= j
  <2> HIDE DEF I
  <2> QED
    BY <1>1, <1>2, Subsequences DEF IsSubsequence
<1>4. \E i \in DOMAIN s : s[i] = e /\ \A j \in DOMAIN s : s[j] = e => i <= j
  BY <1>3
<1> QED
  BY <1>1, <1>4 DEF IndexOf

-----------------------------------------------------------------------------
(* DashboardLayout.                                                         *)

IsClean(l) == IsLayouts(l) /\ \A bp \in DOMAIN l : IsInjective(l[bp])
Avoids(l, R) == \A bp \in DOMAIN l : Range(l[bp]) \cap R = {}

(* What is stored shows no removed widget, whenever it will be loaded; nor  *)
(* does the grid.                                                           *)
DlInv ==
    /\ DlTypeOK
    /\ Avoids(ParseStoredLayouts(storedLayouts), removedIds)
    /\ Ready => Avoids(layouts, removedIds)

LEMMA SequenceMembers ==
    ASSUME NEW T, NEW s \in Seq(T)
    PROVE  /\ Len(s) \in Nat /\ DOMAIN s = 1 .. Len(s)
           /\ \A i \in DOMAIN s : s[i] \in T
           /\ Range(s) \in SUBSET T
<1>1. Len(s) \in Nat /\ DOMAIN s = 1 .. Len(s) /\ \A i \in DOMAIN s : s[i] \in T
  OBVIOUS
<1> QED
  BY <1>1 DEF Range

(* cleanItems keeps known ids of the list, each once.                       *)
LEMMA CleanItemsFacts ==
    ASSUME NEW items \in Seq(Item)
    PROVE  /\ CleanItems(items) \in Seq(WidgetId) /\ IsInjective(CleanItems(items))
           /\ \A w \in Range(CleanItems(items)) : \E i \in DOMAIN items : items[i].id = w
<1> DEFINE first == {i \in Usable(items) :
                       \A j \in Usable(items) : j < i => items[j].id # items[i].id}
           ids == [i \in DOMAIN items |-> items[i].id]
<1>1. Len(items) \in Nat /\ DOMAIN items = 1 .. Len(items)
  BY SequenceMembers
<1>2. first \in SUBSET (1 .. Len(items)) /\ \A i \in first : i \in Usable(items) /\ i \in Nat
  BY <1>1 DEF Usable
<1>3. \A i \in first : ids[i] = items[i].id /\ ids[i] \in WidgetId
  BY <1>2 DEF Usable
<1>4. ASSUME NEW i \in first, NEW j \in first, ids[i] = ids[j] PROVE i = j
  <2>1. ~(i < j) /\ ~(j < i)
    BY <1>2, <1>3, <1>4
  <2> QED
    BY <1>2, <2>1
<1>5. CleanItems(items) = SubsequenceAt(ids, first)
  BY DEF CleanItems, IdsAt
<1> HIDE DEF first, ids
<1>6. IsSubsequence(SubsequenceAt(ids, first), ids, first, WidgetId)
  BY <1>1, <1>2, <1>3, Subsequences
<1>7. first \subseteq DOMAIN items
  BY <1>1, <1>2
<1> QED
  BY <1>3, <1>4, <1>5, <1>6, <1>7 DEF IsSubsequence

(* What comes out of the storage is clean, whatever was in it.              *)
LEMMA ParsedIsClean ==
    ASSUME NEW raw, IsStored(raw)
    PROVE  IsClean(ParseStoredLayouts(raw))
<1> DEFINE source == CASE raw.format = "layouts" -> raw.of
                       [] raw.format = "legacy" -> [bp \in {Widest} |-> raw.items]
                       [] OTHER -> <<>>
           usable == {bp \in DOMAIN source \cap Bp : CleanItems(source[bp]) # <<>>}
<1>1. \A bp \in DOMAIN source : source[bp] \in Seq(Item)
  <2>1. CASE raw.format = "layouts"
    BY <2>1 DEF IsStored
  <2>2. CASE raw.format = "legacy"
    BY <2>2 DEF IsStored
  <2>3. CASE raw.format # "layouts" /\ raw.format # "legacy"
    <3>1. source = <<>>
      BY <2>3
    <3> QED
      BY <3>1
  <2> QED
    BY <2>1, <2>2, <2>3
<1>2. ParseStoredLayouts(raw) = [bp \in usable |-> CleanItems(source[bp])]
  BY DEF ParseStoredLayouts
<1> HIDE DEF source
<1> QED
  BY <1>1, <1>2, CleanItemsFacts DEF IsClean, IsLayouts

(* Layouts that are written and read back show no other widgets.            *)
LEMMA ReadBack ==
    ASSUME NEW l, IsClean(l), NEW R, Avoids(l, R)
    PROVE  LET raw == Layouts([bp \in DOMAIN l |-> Items(l[bp])])
           IN  IsStored(raw) /\ Avoids(ParseStoredLayouts(raw), R)
<1> DEFINE f == [bp \in DOMAIN l |-> Items(l[bp])]
           raw == Layouts(f)
<1>1. raw.format = "layouts" /\ raw.of = f
  BY DEF Layouts
<1>2. ASSUME NEW bp \in DOMAIN l
      PROVE  /\ Items(l[bp]) \in Seq(Item)
             /\ \A w \in Range(CleanItems(Items(l[bp]))) : w \in Range(l[bp])
  <2>1. l[bp] \in Seq(WidgetId)
    BY <1>2 DEF IsClean, IsLayouts
  <2> DEFINE s == l[bp]
             t == Items(s)
  <2>2. Len(s) \in Nat /\ DOMAIN s = 1 .. Len(s) /\ \A i \in DOMAIN s : s[i] \in WidgetId
    BY <2>1, SequenceMembers
  <2>3. \A i \in DOMAIN s : [id |-> s[i], sound |-> TRUE] \in Item
    BY <2>2 DEF Item
  <2>4. DOMAIN t = 1 .. Len(s) /\ t = [k \in 1 .. Len(s) |-> t[k]]
        /\ \A k \in 1 .. Len(s) : t[k] \in Item /\ t[k].id = s[k]
    BY <2>2, <2>3 DEF Items
  <2> HIDE DEF t
  <2>5. t \in Seq(Item)
    BY <2>2, <2>4, SequenceOfFunction
  <2>6. \A w \in Range(CleanItems(t)) : \E i \in DOMAIN t : t[i].id = w
    BY <2>5, CleanItemsFacts
  <2>7. ASSUME NEW w \in Range(CleanItems(t)) PROVE w \in Range(s)
    <3>1. PICK i \in DOMAIN t : t[i].id = w
      BY <2>6
    <3>2. i \in DOMAIN s /\ s[i] = w
      BY <2>2, <2>4, <3>1
    <3> QED
      BY <3>2 DEF Range
  <2> QED
    BY <2>5, <2>7 DEF t
<1>3. f = [bp \in DOMAIN l |-> Items(l[bp])] /\ DOMAIN f = DOMAIN l
  OBVIOUS
<1>4. IsStored(raw)
  <2> HIDE DEF raw
  <2> QED
    BY <1>1, <1>2 DEF IsStored
<1>5. ParseStoredLayouts(raw) = [bp \in {bp \in DOMAIN f \cap Bp : CleanItems(f[bp]) # <<>>}
                                   |-> CleanItems(f[bp])]
  <2> HIDE DEF raw, f
  <2> QED
    BY <1>1 DEF ParseStoredLayouts
<1>6. Avoids(ParseStoredLayouts(raw), R)
  <2> SUFFICES ASSUME NEW bp \in DOMAIN ParseStoredLayouts(raw)
               PROVE  Range(ParseStoredLayouts(raw)[bp]) \cap R = {}
    BY DEF Avoids
  <2>1. bp \in DOMAIN l /\ ParseStoredLayouts(raw)[bp] = CleanItems(Items(l[bp]))
    <3> HIDE DEF raw
    <3> QED
      BY <1>5
  <2> HIDE DEF raw
  <2> QED
    BY <1>2, <2>1 DEF Avoids
<1> QED
  BY <1>4, <1>6

LEMMA SavedAvoids ==
    ASSUME IsStored(storedLayouts), NEW R, Avoids(ParseStoredLayouts(storedLayouts), R),
           NEW l, IsClean(l), Avoids(l, R)
    PROVE  IsStored(Saved(l)) /\ Avoids(ParseStoredLayouts(Saved(l)), R)
<1>1. CASE storage = "works"
  BY <1>1, ReadBack DEF Saved
<1>2. CASE storage # "works"
  BY <1>2 DEF Saved
<1> QED
  BY <1>1, <1>2

(* The widgets on the screen are those of one breakpoint.                   *)
LEMMA ShownWidgets ==
    ASSUME NEW l, IsClean(l)
    PROVE  /\ WidgetIdsOf(l) \in Seq(WidgetId) /\ IsInjective(WidgetIdsOf(l))
           /\ Range(WidgetIdsOf(l)) \in SUBSET WidgetId
           /\ \A R : Avoids(l, R) => Range(WidgetIdsOf(l)) \cap R = {}
<1> DEFINE I == {i \in DOMAIN Breakpoints :
                   Breakpoints[i] \in DOMAIN l /\ l[Breakpoints[i]] # <<>>}
           filled == SubsequenceAt(Breakpoints, I)
<1>1. /\ Len(Breakpoints) \in Nat /\ DOMAIN Breakpoints = 1 .. Len(Breakpoints)
      /\ \A i \in DOMAIN Breakpoints : Breakpoints[i] \in Bp
  BY LayoutAssumption, SequenceMembers
<1>2. I \in SUBSET (1 .. Len(Breakpoints)) /\ \A i \in I : Breakpoints[i] \in Bp
  BY <1>1
<1>3. IsSubsequence(filled, Breakpoints, I, Bp)
  <2> HIDE DEF I
  <2> QED
    BY <1>1, <1>2, Subsequences
<1>4. WidgetIdsOf(l) = IF filled = <<>> THEN <<>> ELSE l[filled[1]]
  BY DEF WidgetIdsOf
<1>5. filled # <<>> => \E i \in I : filled[1] = Breakpoints[i]
  <2> HIDE DEF I, filled
  <2> QED
    BY <1>3 DEF IsSubsequence
<1>6. filled # <<>> => filled[1] \in DOMAIN l
  BY <1>5
<1> HIDE DEF I, filled
<1>7. CASE filled = <<>>
  <2>1. WidgetIdsOf(l) = <<>>
    BY <1>4, <1>7
  <2>2. <<>> \in Seq(WidgetId) /\ Range(<<>>) = {} /\ IsInjective(<<>>)
    BY DEF Range, IsInjective
  <2> QED
    BY <2>1, <2>2
<1>8. CASE filled # <<>>
  <2>1. filled[1] \in DOMAIN l /\ WidgetIdsOf(l) = l[filled[1]]
    BY <1>4, <1>6, <1>8
  <2>2. WidgetIdsOf(l) \in Seq(WidgetId) /\ IsInjective(WidgetIdsOf(l))
    BY <2>1 DEF IsClean, IsLayouts
  <2>3. Range(WidgetIdsOf(l)) \in SUBSET WidgetId
    BY <2>2, SequenceMembers
  <2>4. \A R : Avoids(l, R) => Range(WidgetIdsOf(l)) \cap R = {}
    BY <2>1 DEF Avoids
  <2> QED
    BY <2>2, <2>3, <2>4
<1> QED
  BY <1>7, <1>8

LEMMA WidestIsOne == Widest \in Bp
<1>1. Len(Breakpoints) \in Nat /\ Breakpoints # <<>>
  BY LayoutAssumption
<1>2. 1 \in DOMAIN Breakpoints
  BY LayoutAssumption, <1>1
<1> QED
  BY <1>2 DEF Widest, Bp, Range

LEMMA DefaultsAreClean == IsClean(DefaultLayouts)
  BY LayoutAssumption, WidestIsOne DEF DefaultLayouts, IsClean, IsLayouts

LEMMA RemovedFromAll ==
    ASSUME NEW l, IsClean(l), NEW w, NEW R, Avoids(l, R)
    PROVE  IsClean(RemoveWidget(l, w)) /\ Avoids(RemoveWidget(l, w), R \cup {w})
<1> DEFINE next == RemoveWidget(l, w)
<1>1. DOMAIN next = DOMAIN l /\ \A bp \in DOMAIN l : next[bp] = Without(l[bp], w)
  BY DEF RemoveWidget
<1> HIDE DEF next
<1>2. ASSUME NEW bp \in DOMAIN l
      PROVE  /\ next[bp] \in Seq(WidgetId) /\ IsInjective(next[bp])
             /\ Range(next[bp]) = Range(l[bp]) \ {w}
  <2>1. l[bp] \in Seq(WidgetId) /\ IsInjective(l[bp])
    BY DEF IsClean, IsLayouts
  <2> QED
    BY <1>1, <2>1, WithoutElement
<1>3. IsClean(next)
  BY <1>1, <1>2 DEF IsClean, IsLayouts
<1>4. Avoids(next, R \cup {w})
  BY <1>1, <1>2 DEF Avoids
<1> QED
  BY <1>3, <1>4 DEF next

LEMMA AppendedElement ==
    ASSUME NEW T, NEW s \in Seq(T), NEW w \in T, IsInjective(s), w \notin Range(s)
    PROVE  /\ Append(s, w) \in Seq(T) /\ IsInjective(Append(s, w))
           /\ Range(Append(s, w)) = Range(s) \cup {w}
<1> DEFINE n == Len(s)
           t == Append(s, w)
<1>1. n \in Nat /\ DOMAIN s = 1 .. n
  BY SequenceMembers
<1>2. t \in Seq(T) /\ DOMAIN t = 1 .. n + 1 /\ t[n + 1] = w /\ \A i \in 1 .. n : t[i] = s[i]
  BY <1>1
<1> HIDE DEF n, t
<1>3. \A i \in 1 .. n + 1 : i \in 1 .. n \/ i = n + 1
  BY <1>1
<1>4. \A i \in 1 .. n : s[i] # w /\ i \in 1 .. n + 1
  BY <1>1 DEF Range
<1>5. IsInjective(t)
  BY <1>1, <1>2, <1>3, <1>4 DEF IsInjective
<1>6. Range(t) = Range(s) \cup {w}
  <2>1. ASSUME NEW x \in Range(t) PROVE x \in Range(s) \cup {w}
    BY <1>1, <1>2, <1>3 DEF Range
  <2>2. ASSUME NEW x \in Range(s) PROVE x \in Range(t)
    BY <1>1, <1>2, <1>4 DEF Range
  <2>3. n + 1 \in 1 .. n + 1
    BY <1>1
  <2>4. w \in Range(t)
    BY <1>2, <2>3 DEF Range
  <2> QED
    BY <2>1, <2>2, <2>4
<1> QED
  BY <1>2, <1>5, <1>6 DEF t

LEMMA AddedToAll ==
    ASSUME NEW l, IsClean(l), NEW w \in WidgetId, NEW R, Avoids(l, R)
    PROVE  IsClean(AddWidget(l, w)) /\ Avoids(AddWidget(l, w), R \ {w})
<1> DEFINE at(bp) == IF bp \in DOMAIN l THEN l[bp] ELSE <<>>
           dom == IF DOMAIN l = {} THEN {Widest} ELSE DOMAIN l
           next == AddWidget(l, w)
<1>1. /\ DOMAIN next = dom
      /\ \A bp \in dom : next[bp] = IF w \in Range(at(bp)) THEN at(bp) ELSE Append(at(bp), w)
  BY DEF AddWidget
<1>2. dom \in SUBSET Bp
  BY WidestIsOne DEF IsClean, IsLayouts
<1>3. ASSUME NEW bp \in dom
      PROVE  at(bp) \in Seq(WidgetId) /\ IsInjective(at(bp)) /\ Range(at(bp)) \cap R = {}
  <2>1. CASE bp \in DOMAIN l
    BY <2>1 DEF IsClean, IsLayouts, Avoids
  <2>2. CASE bp \notin DOMAIN l
    <3>1. <<>> \in Seq(WidgetId) /\ Range(<<>>) = {} /\ IsInjective(<<>>)
      BY DEF Range, IsInjective
    <3> QED
      BY <2>2, <3>1
  <2> QED
    BY <2>1, <2>2
<1> HIDE DEF next, dom, at
<1>4. ASSUME NEW bp \in dom
      PROVE  /\ next[bp] \in Seq(WidgetId) /\ IsInjective(next[bp])
             /\ Range(next[bp]) = Range(at(bp)) \cup {w}
  <2>1. CASE w \in Range(at(bp))
    BY <1>1, <1>3, <2>1
  <2>2. CASE w \notin Range(at(bp))
    <3>1. next[bp] = Append(at(bp), w)
      BY <1>1, <2>2
    <3>2. ASSUME NEW s, s = at(bp)
          PROVE  /\ Append(s, w) \in Seq(WidgetId) /\ IsInjective(Append(s, w))
                 /\ Range(Append(s, w)) = Range(s) \cup {w}
      <4>1. s \in Seq(WidgetId) /\ IsInjective(s) /\ w \notin Range(s)
        BY <1>3, <2>2, <3>2
      <4> QED
        BY <4>1, AppendedElement
    <3> QED
      BY <3>1, <3>2
  <2> QED
    BY <2>1, <2>2
<1>5. IsClean(next)
  BY <1>1, <1>2, <1>4 DEF IsClean, IsLayouts
<1>6. Avoids(next, R \ {w})
  BY <1>1, <1>3, <1>4 DEF Avoids
<1> QED
  BY <1>5, <1>6 DEF next

(* Mounting: what is loaded is what was stored, or the defaults and then no *)
(* removal is remembered.                                                   *)
LEMMA GridLoadsKeeps ==
    ASSUME NEW raw, IsStored(raw), NEW R \in SUBSET WidgetId,
           Avoids(ParseStoredLayouts(raw), R), GridLoads(raw, R)
    PROVE  /\ IsStored(storedLayouts') /\ removedIds' \in SUBSET WidgetId
           /\ IsClean(layouts')
           /\ Avoids(ParseStoredLayouts(storedLayouts'), removedIds')
           /\ Avoids(layouts', removedIds')
<1> DEFINE loaded == IF storage = "blocked" THEN <<>> ELSE ParseStoredLayouts(raw)
<1>1. /\ storedLayouts' = raw
      /\ layouts' = IF DOMAIN loaded # {} THEN loaded ELSE DefaultLayouts
      /\ removedIds' = IF DOMAIN loaded # {} THEN R ELSE {}
  BY DEF GridLoads
<1>2. DOMAIN loaded # {} => loaded = ParseStoredLayouts(raw)
  OBVIOUS
<1> HIDE DEF loaded
<1>3. CASE DOMAIN loaded # {}
  BY <1>1, <1>2, <1>3, ParsedIsClean
<1>4. CASE DOMAIN loaded = {}
  <2>1. \A l : Avoids(l, {})
    BY DEF Avoids
  <2> QED
    BY <1>1, <1>4, <2>1, DefaultsAreClean
<1> QED
  BY <1>3, <1>4

LEMMA DlInitHolds == DlInit => DlInv
<1> SUFFICES ASSUME DlInit PROVE DlInv
  OBVIOUS
<1>1. DlTypeOK
  <2>1. IsStored(storedLayouts) /\ DefaultCols \in ColCounts
    BY LayoutAssumption DEF DlInit
  <2>2. DOMAIN layouts = {}
    BY DEF DlInit
  <2> QED
    BY <2>1, <2>2, WidestIsOne DEF DlInit, DlTypeOK, IsLayouts
<1>2. Avoids(ParseStoredLayouts(storedLayouts), removedIds)
  BY DEF DlInit, Avoids
<1> QED
  BY <1>1, <1>2 DEF DlInv, DlInit, Ready

(* What every grid action relies on, and what it must give back.            *)
GridOK ==
    /\ IsStored(storedLayouts) /\ IsClean(layouts) /\ removedIds \in SUBSET WidgetId
    /\ Avoids(ParseStoredLayouts(storedLayouts), removedIds)
    /\ Ready => Avoids(layouts, removedIds)
PageOK ==
    /\ dlPage \in {"checking", "ready", "login"}
    /\ storage \in {"works", "full", "blocked"}
    /\ cols \in ColCounts /\ storedCols \in ColCounts \cup {0}
    /\ viewport \in Bp

LEMMA DlInvParts == (DlInv => PageOK /\ GridOK) /\ (PageOK' /\ GridOK' => DlInv')
  BY DEF DlInv, DlTypeOK, PageOK, GridOK, IsClean

LEMMA MountingKeeps ==
    ASSUME NEW raw, IsStored(raw), NEW R \in SUBSET WidgetId,
           Avoids(ParseStoredLayouts(raw), R), GridLoads(raw, R)
    PROVE  GridOK'
  BY GridLoadsKeeps DEF GridOK

LEMMA AuthCheckedKeeps ==
    ASSUME DlInv, NEW signedIn \in BOOLEAN, AuthChecked(signedIn) PROVE DlInv'
<1>1. PageOK /\ GridOK
  BY DlInvParts
<1>2. PageOK'
  BY <1>1 DEF AuthChecked, PageOK, GridLoads
<1>3. CASE signedIn /\ storage # "blocked"
  <2>1. GridLoads(storedLayouts, removedIds)
    BY <1>3 DEF AuthChecked
  <2>2. GridOK'
    BY <1>1, <2>1, MountingKeeps DEF GridOK
  <2> QED
    BY <1>2, <2>2, DlInvParts
<1>4. CASE ~(signedIn /\ storage # "blocked")
  <2>1. dlPage' = "login" /\ UNCHANGED gridVars
    BY <1>4 DEF AuthChecked
  <2>2. GridOK'
    BY <1>1, <2>1 DEF GridOK, gridVars, Ready
  <2> QED
    BY <1>2, <2>2, DlInvParts
<1> QED
  BY <1>3, <1>4

(* Layouts that the grid sets and saves.                                    *)
LEMMA SavingKeeps ==
    ASSUME GridOK, Ready, NEW l, IsClean(l), NEW R \in SUBSET WidgetId, Avoids(l, R),
           Avoids(ParseStoredLayouts(Saved(l)), R),
           layouts' = l, storedLayouts' = Saved(l), removedIds' = R
    PROVE  GridOK'
<1>1. IsStored(Saved(l))
  <2>1. Avoids(ParseStoredLayouts(storedLayouts), {}) /\ Avoids(l, {})
    BY DEF Avoids
  <2> QED
    BY <2>1, SavedAvoids DEF GridOK
<1> QED
  BY <1>1 DEF GridOK

LEMMA LayoutChangeKeeps == ASSUME DlInv, HandleLayoutChange PROVE DlInv'
<1>1. PageOK /\ GridOK /\ Ready
  BY DlInvParts DEF HandleLayoutChange
<1>2. PageOK'
  BY <1>1 DEF HandleLayoutChange, PageOK
<1> DEFINE all == [b \in DOMAIN layouts \cup {viewport} |->
                     IF b = viewport THEN WidgetIdsOf(layouts) ELSE layouts[b]]
<1>3. IsClean(all) /\ Avoids(all, removedIds)
  <2>1. /\ WidgetIdsOf(layouts) \in Seq(WidgetId) /\ IsInjective(WidgetIdsOf(layouts))
        /\ Range(WidgetIdsOf(layouts)) \cap removedIds = {}
    BY <1>1, ShownWidgets DEF GridOK
  <2>2. viewport \in Bp
    BY <1>1 DEF PageOK
  <2> QED
    BY <1>1, <2>1, <2>2 DEF GridOK, IsClean, IsLayouts, Avoids
<1>4. layouts' = all /\ storedLayouts' = Saved(all) /\ removedIds' = removedIds
  BY DEF HandleLayoutChange
<1> HIDE DEF all
<1>5. Avoids(ParseStoredLayouts(Saved(all)), removedIds) /\ removedIds \in SUBSET WidgetId
  BY <1>1, <1>3, SavedAvoids DEF GridOK
<1>6. GridOK'
  BY <1>1, <1>3, <1>4, <1>5, SavingKeeps
<1> QED
  BY <1>2, <1>6, DlInvParts

LEMMA BreakpointKeeps == ASSUME DlInv, NEW bp \in Bp, BreakpointChanges(bp) PROVE DlInv'
<1>1. PageOK /\ GridOK /\ Ready
  BY DlInvParts DEF BreakpointChanges
<1>2. PageOK'
  BY <1>1 DEF BreakpointChanges, PageOK
<1> DEFINE all == [b \in DOMAIN layouts \cup {bp, viewport} |->
                     IF b = bp \/ b \notin DOMAIN layouts THEN WidgetIdsOf(layouts)
                     ELSE layouts[b]]
<1>3. IsClean(all) /\ Avoids(all, removedIds)
  <2>1. /\ WidgetIdsOf(layouts) \in Seq(WidgetId) /\ IsInjective(WidgetIdsOf(layouts))
        /\ Range(WidgetIdsOf(layouts)) \cap removedIds = {}
    BY <1>1, ShownWidgets DEF GridOK
  <2>2. viewport \in Bp
    BY <1>1 DEF PageOK
  <2> QED
    BY <1>1, <2>1, <2>2 DEF GridOK, IsClean, IsLayouts, Avoids
<1>4. layouts' = all /\ storedLayouts' = Saved(all) /\ removedIds' = removedIds
  BY DEF BreakpointChanges
<1> HIDE DEF all
<1>5. Avoids(ParseStoredLayouts(Saved(all)), removedIds) /\ removedIds \in SUBSET WidgetId
  BY <1>1, <1>3, SavedAvoids DEF GridOK
<1>6. GridOK'
  BY <1>1, <1>3, <1>4, <1>5, SavingKeeps
<1> QED
  BY <1>2, <1>6, DlInvParts

LEMMA OnRemoveKeeps == ASSUME DlInv, NEW w \in WidgetId, OnRemove(w) PROVE DlInv'
<1>1. PageOK /\ GridOK /\ Ready
  BY DlInvParts DEF OnRemove
<1>2. PageOK'
  BY <1>1 DEF OnRemove, PageOK
<1> DEFINE next == RemoveWidget(layouts, w)
<1>3. /\ layouts' = next /\ storedLayouts' = Saved(next)
      /\ removedIds' = IF storage = "works" THEN removedIds \cup {w} ELSE removedIds
  BY DEF OnRemove
<1>4. IsClean(next) /\ Avoids(next, removedIds \cup {w})
  BY <1>1, RemovedFromAll DEF GridOK
<1> HIDE DEF next
<1>5. /\ removedIds' \in SUBSET WidgetId
      /\ Avoids(next, removedIds')
  BY <1>1, <1>3, <1>4 DEF GridOK, Avoids
<1>6. Avoids(ParseStoredLayouts(Saved(next)), removedIds')
  <2>1. CASE storage = "works"
    <3>1. Saved(next) = Layouts([bp \in DOMAIN next |-> Items(next[bp])])
      BY <2>1 DEF Saved
    <3> QED
      BY <1>4, <1>5, <3>1, ReadBack
  <2>2. CASE storage # "works"
    BY <1>1, <1>3, <2>2 DEF Saved, GridOK
  <2> QED
    BY <2>1, <2>2
<1>7. GridOK'
  BY <1>1, <1>3, <1>4, <1>5, <1>6, SavingKeeps
<1> QED
  BY <1>2, <1>7, DlInvParts

LEMMA AddWidgetKeeps == ASSUME DlInv, NEW w \in WidgetId, HandleAddWidget(w) PROVE DlInv'
<1>1. PageOK /\ GridOK /\ Ready
  BY DlInvParts DEF HandleAddWidget
<1>2. PageOK'
  BY <1>1 DEF HandleAddWidget, PageOK, GridLoads
<1> DEFINE current == IF DOMAIN LoadLayouts = {} THEN DefaultLayouts ELSE LoadLayouts
           undone == IF DOMAIN LoadLayouts = {} THEN {} ELSE removedIds \ {w}
           added == AddWidget(current, w)
<1>3. GridLoads(Saved(added), undone)
  BY DEF HandleAddWidget
<1>4. /\ undone \in SUBSET WidgetId /\ undone \in SUBSET removedIds
      /\ IsClean(added) /\ Avoids(added, undone)
  <2>1. CASE DOMAIN LoadLayouts = {}
    <3>1. current = DefaultLayouts /\ undone = {}
      BY <2>1
    <3>2. IsClean(AddWidget(DefaultLayouts, w))
      <4>1. Avoids(DefaultLayouts, {})
        BY DEF Avoids
      <4> QED
        BY <4>1, DefaultsAreClean, AddedToAll
    <3> QED
      BY <3>1, <3>2 DEF Avoids
  <2>2. CASE DOMAIN LoadLayouts # {}
    <3>1. current = ParseStoredLayouts(storedLayouts) /\ undone = removedIds \ {w}
      <4>1. LoadLayouts = ParseStoredLayouts(storedLayouts)
        BY <2>2 DEF LoadLayouts
      <4> QED
        BY <2>2, <4>1
    <3>2. IsClean(ParseStoredLayouts(storedLayouts))
      BY <1>1, ParsedIsClean DEF GridOK
    <3>3. /\ IsClean(AddWidget(ParseStoredLayouts(storedLayouts), w))
          /\ Avoids(AddWidget(ParseStoredLayouts(storedLayouts), w), removedIds \ {w})
      BY <1>1, <3>2, AddedToAll DEF GridOK
    <3> QED
      BY <1>1, <3>1, <3>3 DEF GridOK
  <2> QED
    BY <2>1, <2>2
<1> HIDE DEF added, undone
<1>5. Avoids(ParseStoredLayouts(storedLayouts), undone)
  BY <1>1, <1>4 DEF GridOK, Avoids
<1>6. IsStored(Saved(added)) /\ Avoids(ParseStoredLayouts(Saved(added)), undone)
  BY <1>1, <1>4, <1>5, SavedAvoids DEF GridOK
<1>7. GridOK'
  BY <1>3, <1>4, <1>6, MountingKeeps
<1> QED
  BY <1>2, <1>7, DlInvParts

LEMMA ReloadsKeep ==
    ASSUME DlInv,
           HandleResetLayout \/ HandleRefresh \/ \E n \in ColCounts : HandleColsChange(n)
    PROVE  DlInv'
<1>1. PageOK /\ GridOK
  BY DlInvParts
<1>2. PageOK'
  BY <1>1 DEF HandleResetLayout, HandleRefresh, HandleColsChange, PageOK, GridLoads
<1>3. CASE HandleResetLayout
  <2> DEFINE raw == IF storage = "blocked" THEN storedLayouts ELSE NoValue
  <2>1. IsStored(raw) /\ {} \in SUBSET WidgetId
    BY <1>1 DEF GridOK, NoValue, IsStored
  <2>2. GridLoads(raw, {})
    BY <1>3 DEF HandleResetLayout
  <2> HIDE DEF raw
  <2>3. Avoids(ParseStoredLayouts(raw), {})
    BY DEF Avoids
  <2>4. GridOK'
    BY <2>1, <2>2, <2>3, MountingKeeps
  <2> QED
    BY <1>2, <2>4, DlInvParts
<1>4. CASE HandleRefresh \/ \E n \in ColCounts : HandleColsChange(n)
  <2>1. GridLoads(storedLayouts, removedIds)
    BY <1>4 DEF HandleRefresh, HandleColsChange
  <2>2. GridOK'
    BY <1>1, <2>1, MountingKeeps DEF GridOK
  <2> QED
    BY <1>2, <2>2, DlInvParts
<1> QED
  BY <1>3, <1>4

LEMMA PageStepsKeep ==
    ASSUME DlInv,
           SessionExpired \/ PageLoads
             \/ (\E s \in {"works", "full", "blocked"} : StorageBecomes(s))
             \/ UNCHANGED dlVars
    PROVE  DlInv'
<1>1. PageOK /\ GridOK /\ DefaultCols \in ColCounts
  BY DlInvParts, LayoutAssumption
<1>2. PageOK'
  BY <1>1 DEF SessionExpired, PageLoads, StorageBecomes, PageOK, dlVars
<1>3. UNCHANGED gridVars /\ (Ready' => Ready)
  BY DEF SessionExpired, PageLoads, StorageBecomes, gridVars, Ready, dlVars
<1>4. GridOK'
  BY <1>1, <1>3 DEF GridOK, gridVars
<1> QED
  BY <1>2, <1>4, DlInvParts

LEMMA DlStepPreserves == DlInv /\ [DlNext]_dlVars => DlInv'
<1> SUFFICES ASSUME DlInv, [DlNext]_dlVars PROVE DlInv'
  OBVIOUS
<1> QED
  BY AuthCheckedKeeps, LayoutChangeKeeps, BreakpointKeeps, OnRemoveKeeps, AddWidgetKeeps,
     ReloadsKeep, PageStepsKeep DEF DlNext

LEMMA DashboardInvariant == DlSpec => []DlInv
<1> QED
  BY DlInitHolds, DlStepPreserves, PTL DEF DlSpec

(* Every state of the dashboard has its type: whatever a browser held, the  *)
(* grid shows known widgets, none of them twice on a breakpoint.            *)
THEOREM DashboardTypes == DlSpec => []DlTypeOK
<1>1. DlInv => DlTypeOK
  BY DEF DlInv
<1> QED
  BY <1>1, DashboardInvariant, PTL

(* A widget whose removal was stored is not shown again, at any breakpoint, *)
(* until it is added or the default layout is loaded.                       *)
THEOREM RemovedWidgetsStay == DlSpec => []RemovedStaysRemoved
<1>1. DlInv => RemovedStaysRemoved
  <2> SUFFICES ASSUME DlInv, Ready PROVE \A w \in Range(WidgetIdsOf(layouts)) : w \notin removedIds
    BY DEF RemovedStaysRemoved
  <2>1. IsClean(layouts) /\ Avoids(layouts, removedIds)
    BY DEF DlInv, DlTypeOK, IsClean
  <2>2. Range(WidgetIdsOf(layouts)) \cap removedIds = {}
    BY <2>1, ShownWidgets
  <2> QED
    BY <2>2
<1> QED
  BY <1>1, DashboardInvariant, PTL

-----------------------------------------------------------------------------
(* MenuFocus.                                                               *)

MenuItem == {AllAgents} \cup {SelectItem(a) : a \in AgentInMenu}
                \cup {RemoveItem(a) : a \in AgentInMenu}

(* The request in flight knows its row, and its button stands in that row   *)
(* only as long as the menu has been open and has listed the agent.         *)
MfInv ==
    /\ MfTypeOK
    /\ clicked = NoClick \/ (clicked.place # "none" /\ clicked.row # NoRow)
    /\ clicked.place = "in its row" =>
         menuOpen /\ \E row \in Range(rows) : <<row.peer>> = clicked.row

LEMMA MenuItemsDiffer ==
    \A a, b : /\ AllAgents # SelectItem(a) /\ AllAgents # RemoveItem(a)
              /\ SelectItem(a) # RemoveItem(b)
              /\ RemoveItem(a) = RemoveItem(b) => a = b
<1> SUFFICES ASSUME NEW a, NEW b
             PROVE  /\ AllAgents # SelectItem(a) /\ AllAgents # RemoveItem(a)
                    /\ SelectItem(a) # RemoveItem(b)
                    /\ RemoveItem(a) = RemoveItem(b) => a = b
  OBVIOUS
<1>1. AllAgents[1] = "all" /\ SelectItem(a)[1] = "select" /\ RemoveItem(b)[1] = "remove"
      /\ RemoveItem(a)[1] = "remove"
  BY DEF AllAgents, SelectItem, RemoveItem
<1>2. RemoveItem(a)[2] = a /\ RemoveItem(b)[2] = b
  BY DEF RemoveItem
<1> QED
  BY <1>1, <1>2

LEMMA Prepended ==
    ASSUME NEW T, NEW x \in T, NEW t \in Seq(T)
    PROVE  <<x>> \o t \in Seq(T) /\ Range(<<x>> \o t) = {x} \cup Range(t)
<1> DEFINE u == <<x>> \o t
           n == Len(t)
<1>1. n \in Nat /\ DOMAIN t = 1 .. n
  BY SequenceMembers
<1>2. u \in Seq(T) /\ DOMAIN u = 1 .. n + 1 /\ u[1] = x
      /\ \A i \in 1 .. n : u[i + 1] = t[i]
  BY <1>1
<1> HIDE DEF u, n
<1>3. \A i \in 1 .. n + 1 : i = 1 \/ (i - 1 \in 1 .. n /\ (i - 1) + 1 = i)
  BY <1>1
<1>4. \A i \in 1 .. n : i + 1 \in 1 .. n + 1
  BY <1>1
<1>5. 1 \in 1 .. n + 1
  BY <1>1
<1>6. ASSUME NEW y \in Range(u) PROVE y \in {x} \cup Range(t)
  <2>1. PICK i \in 1 .. n + 1 : y = u[i]
    BY <1>2 DEF Range
  <2>2. CASE i = 1
    BY <1>2, <2>1, <2>2
  <2>3. CASE i # 1
    <3>1. i - 1 \in 1 .. n /\ (i - 1) + 1 = i
      BY <1>3, <2>3
    <3>2. u[(i - 1) + 1] = t[i - 1]
      BY <1>2, <3>1
    <3> QED
      BY <1>1, <2>1, <3>1, <3>2 DEF Range
  <2> QED
    BY <2>2, <2>3
<1>7. ASSUME NEW y \in Range(t) PROVE y \in Range(u)
  BY <1>1, <1>2, <1>4 DEF Range
<1>8. x \in Range(u)
  BY <1>2, <1>5 DEF Range
<1> QED
  BY <1>2, <1>6, <1>7, <1>8 DEF u

(* The menu holds a select item for every row, and a remove button for      *)
(* every row that is offline.                                               *)
LEMMA MenuContents ==
    ASSUME NEW list \in Seq(MenuRow)
    PROVE  /\ MenuElements(list) \in Seq(MenuItem)
           /\ \A e : e \in Range(MenuElements(list)) <=>
                \/ e = AllAgents
                \/ \E row \in Range(list) : e = SelectItem(row.peer)
                \/ \E row \in Range(list) : row.offline /\ e = RemoveItem(row.peer)
<1> DEFINE n == Len(list)
           buttons == RowButtons(list)
           I == {k \in 1 .. 2 * n : k % 2 = 1 \/ list[k \div 2].offline}
<1>1. n \in Nat /\ DOMAIN list = 1 .. n /\ \A i \in 1 .. n : list[i] \in MenuRow
  BY SequenceMembers
<1>2. \A i \in 1 .. n : list[i].peer \in AgentInMenu
  BY <1>1 DEF MenuRow
<1>3. MenuElements(list) = <<AllAgents>> \o SubsequenceAt(buttons, I)
  BY DEF MenuElements
<1> HIDE DEF n
<1>4. ASSUME NEW k \in 1 .. 2 * n
      PROVE  /\ k % 2 = 1 => (k + 1) \div 2 \in 1 .. n
             /\ k % 2 # 1 => k \div 2 \in 1 .. n
  BY <1>1
<1>5. \A k \in 1 .. 2 * n :
        buttons[k] = IF k % 2 = 1 THEN SelectItem(list[(k + 1) \div 2].peer)
                     ELSE RemoveItem(list[k \div 2].peer)
  BY DEF RowButtons, n
<1>6. ASSUME NEW i \in 1 .. n
      PROVE  /\ 2 * i - 1 \in 1 .. 2 * n /\ (2 * i - 1) % 2 = 1
             /\ ((2 * i - 1) + 1) \div 2 = i
             /\ 2 * i \in 1 .. 2 * n /\ (2 * i) % 2 # 1 /\ (2 * i) \div 2 = i
  BY <1>1
<1> HIDE DEF buttons
<1>7. \A k \in 1 .. 2 * n : buttons[k] \in MenuItem
  BY <1>2, <1>4, <1>5 DEF MenuItem
<1>8. I \in SUBSET (1 .. 2 * n) /\ (\A k \in I : buttons[k] \in MenuItem) /\ 2 * n \in Nat
  BY <1>1, <1>7
<1>9. IsSubsequence(SubsequenceAt(buttons, I), buttons, I, MenuItem)
  <2> HIDE DEF I
  <2> DEFINE m == 2 * n
  <2>1. m \in Nat /\ I \in SUBSET (1 .. m)
    BY <1>8
  <2> HIDE DEF m
  <2> QED
    BY <1>8, <2>1, Subsequences
<1>10. /\ SubsequenceAt(buttons, I) \in Seq(MenuItem)
       /\ Range(SubsequenceAt(buttons, I)) = {buttons[k] : k \in I}
  BY <1>9 DEF IsSubsequence
<1>11. AllAgents \in MenuItem
  BY DEF MenuItem
<1>12. /\ MenuElements(list) \in Seq(MenuItem)
       /\ Range(MenuElements(list)) = {AllAgents} \cup {buttons[k] : k \in I}
  <2> HIDE DEF I
  <2> QED
    BY <1>3, <1>10, <1>11, Prepended
<1>13. ASSUME NEW k \in I
       PROVE  \/ \E row \in Range(list) : buttons[k] = SelectItem(row.peer)
              \/ \E row \in Range(list) : row.offline /\ buttons[k] = RemoveItem(row.peer)
  <2>1. CASE k % 2 = 1
    BY <1>1, <1>4, <1>5, <2>1 DEF Range
  <2>2. CASE k % 2 # 1
    BY <1>1, <1>4, <1>5, <2>2 DEF Range
  <2> QED
    BY <2>1, <2>2
<1>14. ASSUME NEW row \in Range(list)
       PROVE  /\ SelectItem(row.peer) \in {buttons[k] : k \in I}
              /\ row.offline => RemoveItem(row.peer) \in {buttons[k] : k \in I}
  <2>1. PICK i \in 1 .. n : row = list[i]
    BY <1>1 DEF Range
  <2>2. 2 * i - 1 \in I /\ buttons[2 * i - 1] = SelectItem(row.peer)
    BY <1>5, <1>6, <2>1
  <2>3. row.offline => 2 * i \in I /\ buttons[2 * i] = RemoveItem(row.peer)
    BY <1>5, <1>6, <2>1
  <2> QED
    BY <2>2, <2>3
<1> HIDE DEF I
<1> QED
  BY <1>12, <1>13, <1>14

LEMMA EnabledContents ==
    ASSUME NEW list \in Seq(MenuRow), NEW disabled \in {NoRow} \cup {<<a>> : a \in AgentInMenu}
    PROVE  /\ Enabled(list, disabled) \in Seq(MenuItem)
           /\ AllAgents \in Range(Enabled(list, disabled))
           /\ Range(Enabled(list, disabled)) \in SUBSET Range(MenuElements(list))
           /\ \A row \in Range(list) : SelectItem(row.peer) \in Range(Enabled(list, disabled))
<1>1. MenuElements(list) \in Seq(MenuItem)
  BY MenuContents
<1>2. CASE disabled = NoRow
  BY <1>1, <1>2, MenuContents DEF Enabled
<1>3. CASE disabled # NoRow
  <2>1. Enabled(list, disabled) = Without(MenuElements(list), RemoveItem(disabled[1]))
    BY <1>3 DEF Enabled
  <2>2. /\ Enabled(list, disabled) \in Seq(MenuItem)
        /\ Range(Enabled(list, disabled))
             = Range(MenuElements(list)) \ {RemoveItem(disabled[1])}
    BY <1>1, <2>1, WithoutElement
  <2> QED
    BY <2>2, MenuContents, MenuItemsDiffer
<1> QED
  BY <1>2, <1>3

LEMMA SomeIndex ==
    ASSUME NEW T, NEW s \in Seq(T), NEW e
    PROVE  IndexOf(s, e) \in 0 .. Len(s)
<1>1. Len(s) \in Nat /\ DOMAIN s = 1 .. Len(s)
  BY SequenceMembers
<1>2. CASE e \in Range(s)
  BY <1>1, <1>2, FirstIndex
<1>3. CASE e \notin Range(s)
  BY <1>1, <1>3 DEF IndexOf, Range
<1> QED
  BY <1>2, <1>3

(* The keys move between the items.                                         *)
LEMMA KeysStayOnItems ==
    ASSUME NEW T, NEW items \in Seq(T), Range(items) # {}, NEW e
    PROVE  /\ Len(items) \in Nat \ {0}
           /\ items[1] \in Range(items) /\ items[Len(items)] \in Range(items)
           /\ Next1(e, items) \in Range(items) /\ Previous1(e, items) \in Range(items)
<1> DEFINE n == Len(items)
           at == IndexOf(items, e)
<1>1. n \in Nat /\ DOMAIN items = 1 .. n
  BY SequenceMembers
<1>2. n # 0
  BY <1>1 DEF Range
<1>3. at \in 0 .. n
  BY SomeIndex
<1>4. \A i \in 1 .. n : items[i] \in Range(items)
  BY <1>1 DEF Range
<1>5. Next1(e, items) = items[(at % n) + 1]
  BY DEF Next1
<1>6. Previous1(e, items) = IF at <= 1 THEN items[n] ELSE items[at - 1]
  BY DEF Previous1
<1> HIDE DEF at, n
<1>7. (at % n) + 1 \in 1 .. n
  BY <1>1, <1>2, <1>3
<1>8. 1 \in 1 .. n /\ n \in 1 .. n /\ (~(at <= 1) => at - 1 \in 1 .. n)
  BY <1>1, <1>2, <1>3
<1>9. Next1(e, items) \in Range(items)
  BY <1>4, <1>5, <1>7
<1>10. Previous1(e, items) \in Range(items)
  BY <1>4, <1>6, <1>8
<1> QED
  BY <1>1, <1>2, <1>4, <1>8, <1>9, <1>10 DEF n

LEMMA FirstOfRest ==
    ASSUME NEW T, NEW s \in Seq(T), NEW at \in Nat \ {0}, SubSeq(s, at, Len(s)) # <<>>
    PROVE  SubSeq(s, at, Len(s))[1] \in Range(s)
<1>1. Len(s) \in Nat /\ DOMAIN s = 1 .. Len(s)
  BY SequenceMembers
<1>2. at <= Len(s)
  BY <1>1
<1>3. SubSeq(s, at, Len(s))[1] = s[at] /\ at \in 1 .. Len(s)
  BY <1>1, <1>2
<1> QED
  BY <1>1, <1>3 DEF Range

(* A button in its row hands the focus on to an item that stays.            *)
LEMMA NeighbourStays ==
    ASSUME NEW list \in Seq(MenuRow), NEW disabled \in {NoRow} \cup {<<a>> : a \in AgentInMenu},
           NEW a, \E row \in Range(list) : row.peer = a
    PROVE  LET left == SubsequenceAt(list, {i \in DOMAIN list : list[i].peer # a})
               e == Neighbours(a, Enabled(list, disabled))[1]
           IN  e \in MenuItem /\ InMenu(e, left)
<1> DEFINE items == Enabled(list, disabled)
           some == Without(items, SelectItem(a))
           others == Without(some, RemoveItem(a))
           at == IndexOf(items, SelectItem(a))
           behind == SubSeq(others, at, Len(others))
           I == {i \in DOMAIN list : list[i].peer # a}
           left == SubsequenceAt(list, I)
           e == Neighbours(a, items)[1]
<1>1. /\ items \in Seq(MenuItem) /\ AllAgents \in Range(items)
      /\ Range(items) \in SUBSET Range(MenuElements(list))
      /\ SelectItem(a) \in Range(items)
  BY EnabledContents
<1>2. Neighbours(a, items) = IF behind = <<>> THEN <<others[Len(others)]>> ELSE behind
  BY DEF Neighbours
<1> HIDE DEF items
<1>3. some \in Seq(MenuItem) /\ Range(some) = Range(items) \ {SelectItem(a)}
  BY <1>1, WithoutElement
<1> HIDE DEF some
<1>4. others \in Seq(MenuItem) /\ Range(others) = Range(some) \ {RemoveItem(a)}
  BY <1>3, WithoutElement
<1> HIDE DEF others
<1>5. AllAgents \in Range(others)
  BY <1>1, <1>3, <1>4, MenuItemsDiffer
<1>6. at \in Nat \ {0}
  BY <1>1, FirstIndex
<1> HIDE DEF at
<1>7. e \in Range(others)
  <2>1. CASE behind = <<>>
    <3>1. others[Len(others)] \in Range(others)
      BY <1>4, <1>5, KeysStayOnItems
    <3> QED
      BY <1>2, <2>1, <3>1
  <2>2. CASE behind # <<>>
    BY <1>2, <1>4, <1>6, <2>2, FirstOfRest
  <2> QED
    BY <2>1, <2>2
<1> HIDE DEF e
<1>8. e \in MenuItem
  BY <1>4, <1>7, SequenceMembers
<1>9. left \in Seq(MenuRow) /\ Range(left) = {list[i] : i \in I}
  <2>1. /\ Len(list) \in Nat /\ I \in SUBSET (1 .. Len(list))
        /\ \A i \in I : list[i] \in MenuRow
    BY SequenceMembers
  <2> HIDE DEF I
  <2>2. IsSubsequence(left, list, I, MenuRow)
    BY <2>1, Subsequences
  <2> QED
    BY <2>2 DEF IsSubsequence
<1>10. \A row \in Range(list) : row.peer # a => row \in Range(left)
  BY <1>9 DEF Range
<1> HIDE DEF left
<1>11. e \in Range(MenuElements(list)) /\ e # SelectItem(a) /\ e # RemoveItem(a)
  BY <1>1, <1>3, <1>4, <1>7
<1>12. e \in Range(MenuElements(left))
  <2>1. CASE e = AllAgents
    BY <1>9, <2>1, MenuContents
  <2>2. CASE \E row \in Range(list) : e = SelectItem(row.peer)
    BY <1>9, <1>10, <1>11, <2>2, MenuContents
  <2>3. CASE \E row \in Range(list) : row.offline /\ e = RemoveItem(row.peer)
    BY <1>9, <1>10, <1>11, <2>3, MenuContents
  <2> QED
    BY <1>11, <2>1, <2>2, <2>3, MenuContents
<1> QED
  BY <1>8, <1>12 DEF InMenu, left, e, items

ClickRow == {NoRow} \cup {<<a>> : a \in AgentInMenu}
ClickPlace == {"none", "in its row", "row gone", "alone"}

(* A render can only take the button out of its row.                        *)
LEMMA PlaceAfterRender ==
    ASSUME MfInv, NEW list \in Seq(MenuRow)
    PROVE  /\ PlaceAfter(list) \in ClickPlace
           /\ PlaceAfter(list) = "none" <=> clicked.place = "none"
           /\ PlaceAfter(list) = "in its row" =>
                /\ clicked.place = "in its row"
                /\ \E row \in Range(list) : <<row.peer>> = clicked.row
<1> DEFINE of == {row \in Range(list) : <<row.peer>> = clicked.row}
<1>1. PlaceAfter(list) =
        IF clicked.place # "in its row" THEN clicked.place
        ELSE IF of = {} THEN "row gone"
        ELSE IF \E row \in of : row.offline THEN "in its row" ELSE "alone"
  BY DEF PlaceAfter
<1>2. clicked.place \in ClickPlace
  BY DEF MfInv, MfTypeOK, ClickPlace
<1>3. of # {} => \E row \in Range(list) : <<row.peer>> = clicked.row
  OBVIOUS
<1> HIDE DEF of
<1> QED
  BY <1>1, <1>2, <1>3 DEF ClickPlace

LEMMA ClickedAfterRender ==
    ASSUME MfInv, NEW list \in Seq(MenuRow),
           NEW to, to = [clicked EXCEPT !.place = PlaceAfter(list)]
    PROVE  /\ to \in [row : ClickRow, selected : BOOLEAN, place : ClickPlace]
           /\ to = NoClick \/ (to.place # "none" /\ to.row # NoRow)
           /\ to.place = PlaceAfter(list) /\ to.row = clicked.row
           /\ to.selected = clicked.selected
<1>1. clicked \in [row : ClickRow, selected : BOOLEAN, place : ClickPlace]
  BY DEF MfInv, MfTypeOK, ClickRow, ClickPlace
<1>2. PlaceAfter(list) \in ClickPlace /\ (PlaceAfter(list) = "none" <=> clicked.place = "none")
  BY PlaceAfterRender
<1>3. /\ to \in [row : ClickRow, selected : BOOLEAN, place : ClickPlace]
      /\ to.place = PlaceAfter(list) /\ to.row = clicked.row /\ to.selected = clicked.selected
  BY <1>1, <1>2
<1>4. CASE clicked = NoClick
  <2>1. clicked.place = "none"
    BY <1>4 DEF NoClick
  <2>2. PlaceAfter(list) = "none"
    BY <1>2, <2>1
  <2>3. to = NoClick
    BY <1>4, <2>2 DEF NoClick
  <2> QED
    BY <1>3, <2>3
<1>5. CASE clicked # NoClick
  <2>1. clicked.place # "none" /\ clicked.row # NoRow
    BY <1>5 DEF MfInv
  <2> QED
    BY <1>2, <1>3, <2>1
<1> QED
  BY <1>4, <1>5

(* What the type says of the menu, by its parts.                            *)
LEMMA MenuParts ==
    /\ MfInv => /\ menuOpen \in BOOLEAN /\ rows \in Seq(MenuRow)
                /\ focus \in MenuItem \cup {Trigger, Page} /\ beingRemoved \in ClickRow
                /\ clicked \in [row : ClickRow, selected : BOOLEAN, place : ClickPlace]
    /\ /\ menuOpen' \in BOOLEAN /\ rows' \in Seq(MenuRow)
       /\ focus' \in MenuItem \cup {Trigger, Page} /\ beingRemoved' \in ClickRow
       /\ clicked' \in [row : ClickRow, selected : BOOLEAN, place : ClickPlace]
       => MfTypeOK'
  BY DEF MfInv, MfTypeOK, MenuItem, ClickRow, ClickPlace

LEMMA MfInitHolds == MfInit => MfInv
<1> SUFFICES ASSUME MfInit PROVE MfInv
  OBVIOUS
<1>1. NoClick \in [row : ClickRow, selected : BOOLEAN, place : ClickPlace]
  BY DEF NoClick, ClickRow, ClickPlace
<1>2. NoClick.place # "in its row"
  BY DEF NoClick
<1>3. rows \in Seq(MenuRow)
  BY DEF MfInit
<1> QED
  BY <1>1, <1>2, <1>3 DEF MfInit, MfInv, MfTypeOK, ClickRow, ClickPlace

LEMMA CloseKeeps ==
    ASSUME MfInv, NEW e \in {Trigger, Page}, Closed(e), UNCHANGED <<rows, beingRemoved>>
    PROVE  MfInv'
<1>1. <<>> \in Seq(MenuRow) /\ Range(<<>>) = {}
  BY DEF Range
<1>2. /\ menuOpen' = FALSE /\ focus' = e
      /\ clicked' = [clicked EXCEPT !.place = PlaceAfter(<<>>)]
  BY DEF Closed
<1>3. PlaceAfter(<<>>) # "in its row"
  BY <1>1, PlaceAfterRender
<1>4. /\ clicked' \in [row : ClickRow, selected : BOOLEAN, place : ClickPlace]
      /\ clicked' = NoClick \/ (clicked'.place # "none" /\ clicked'.row # NoRow)
      /\ clicked'.place = PlaceAfter(<<>>)
  BY <1>1, <1>2, ClickedAfterRender
<1>5. MfTypeOK'
  BY <1>2, <1>4, MenuParts
<1> QED
  BY <1>3, <1>4, <1>5 DEF MfInv

LEMMA ToggleKeeps == ASSUME MfInv, ToggleMenu PROVE MfInv'
<1>1. CASE menuOpen
  BY <1>1, CloseKeeps DEF ToggleMenu
<1>2. CASE ~menuOpen
  <2>1. menuOpen' = TRUE /\ focus' = AllAgents /\ UNCHANGED <<rows, beingRemoved, clicked>>
    BY <1>2 DEF ToggleMenu
  <2>2. MfTypeOK'
    BY <2>1, MenuParts DEF MenuItem
  <2> QED
    BY <2>1, <2>2 DEF MfInv
<1> QED
  BY <1>1, <1>2

LEMMA ArrowKeeps ==
    ASSUME MfInv, NEW key \in {"down", "up", "home", "end"}, ArrowKey(key)
    PROVE  MfInv'
<1> DEFINE items == Enabled(rows, beingRemoved)
<1>1. rows \in Seq(MenuRow) /\ beingRemoved \in {NoRow} \cup {<<a>> : a \in AgentInMenu}
  BY MenuParts DEF ClickRow
<1>2. items \in Seq(MenuItem) /\ AllAgents \in Range(items)
  BY <1>1, EnabledContents
<1>3. /\ focus' = CASE key = "down" -> Next1(focus, items)
                    [] key = "up" -> Previous1(focus, items)
                    [] key = "home" -> items[1]
                    [] key = "end" -> items[Len(items)]
      /\ UNCHANGED <<menuOpen, rows, beingRemoved, clicked>>
  BY DEF ArrowKey
<1> HIDE DEF items
<1>4. /\ items[1] \in Range(items) /\ items[Len(items)] \in Range(items)
      /\ Next1(focus, items) \in Range(items) /\ Previous1(focus, items) \in Range(items)
  BY <1>2, KeysStayOnItems
<1>5. focus' \in Range(items)
  BY <1>3, <1>4
<1>6. focus' \in MenuItem
  BY <1>2, <1>5, SequenceMembers
<1>7. MfTypeOK'
  BY <1>3, <1>6, MenuParts
<1> QED
  BY <1>3, <1>7 DEF MfInv

LEMMA RowsChangeKeeps == ASSUME MfInv, NEW list \in RowLists, RowsChange(list) PROVE MfInv'
<1>1. list \in Seq(MenuRow)
  BY MenuAssumption
<1>2. /\ rows' = list /\ UNCHANGED <<menuOpen, beingRemoved>>
      /\ focus' = IF menuOpen THEN AfterRender(focus, list) ELSE focus
      /\ clicked' = [clicked EXCEPT !.place = PlaceAfter(list)]
  BY DEF RowsChange
<1>3. /\ clicked' \in [row : ClickRow, selected : BOOLEAN, place : ClickPlace]
      /\ clicked' = NoClick \/ (clicked'.place # "none" /\ clicked'.row # NoRow)
      /\ clicked'.place = PlaceAfter(list) /\ clicked'.row = clicked.row
  BY <1>1, <1>2, ClickedAfterRender
<1>4. focus' \in {focus, Page}
  BY <1>2 DEF AfterRender
<1>5. MfTypeOK'
  BY <1>1, <1>2, <1>3, <1>4, MenuParts
<1>6. PlaceAfter(list) = "in its row" =>
        menuOpen /\ \E row \in Range(list) : <<row.peer>> = clicked.row
  BY <1>1, PlaceAfterRender DEF MfInv
<1> QED
  BY <1>2, <1>3, <1>5, <1>6 DEF MfInv

LEMMA ClickRemoveKeeps ==
    ASSUME MfInv, NEW a \in AgentInMenu, NEW selected \in BOOLEAN, ClickRemove(a, selected)
    PROVE  MfInv'
<1>1. /\ menuOpen /\ RemoveItem(a) \in Range(Enabled(rows, beingRemoved))
      /\ clicked' = [row |-> <<a>>, place |-> "in its row", selected |-> selected]
      /\ beingRemoved' = <<a>> /\ focus' \in {RemoveItem(a), Page}
      /\ UNCHANGED <<menuOpen, rows>>
  BY DEF ClickRemove
<1>2. rows \in Seq(MenuRow) /\ beingRemoved \in {NoRow} \cup {<<b>> : b \in AgentInMenu}
  BY MenuParts DEF ClickRow
<1>3. RemoveItem(a) \in Range(MenuElements(rows))
  BY <1>1, <1>2, EnabledContents
<1>4. PICK row \in Range(rows) : row.peer = a
  <2>1. RemoveItem(a) # AllAgents /\ \A b : RemoveItem(a) # SelectItem(b)
    BY MenuItemsDiffer
  <2>2. \E row \in Range(rows) : RemoveItem(a) = RemoveItem(row.peer)
    BY <1>2, <1>3, <2>1, MenuContents
  <2> QED
    BY <2>2, MenuItemsDiffer
<1>5. /\ clicked' \in [row : ClickRow, selected : BOOLEAN, place : ClickPlace]
      /\ clicked'.place = "in its row" /\ clicked'.row = <<a>>
  BY <1>1 DEF ClickRow, ClickPlace
<1>6. focus' \in MenuItem \cup {Trigger, Page} /\ beingRemoved' \in ClickRow
  BY <1>1 DEF MenuItem, ClickRow
<1>7. MfTypeOK'
  BY <1>1, <1>2, <1>5, <1>6, MenuParts
<1>8. <<a>> # NoRow
  BY DEF NoRow
<1>9. menuOpen' /\ row \in Range(rows') /\ <<row.peer>> = clicked'.row
  BY <1>1, <1>4, <1>5
<1> QED
  BY <1>5, <1>7, <1>8, <1>9 DEF MfInv

LEMMA RefusedKeeps == ASSUME MfInv, RemoveRefused PROVE MfInv'
<1>1. /\ clicked' = NoClick /\ beingRemoved' = NoRow /\ UNCHANGED <<menuOpen, rows, focus>>
  BY DEF RemoveRefused
<1>2. /\ NoClick \in [row : ClickRow, selected : BOOLEAN, place : ClickPlace]
      /\ NoClick.place # "in its row" /\ NoRow \in ClickRow
  BY DEF NoClick, ClickRow, ClickPlace
<1>3. MfTypeOK'
  BY <1>1, <1>2, MenuParts
<1> QED
  BY <1>1, <1>2, <1>3 DEF MfInv

(* The rows that a confirmed removal leaves, and who gets the focus then.   *)
LEMMA ConfirmedFocus ==
    ASSUME MfInv, RemoveConfirmed
    PROVE  /\ rows' \in Seq(MenuRow)
           /\ clicked' = NoClick /\ beingRemoved' = NoRow /\ menuOpen' \in BOOLEAN
           /\ focus' \in MenuItem \cup {Trigger, Page}
           /\ clicked.place = "in its row" =>
                IF menuOpen' THEN InMenu(focus', rows') ELSE focus' \in {Trigger, Page}
<1> DEFINE a == clicked.row[1]
           items == Enabled(rows, beingRemoved)
           I == {i \in DOMAIN rows : rows[i].peer # a}
           left == SubsequenceAt(rows, I)
           targets == CASE clicked.place = "in its row" -> {Neighbours(a, items)[1]}
                        [] clicked.place = "row gone" -> {items[1], items[Len(items)]}
                        [] clicked.place = "alone" -> {items[Len(items)]}
<1>1. /\ clicked # NoClick /\ rows' = left
      /\ clicked' = NoClick /\ beingRemoved' = NoRow
      /\ IF clicked.selected
         THEN menuOpen' = FALSE /\ focus' = Trigger
         ELSE /\ UNCHANGED menuOpen
              /\ IF menuOpen THEN \E e \in targets : focus' = AfterRender(e, left)
                 ELSE UNCHANGED focus
  BY DEF RemoveConfirmed
<1>2. /\ rows \in Seq(MenuRow) /\ menuOpen \in BOOLEAN
      /\ beingRemoved \in {NoRow} \cup {<<b>> : b \in AgentInMenu}
      /\ focus \in MenuItem \cup {Trigger, Page} /\ clicked.place \in ClickPlace
      /\ clicked.row \in ClickRow
  BY MenuParts DEF ClickRow
<1>3. clicked.place # "none" /\ clicked.row # NoRow
  BY <1>1 DEF MfInv
<1>4. items \in Seq(MenuItem) /\ Range(items) # {}
  BY <1>2, EnabledContents
<1>5. items[1] \in MenuItem /\ items[Len(items)] \in MenuItem
  <2> HIDE DEF items
  <2> QED
    BY <1>4, KeysStayOnItems, SequenceMembers
<1>6. left \in Seq(MenuRow)
  <2>1. /\ Len(rows) \in Nat /\ I \in SUBSET (1 .. Len(rows))
        /\ \A i \in I : rows[i] \in MenuRow
    BY <1>2, SequenceMembers
  <2> HIDE DEF I
  <2> QED
    BY <2>1, Subsequences DEF IsSubsequence
<1>7. ASSUME clicked.place = "in its row"
      PROVE  Neighbours(a, items)[1] \in MenuItem /\ InMenu(Neighbours(a, items)[1], left)
  <2>1. PICK row \in Range(rows) : <<row.peer>> = clicked.row
    BY <1>7 DEF MfInv
  <2>2. row.peer = a
    BY <2>1
  <2> HIDE DEF a
  <2> QED
    BY <1>2, <2>2, NeighbourStays
<1> HIDE DEF a, left, items
<1>8. targets \in SUBSET MenuItem
  BY <1>2, <1>3, <1>5, <1>7 DEF ClickPlace
<1>9. clicked.place = "in its row" => menuOpen /\ \A e \in targets : InMenu(e, left)
  BY <1>7 DEF MfInv
<1> HIDE DEF targets
<1>10. CASE clicked.selected
  BY <1>1, <1>6, <1>10
<1>11. CASE ~clicked.selected /\ menuOpen
  <2>1. PICK e \in targets : focus' = AfterRender(e, left)
    BY <1>1, <1>11
  <2>2. focus' \in {e, Page} /\ (InMenu(e, left) => focus' = e)
    BY <2>1 DEF AfterRender
  <2>3. focus' \in MenuItem \cup {Trigger, Page}
    BY <1>8, <2>2
  <2> QED
    BY <1>1, <1>2, <1>6, <1>9, <1>11, <2>2, <2>3
<1>12. CASE ~clicked.selected /\ ~menuOpen
  BY <1>1, <1>2, <1>6, <1>9, <1>12
<1> QED
  BY <1>10, <1>11, <1>12

LEMMA ConfirmedKeeps == ASSUME MfInv, RemoveConfirmed PROVE MfInv'
<1>1. /\ NoClick \in [row : ClickRow, selected : BOOLEAN, place : ClickPlace]
      /\ NoClick.place # "in its row" /\ NoRow \in ClickRow
  BY DEF NoClick, ClickRow, ClickPlace
<1>2. MfTypeOK'
  BY <1>1, ConfirmedFocus, MenuParts
<1> QED
  BY <1>1, <1>2, ConfirmedFocus DEF MfInv

LEMMA MfStepPreserves == MfInv /\ [MfNext]_mfVars => MfInv'
<1> SUFFICES ASSUME MfInv, [MfNext]_mfVars PROVE MfInv'
  OBVIOUS
<1>1. CASE CloseMenu \/ TabOut
  BY <1>1, CloseKeeps DEF CloseMenu, TabOut
<1>2. CASE UNCHANGED mfVars
  BY <1>2 DEF mfVars, MfInv, MfTypeOK
<1> QED
  BY <1>1, <1>2, ToggleKeeps, ArrowKeeps, RowsChangeKeeps, ClickRemoveKeeps, RefusedKeeps,
     ConfirmedKeeps DEF MfNext

LEMMA MenuInvariant == MfSpec => []MfInv
<1> QED
  BY MfInitHolds, MfStepPreserves, PTL DEF MfSpec

(* Every state of the menu has its type: the focus is on an item, on the    *)
(* trigger or on the page, whatever the keys, the polls and the removals do.*)
THEOREM MenuTypes == MfSpec => []MfTypeOK
<1>1. MfInv => MfTypeOK
  BY DEF MfInv
<1> QED
  BY <1>1, MenuInvariant, PTL

LEMMA NoneIsShorter == ASSUME NEW T, NEW s \in Seq(T) PROVE ~(Len(s) < Len(s))
<1>1. Len(s) \in Nat
  OBVIOUS
<1> QED
  BY <1>1

(* Only a confirmed removal takes a button out of its row with the request: *)
(* every other step keeps the request, ends another one or leaves the rows. *)
LEMMA HandOverHolds == MfInv /\ [MfNext]_mfVars => HandOverStep
<1> SUFFICES ASSUME MfInv, [MfNext]_mfVars,
                    clicked.place = "in its row", clicked' = NoClick, Len(rows') < Len(rows)
             PROVE  IF menuOpen' THEN InMenu(focus', rows') ELSE focus' \in {Trigger, Page}
  BY DEF HandOverStep
<1>1. CASE RemoveConfirmed
  BY <1>1, ConfirmedFocus
<1>2. rows \in Seq(MenuRow)
  BY MenuParts, Zenon
<1>3. rows' # rows
  BY <1>2, NoneIsShorter, Zenon
<1>4. ASSUME NEW list \in RowLists, RowsChange(list) PROVE FALSE
  <2>1. list \in Seq(MenuRow) /\ clicked' = [clicked EXCEPT !.place = PlaceAfter(list)]
    BY <1>4, MenuAssumption DEF RowsChange
  <2>2. clicked'.place = PlaceAfter(list)
    BY <2>1, ClickedAfterRender
  <2>3. PlaceAfter(list) # "none"
    BY <2>1, PlaceAfterRender
  <2> QED
    BY <2>2, <2>3 DEF NoClick
<1> QED
  BY <1>1, <1>3, <1>4 DEF MfNext, ToggleMenu, CloseMenu, TabOut, ArrowKey, ClickRemove,
     RemoveRefused, mfVars

(* A confirmed removal whose button still stands in its row leaves the      *)
(* focus on an item of the open menu that stays.                            *)
THEOREM RemovalsHandFocusOn == MfSpec => RemovalHandsFocusOn
<1>1. MfInv /\ [MfNext]_mfVars => [HandOverStep]_mfVars
  BY HandOverHolds
<1> QED
  BY <1>1, MenuInvariant, PTL DEF MfSpec, RemovalHandsFocusOn

-----------------------------------------------------------------------------
(* AddAgentModal.                                                           *)

AskState ==
    {<<"nothing">>, <<"sent">>, <<"refused">>} \cup {<<"answered", t>> : t \in FreshToken}

(* What the dialog shows or is about to show, the server has made.          *)
MdInv ==
    /\ MdTypeOK
    /\ ask \in [Ask -> AskState]
    /\ token # NoFresh => token \in created
    /\ \A q \in Ask : ask[q][1] = "answered" => ask[q][2] \in created

LEMMA MdInitHolds == MdInit => MdInv
<1> SUFFICES ASSUME MdInit PROVE MdInv
  OBVIOUS
<1>1. ask = [q \in Ask |-> <<"nothing">>]
  BY DEF MdInit
<1>2. ask \in [Ask -> AskState]
  BY <1>1 DEF AskState
<1>3. \A q \in Ask : ask[q][1] # "answered"
  BY <1>1
<1> QED
  BY <1>2, <1>3 DEF MdInit, MdInv, MdTypeOK, AskState

LEMMA AnsweredAsk ==
    ASSUME NEW s \in AskState, s[1] = "answered" PROVE s[2] \in FreshToken
<1>1. <<"nothing">>[1] = "nothing" /\ <<"sent">>[1] = "sent" /\ <<"refused">>[1] = "refused"
  OBVIOUS
<1>2. PICK t \in FreshToken : s = <<"answered", t>>
  BY <1>1 DEF AskState
<1> QED
  BY <1>2

(* A step of one request leaves the answers to the others as they are.      *)
LEMMA AskChanges ==
    ASSUME MdInv, NEW q \in Ask, NEW to \in AskState, ask' = [ask EXCEPT ![q] = to],
           created \in SUBSET created', created' \in SUBSET FreshToken,
           to[1] = "answered" => to[2] \in created',
           modalOpen' \in BOOLEAN, step' \in {"name", "snippet"},
           submitting' \in BOOLEAN, failed' \in BOOLEAN,
           token' \in created' \cup {NoFresh}
    PROVE  MdInv'
<1>1. ask' \in [Ask -> AskState] /\ \A p \in Ask : ask'[p] = IF p = q THEN to ELSE ask[p]
  BY DEF MdInv
<1>2. \A p \in Ask : ask'[p][1] = "answered" => ask'[p][2] \in created'
  BY <1>1 DEF MdInv
<1>3. \A p \in Ask : ask'[p] \in AskState
  BY <1>1
<1>4. MdTypeOK'
  BY <1>3 DEF MdTypeOK, AskState
<1> QED
  BY <1>1, <1>2, <1>4 DEF MdInv

LEMMA AskSteps ==
    ASSUME MdInv, NEW q \in Ask,
           \/ HandleGenerate(q) \/ TokenRefused(q) \/ GenerateDone(q) \/ GenerateFailed(q)
           \/ \E t \in FreshToken : TokenServed(q, t)
    PROVE  MdInv'
<1>1. /\ modalOpen \in BOOLEAN /\ step \in {"name", "snippet"}
      /\ submitting \in BOOLEAN /\ failed \in BOOLEAN
      /\ token \in created \cup {NoFresh} /\ created \in SUBSET FreshToken
      /\ ask[q] \in AskState
  BY DEF MdInv, MdTypeOK, AskState
<1>2. /\ <<"nothing">> \in AskState /\ <<"nothing">>[1] # "answered"
      /\ <<"sent">> \in AskState /\ <<"sent">>[1] # "answered"
      /\ <<"refused">> \in AskState /\ <<"refused">>[1] # "answered"
  BY DEF AskState
<1>3. CASE HandleGenerate(q) \/ TokenRefused(q) \/ GenerateFailed(q)
  <2>1. /\ \E to \in {<<"nothing">>, <<"sent">>, <<"refused">>} :
             ask' = [ask EXCEPT ![q] = to]
        /\ UNCHANGED <<modalOpen, step, token, created>>
        /\ submitting' \in BOOLEAN /\ failed' \in BOOLEAN
    BY <1>1, <1>3 DEF HandleGenerate, TokenRefused, GenerateFailed
  <2>2. PICK to \in {<<"nothing">>, <<"sent">>, <<"refused">>} : ask' = [ask EXCEPT ![q] = to]
    BY <2>1
  <2>3. to \in AskState /\ to[1] # "answered"
    BY <1>2
  <2> QED
    BY <1>1, <2>1, <2>2, <2>3, AskChanges
<1>4. CASE GenerateDone(q)
  <2>1. /\ ask[q][1] = "answered" /\ ask' = [ask EXCEPT ![q] = <<"nothing">>]
        /\ token' = ask[q][2] /\ step' = "snippet" /\ submitting' = FALSE
        /\ UNCHANGED <<modalOpen, failed, created>>
    BY <1>4 DEF GenerateDone
  <2>2. token' \in created
    BY <2>1 DEF MdInv
  <2> QED
    BY <1>1, <1>2, <2>1, <2>2, AskChanges
<1>5. ASSUME NEW t \in FreshToken, TokenServed(q, t) PROVE MdInv'
  <2>1. /\ created' = created \cup {t} /\ ask' = [ask EXCEPT ![q] = <<"answered", t>>]
        /\ UNCHANGED <<modalOpen, step, submitting, failed, token>>
    BY <1>5 DEF TokenServed
  <2>2. <<"answered", t>> \in AskState /\ <<"answered", t>>[2] = t
    BY DEF AskState
  <2> QED
    BY <1>1, <2>1, <2>2, AskChanges
<1> QED
  BY <1>3, <1>4, <1>5

LEMMA MdStepPreserves == MdInv /\ [MdNext]_mdVars => MdInv'
<1> SUFFICES ASSUME MdInv, [MdNext]_mdVars PROVE MdInv'
  OBVIOUS
<1>1. CASE OpenModal \/ UNCHANGED mdVars
             \/ \E how \in {"escape", "backdrop", "cancel", "cross", "done"} : CloseModal(how)
  BY <1>1 DEF OpenModal, CloseModal, mdVars, MdInv, MdTypeOK
<1> QED
  BY <1>1, AskSteps DEF MdNext

LEMMA ModalInvariant == MdSpec => []MdInv
<1> QED
  BY MdInitHolds, MdStepPreserves, PTL DEF MdSpec

(* Every state of the dialog has its type, with closings and answers in any *)
(* order.                                                                   *)
THEOREM ModalTypes == MdSpec => []MdTypeOK
<1>1. MdInv => MdTypeOK
  BY DEF MdInv
<1> QED
  BY <1>1, ModalInvariant, PTL

(* The token in the dialog's state, open or closed, is one that the server  *)
(* has made.                                                                *)
ShownTokenExists == token # NoFresh => token \in created

(* No order of openings, closings, refusals and late answers makes the      *)
(* dialog hold a token that does not exist on the server.                   *)
THEOREM ShownTokens == MdSpec => []ShownTokenExists
<1>1. MdInv => ShownTokenExists
  BY DEF MdInv, ShownTokenExists
<1> QED
  BY <1>1, ModalInvariant, PTL

(* Made, and neither in the dialog nor on its way to it.                    *)
Spent(t) ==
    /\ t \in created /\ t # token
    /\ \A q \in Ask : ~(ask[q][1] = "answered" /\ ask[q][2] = t)

OnceStep ==
    \A t \in FreshToken :
        /\ Spent(t) => Spent(t)'
        /\ token = t /\ token' # t => Spent(t)'

(* "Shown once": a token that has left the dialog's state, by a closing, an *)
(* opening or a later answer, never enters it again.  A token that arrives  *)
(* at a closed dialog is therefore never shown: the opening comes first.    *)
TokensAreShownOnce == [][OnceStep]_mdVars

(* A token is in one place: in the dialog, or in one answer.                *)
OnePlace ==
    /\ token # NoFresh => \A q \in Ask : ~(ask[q][1] = "answered" /\ ask[q][2] = token)
    /\ \A p, q \in Ask :
         ask[p][1] = "answered" /\ ask[q][1] = "answered" /\ ask[p][2] = ask[q][2] => p = q

(* What a step does to the dialog's token and to the answers under way.     *)
TokenArrived(q, t) ==
    /\ t \notin created /\ created' = created \cup {t} /\ token' = token
    /\ ask'[q][1] = "answered" /\ ask'[q][2] = t
    /\ \A p \in Ask \ {q} : ask'[p] = ask[p]

TokenShown(q) ==
    /\ ask[q][1] = "answered" /\ token' = ask[q][2] /\ created' = created
    /\ ask'[q][1] # "answered"
    /\ \A p \in Ask \ {q} : ask'[p] = ask[p]

TokenForgotten ==
    /\ token' \in {token, NoFresh} /\ created' = created
    /\ \A p \in Ask : ask'[p] = ask[p] \/ ask'[p][1] # "answered"

LEMMA TokenSteps ==
    ASSUME MdInv, [MdNext]_mdVars
    PROVE  \/ \E q \in Ask, t \in FreshToken : TokenArrived(q, t)
           \/ \E q \in Ask : TokenShown(q)
           \/ TokenForgotten
<1>0. ask \in [Ask -> AskState]
  BY DEF MdInv
<1>1. <<"nothing">>[1] # "answered" /\ <<"sent">>[1] # "answered" /\ <<"refused">>[1] # "answered"
  OBVIOUS
<1>2. CASE OpenModal \/ UNCHANGED mdVars
             \/ \E how \in {"escape", "backdrop", "cancel", "cross", "done"} : CloseModal(how)
  BY <1>2 DEF OpenModal, CloseModal, mdVars, TokenForgotten
<1>3. ASSUME NEW q \in Ask, HandleGenerate(q) \/ TokenRefused(q) \/ GenerateFailed(q)
      PROVE  TokenForgotten
  BY <1>0, <1>1, <1>3 DEF HandleGenerate, TokenRefused, GenerateFailed, TokenForgotten
<1>4. ASSUME NEW q \in Ask, GenerateDone(q) PROVE TokenShown(q)
  BY <1>0, <1>1, <1>4 DEF GenerateDone, TokenShown
<1>5. ASSUME NEW q \in Ask, NEW t \in FreshToken, TokenServed(q, t) PROVE TokenArrived(q, t)
  <2>1. <<"answered", t>>[1] = "answered" /\ <<"answered", t>>[2] = t
    OBVIOUS
  <2> QED
    BY <1>0, <1>5, <2>1 DEF TokenServed, TokenArrived
<1> QED
  BY <1>2, <1>3, <1>4, <1>5 DEF MdNext

LEMMA OnePlaceInductive == MdInv /\ OnePlace /\ [MdNext]_mdVars => OnePlace'
<1> SUFFICES ASSUME MdInv, OnePlace, [MdNext]_mdVars PROVE OnePlace'
  OBVIOUS
<1>1. /\ \A q \in Ask : ask[q][1] = "answered" => ask[q][2] \in created
      /\ token # NoFresh => token \in created
      /\ NoFresh \notin FreshToken
  BY ModalAssumption DEF MdInv
<1>2. ASSUME NEW q \in Ask, NEW t \in FreshToken, TokenArrived(q, t) PROVE OnePlace'
  BY <1>1, <1>2 DEF TokenArrived, OnePlace
<1>3. ASSUME NEW q \in Ask, TokenShown(q) PROVE OnePlace'
  BY <1>1, <1>3 DEF TokenShown, OnePlace
<1>4. CASE TokenForgotten
  BY <1>1, <1>4 DEF TokenForgotten, OnePlace
<1> QED
  BY <1>2, <1>3, <1>4, TokenSteps

LEMMA OnceStepHolds == MdInv /\ OnePlace /\ [MdNext]_mdVars => OnceStep
<1> SUFFICES ASSUME MdInv, OnePlace, [MdNext]_mdVars, NEW t \in FreshToken
             PROVE  /\ Spent(t) => Spent(t)'
                    /\ token = t /\ token' # t => Spent(t)'
  BY DEF OnceStep
<1>1. /\ \A q \in Ask : ask[q][1] = "answered" => ask[q][2] \in created
      /\ token # NoFresh => token \in created
      /\ t # NoFresh
  BY ModalAssumption DEF MdInv
<1>2. ASSUME NEW q \in Ask, NEW u \in FreshToken, TokenArrived(q, u)
      PROVE  /\ Spent(t) => Spent(t)'
             /\ token = t /\ token' # t => Spent(t)'
  BY <1>1, <1>2 DEF TokenArrived, OnePlace, Spent
<1>3. ASSUME NEW q \in Ask, TokenShown(q)
      PROVE  /\ Spent(t) => Spent(t)'
             /\ token = t /\ token' # t => Spent(t)'
  BY <1>1, <1>3 DEF TokenShown, OnePlace, Spent
<1>4. CASE TokenForgotten
  BY <1>1, <1>4 DEF TokenForgotten, OnePlace, Spent
<1> QED
  BY <1>2, <1>3, <1>4, TokenSteps

(* A token is shown once, whatever the order of closings and answers.       *)
THEOREM TokensLeaveForGood == MdSpec => TokensAreShownOnce
<1>1. MdInit => OnePlace
  <2>1. <<"nothing">>[1] # "answered"
    OBVIOUS
  <2> QED
    BY <2>1 DEF MdInit, OnePlace
<1> QED
  BY <1>1, ModalInvariant, OnePlaceInductive, OnceStepHolds, PTL
     DEF MdSpec, TokensAreShownOnce
=============================================================================
