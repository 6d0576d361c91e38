---------------------------- MODULE SettingsPage ----------------------------
(* The settings page: the list of agent tokens with its generate, revoke    *)
(* and rename forms, and the password form that ends in a logout.           *)
(*                                                                          *)
(* The server's side is the set of tokens it holds (TokenStore); a token's  *)
(* name and dates are left out. A request is served at one moment and its   *)
(* answer arrives later, so two loads of the list may answer out of order.  *)
(* The page can be left at any time: setters of a page that is gone do      *)
(* nothing, which is why leaving it has no action here.                     *)
EXTENDS Naturals, FiniteSets

CONSTANTS
    TokenId,
    Load,           \* requests for the list in flight
    Revocation,     \* DELETE requests in flight
    MaxRenames,     \* bound on PATCH requests in flight
    NoToken

VARIABLES
    settingsPage,   \* checking, ready or login
    held,           \* the server: the tokens it accepts
    issued,         \* the server: the tokens it ever made
    tokens,         \* the list on the page
    load, revocation,
    generating,     \* the page's POST in flight
    newToken, tokenLoading,
    revokeInFlight, revokingId, revokeError,
    editingId,
    renaming,       \* the page's PATCH requests in flight, counted
    pwStatus, loggingOut

serverTokens == <<held, issued>>
listVars == <<tokens, load>>
generateVars == <<generating, newToken, tokenLoading>>
revokeVars == <<revocation, revokeInFlight, revokingId, revokeError>>
editVars == <<editingId, renaming>>
pwVarsOfPage == <<pwStatus, loggingOut>>
stVars == <<settingsPage, serverTokens, listVars, generateVars, revokeVars, editVars, pwVarsOfPage>>

Nothing == [at |-> "nothing"]

ASSUME SettingsAssumption == NoToken \notin TokenId /\ MaxRenames \in Nat

(* for: what the page does once the list was asked for.                     *)
LoadInFlight ==
    [at : {"sent", "answered"}, list : SUBSET TokenId,
     for : {"mount", "generate", "revoke", "rename"}]
RevocationInFlight == [at : {"sent", "revoked", "refused"}, token : TokenId]

StTypeOK ==
    /\ settingsPage \in {"checking", "ready", "login"}
    /\ held \subseteq issued /\ issued \subseteq TokenId
    /\ tokens \subseteq TokenId
    /\ load \in [Load -> {Nothing} \cup LoadInFlight]
    /\ revocation \in [Revocation -> {Nothing} \cup RevocationInFlight]
    /\ generating \in {"no", "sent", "refused"} \cup TokenId
    /\ newToken \in TokenId \cup {NoToken} /\ tokenLoading \in BOOLEAN
    /\ revokeInFlight \in BOOLEAN /\ revokingId \in TokenId \cup {NoToken}
    /\ revokeError \in BOOLEAN
    /\ editingId \in TokenId \cup {NoToken} /\ renaming \in 0 .. MaxRenames
    /\ pwStatus \in {"idle", "loading", "success", "error"} /\ loggingOut \in BOOLEAN

-----------------------------------------------------------------------------
(* Mutants: definitions named ..._Mutant are faults that the properties      *)
(* below must tell from the code; no other definition uses them.            *)

OnPage == settingsPage = "ready"

(* loadTokens() up to its await.                                            *)
LoadTokens(why) ==
    \E l \in Load :
        /\ load[l] = Nothing
        /\ load' = [load EXCEPT ![l] = [at |-> "sent", list |-> {}, for |-> why]]

(* checkAuth: any failure, that of the first list included, is a login.     *)
SettingsAuthChecked(signedIn) ==
    /\ settingsPage = "checking"
    /\ IF signedIn THEN settingsPage' = "ready" /\ LoadTokens("mount")
       ELSE settingsPage' = "login" /\ UNCHANGED load
    /\ UNCHANGED <<serverTokens, tokens, generateVars, revokeVars, editVars, pwVarsOfPage>>

TokensServed(l) ==
    /\ load[l].at = "sent"
    /\ load' = [load EXCEPT ![l].at = "answered", ![l].list = held]
    /\ UNCHANGED <<settingsPage, serverTokens, tokens, generateVars, revokeVars,
                   editVars, pwVarsOfPage>>

(* The answer, in whatever order; handleGenerateToken waits for its load.   *)
TokensAnswered(l) ==
    /\ OnPage /\ load[l].at = "answered"
    /\ tokens' = load[l].list
    /\ tokenLoading' = (tokenLoading /\ load[l].for # "generate")
    /\ load' = [load EXCEPT ![l] = Nothing]
    /\ UNCHANGED <<settingsPage, serverTokens, generating, newToken, revokeVars,
                   editVars, pwVarsOfPage>>

(* Not ok: the list stays. A fetch that rejects is caught by checkAuth.     *)
TokensFail(l, rejects) ==
    /\ OnPage /\ load[l] # Nothing
    /\ load' = [load EXCEPT ![l] = Nothing]
    /\ tokenLoading' = (tokenLoading /\ load[l].for # "generate")
    /\ settingsPage' = IF rejects /\ load[l].for = "mount" THEN "login" ELSE settingsPage
    /\ UNCHANGED <<serverTokens, tokens, generating, newToken, revokeVars, editVars,
                   pwVarsOfPage>>

-----------------------------------------------------------------------------
HandleGenerateToken ==
    /\ OnPage /\ ~tokenLoading
    /\ tokenLoading' = TRUE /\ generating' = "sent"
    /\ UNCHANGED <<settingsPage, serverTokens, listVars, newToken, revokeVars, editVars,
                   pwVarsOfPage>>

GenerateServed(t) ==
    /\ generating = "sent"
    /\ t \notin issued
    /\ issued' = issued \cup {t} /\ held' = held \cup {t}
    /\ generating' = t
    /\ UNCHANGED <<settingsPage, listVars, newToken, tokenLoading, revokeVars, editVars,
                   pwVarsOfPage>>

GenerateRefused ==
    /\ generating = "sent" /\ generating' = "refused"
    /\ UNCHANGED <<settingsPage, serverTokens, listVars, newToken, tokenLoading, revokeVars,
                   editVars, pwVarsOfPage>>

(* The token is shown; its form stays disabled until the list is here.      *)
GenerateAnswered ==
    /\ OnPage /\ generating \in TokenId
    /\ newToken' = generating /\ generating' = "no"
    /\ LoadTokens("generate")
    /\ UNCHANGED <<settingsPage, serverTokens, tokens, tokenLoading, revokeVars, editVars,
                   pwVarsOfPage>>

(* A refusal, or an answer that is lost: the token exists and is not shown. *)
GenerateFails ==
    /\ OnPage /\ generating # "no"
    /\ generating' = "no" /\ tokenLoading' = FALSE
    /\ UNCHANGED <<settingsPage, serverTokens, listVars, newToken, revokeVars, editVars,
                   pwVarsOfPage>>

DismissNewToken ==
    /\ OnPage /\ newToken # NoToken /\ newToken' = NoToken
    /\ UNCHANGED <<settingsPage, serverTokens, listVars, generating, tokenLoading, revokeVars,
                   editVars, pwVarsOfPage>>

-----------------------------------------------------------------------------
(* handleRevokeToken up to its await, confirmed in a dialog that blocks the *)
(* page. The button is only marked as disabled.                             *)
HandleRevokeToken(v, t) ==
    /\ OnPage /\ t \in tokens /\ editingId # t
    /\ ~revokeInFlight /\ revocation[v] = Nothing
    /\ revocation' = [revocation EXCEPT ![v] = [at |-> "sent", token |-> t]]
    /\ revokeInFlight' = TRUE /\ revokingId' = t /\ revokeError' = FALSE
    /\ UNCHANGED <<settingsPage, serverTokens, listVars, generateVars, editVars, pwVarsOfPage>>

(* The dialog is dismissed: an earlier error is gone all the same.          *)
RevokeDismissed(t) ==
    /\ OnPage /\ t \in tokens /\ editingId # t /\ ~revokeInFlight
    /\ revokeError' = FALSE
    /\ UNCHANGED <<settingsPage, serverTokens, listVars, generateVars, revocation,
                   revokeInFlight, revokingId, editVars, pwVarsOfPage>>

(* DELETE /api/settings/tokens/:id: 404 when it is not there any more.      *)
RevocationServed(v) ==
    /\ revocation[v].at = "sent"
    /\ held' = held \ {revocation[v].token}
    /\ revocation' = [revocation EXCEPT ![v].at =
         IF revocation[v].token \in held THEN "revoked" ELSE "refused"]
    /\ UNCHANGED <<settingsPage, issued, listVars, generateVars, revokeInFlight, revokingId,
                   revokeError, editVars, pwVarsOfPage>>

(* Mutant: only a success ends the revocation.                              *)
RevocationEnds_Mutant(ok) ==
    /\ revokeInFlight' = ~ok
    /\ revokingId' = IF ok THEN NoToken ELSE revokingId

(* The finally clause.                                                      *)
RevocationEnds(ok) == revokeInFlight' = FALSE /\ revokingId' = NoToken

RevocationAnswered(v) ==
    /\ OnPage /\ revocation[v].at = "revoked"
    /\ revocation' = [revocation EXCEPT ![v] = Nothing]
    /\ RevocationEnds(TRUE)
    /\ LoadTokens("revoke")
    /\ UNCHANGED <<settingsPage, serverTokens, tokens, generateVars, revokeError, editVars,
                   pwVarsOfPage>>

(* Refused, or no answer, before or after the server acted.                 *)
RevocationFails(v) ==
    /\ OnPage /\ revocation[v] # Nothing
    /\ revocation' = [revocation EXCEPT ![v] = Nothing]
    /\ RevocationEnds(FALSE)
    /\ revokeError' = TRUE
    /\ UNCHANGED <<settingsPage, serverTokens, listVars, generateVars, editVars, pwVarsOfPage>>

-----------------------------------------------------------------------------
StartEdit(t) ==
    /\ OnPage /\ t \in tokens /\ editingId # t
    /\ editingId' = t
    /\ UNCHANGED <<settingsPage, serverTokens, listVars, generateVars, revokeVars, renaming,
                   pwVarsOfPage>>

(* Cancel, or Save with an empty name.                                      *)
EndEdit ==
    /\ OnPage /\ editingId \in tokens
    /\ editingId' = NoToken
    /\ UNCHANGED <<settingsPage, serverTokens, listVars, generateVars, revokeVars, renaming,
                   pwVarsOfPage>>

(* Nothing disables Save: it may be pressed again before the answer.        *)
SaveEdit ==
    /\ OnPage /\ editingId \in tokens /\ renaming < MaxRenames
    /\ renaming' = renaming + 1
    /\ UNCHANGED <<settingsPage, serverTokens, listVars, generateVars, revokeVars, editingId,
                   pwVarsOfPage>>

(* Whatever the answer says, and whatever is being edited by then.          *)
SaveEditAnswered ==
    /\ OnPage /\ renaming > 0
    /\ renaming' = renaming - 1 /\ editingId' = NoToken
    /\ LoadTokens("rename")
    /\ UNCHANGED <<settingsPage, serverTokens, tokens, generateVars, revokeVars, pwVarsOfPage>>

SaveEditFails ==
    /\ OnPage /\ renaming > 0
    /\ renaming' = renaming - 1
    /\ UNCHANGED <<settingsPage, serverTokens, listVars, generateVars, revokeVars, editingId,
                   pwVarsOfPage>>

-----------------------------------------------------------------------------
HandleChangePassword ==
    /\ OnPage /\ pwStatus # "loading"
    /\ pwStatus' = "loading"
    /\ UNCHANGED <<settingsPage, serverTokens, listVars, generateVars, revokeVars, editVars,
                   loggingOut>>

(* A success logs out two seconds later.                                    *)
ChangePasswordAnswered(ok) ==
    /\ OnPage /\ pwStatus = "loading"
    /\ pwStatus' = IF ok THEN "success" ELSE "error"
    /\ loggingOut' = (loggingOut \/ ok)
    /\ UNCHANGED <<settingsPage, serverTokens, listVars, generateVars, revokeVars, editVars>>

(* DELETE /api/auth, and the login page whatever its answer.                *)
LogOut ==
    /\ OnPage /\ loggingOut
    /\ settingsPage' = "login"
    /\ UNCHANGED <<serverTokens, listVars, generateVars, revokeVars, editVars, pwVarsOfPage>>

StInit ==
    /\ settingsPage = "checking"
    /\ held \in SUBSET TokenId /\ issued = held /\ tokens = {}
    /\ load = [l \in Load |-> Nothing] /\ revocation = [v \in Revocation |-> Nothing]
    /\ generating = "no" /\ newToken = NoToken /\ tokenLoading = FALSE
    /\ revokeInFlight = FALSE /\ revokingId = NoToken /\ revokeError = FALSE
    /\ editingId = NoToken /\ renaming = 0
    /\ pwStatus = "idle" /\ loggingOut = FALSE

StNext ==
    \/ \E signedIn \in BOOLEAN : SettingsAuthChecked(signedIn)
    \/ \E l \in Load :
         \/ TokensServed(l) \/ TokensAnswered(l)
         \/ \E rejects \in BOOLEAN : TokensFail(l, rejects)
    \/ HandleGenerateToken
    \/ \E t \in TokenId : GenerateServed(t) \/ StartEdit(t) \/ RevokeDismissed(t)
    \/ GenerateRefused
    \/ GenerateAnswered
    \/ GenerateFails
    \/ DismissNewToken
    \/ \E v \in Revocation :
         \/ \E t \in TokenId : HandleRevokeToken(v, t)
         \/ RevocationServed(v) \/ RevocationAnswered(v) \/ RevocationFails(v)
    \/ EndEdit
    \/ SaveEdit
    \/ SaveEditAnswered
    \/ SaveEditFails
    \/ HandleChangePassword
    \/ \E ok \in BOOLEAN : ChangePasswordAnswered(ok)
    \/ LogOut

StSpec == StInit /\ [][StNext]_stVars

-----------------------------------------------------------------------------
(* Properties.                                                              *)

(* The page never has two revocations under way, the row it marks is the    *)
(* one whose revocation is, and a revocation that is over, by an answer, a  *)
(* refusal or a failure, leaves the buttons working (revokeInFlight).       *)
RevocationIsExclusive ==
    LET inFlight == {v \in Revocation : revocation[v] # Nothing}
    IN /\ Cardinality(inFlight) <= 1
       /\ revokeInFlight = (inFlight # {})
       /\ revokeInFlight = (revokingId # NoToken)
       /\ \A v \in inFlight : revocation[v].token = revokingId
=============================================================================
