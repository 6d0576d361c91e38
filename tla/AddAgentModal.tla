---------------------------- MODULE AddAgentModal ---------------------------
(* The "Add Agent" dialog of the navigation bar, which keeps it in the page *)
(* while it is closed: a name, a POST for a token, and the token shown once.*)
(*                                                                          *)
(* Names and the clipboard are left out: the name typed is not blank, and   *)
(* copying changes only the label of a button.                              *)
EXTENDS Naturals

CONSTANTS
    FreshToken,     \* tokens the server can make
    Ask,            \* requests in flight
    NoFresh

ASSUME ModalAssumption == NoFresh \notin FreshToken

VARIABLES
    modalOpen,      \* addAgentOpen of the navigation bar
    step,           \* name or snippet
    submitting, failed,
    token,          \* the plaintext token in the dialog's state
    ask,            \* the requests: nothing, sent, refused, or the answer
    created         \* the tokens the server has made

mdVars == <<modalOpen, step, submitting, failed, token, ask, created>>

MdTypeOK ==
    /\ modalOpen \in BOOLEAN /\ step \in {"name", "snippet"}
    /\ submitting \in BOOLEAN /\ failed \in BOOLEAN
    /\ token \in FreshToken \cup {NoFresh}
    /\ \A q \in Ask : ask[q] \in {<<"nothing">>, <<"sent">>, <<"refused">>}
                                     \cup {<<"answered", t>> : t \in FreshToken}
    /\ created \subseteq FreshToken

(* The effect on opening resets everything.                                 *)
OpenModal ==
    /\ ~modalOpen /\ modalOpen' = TRUE
    /\ step' = "name" /\ submitting' = FALSE /\ failed' = FALSE /\ token' = NoFresh
    /\ UNCHANGED <<ask, created>>

(* Its cleanup drops the token. Esc and the backdrop close on the first     *)
(* step, Cancel too; the cross and Done close on any.                       *)
CloseModal(how) ==
    /\ modalOpen /\ modalOpen' = FALSE
    /\ how \in {"escape", "backdrop", "cancel"} => step = "name"
    /\ how = "done" => step = "snippet" /\ token # NoFresh
    /\ token' = NoFresh
    /\ UNCHANGED <<step, submitting, failed, ask, created>>

(* handleGenerate up to its await.                                          *)
HandleGenerate(q) ==
    /\ modalOpen /\ step = "name" /\ ~submitting
    /\ ask[q] = <<"nothing">>
    /\ ask' = [ask EXCEPT ![q] = <<"sent">>]
    /\ failed' = FALSE /\ submitting' = TRUE
    /\ UNCHANGED <<modalOpen, step, token, created>>

(* POST /api/settings/tokens.                                               *)
TokenServed(q, t) ==
    /\ ask[q] = <<"sent">> /\ t \notin created
    /\ created' = created \cup {t}
    /\ ask' = [ask EXCEPT ![q] = <<"answered", t>>]
    /\ UNCHANGED <<modalOpen, step, submitting, failed, token>>

TokenRefused(q) ==
    /\ ask[q] = <<"sent">>
    /\ ask' = [ask EXCEPT ![q] = <<"refused">>]
    /\ UNCHANGED <<modalOpen, step, submitting, failed, token, created>>

(* handleGenerate after its await, whatever became of the dialog.           *)
GenerateDone(q) ==
    /\ ask[q][1] = "answered"
    /\ ask' = [ask EXCEPT ![q] = <<"nothing">>]
    /\ token' = ask[q][2] /\ step' = "snippet" /\ submitting' = FALSE
    /\ UNCHANGED <<modalOpen, failed, created>>

(* A refusal, or no answer, before or after the server acted.               *)
GenerateFailed(q) ==
    /\ ask[q] # <<"nothing">>
    /\ ask' = [ask EXCEPT ![q] = <<"nothing">>]
    /\ failed' = TRUE /\ submitting' = FALSE
    /\ UNCHANGED <<modalOpen, step, token, created>>

MdInit ==
    /\ modalOpen = FALSE /\ step = "name"
    /\ submitting = FALSE /\ failed = FALSE /\ token = NoFresh
    /\ ask = [q \in Ask |-> <<"nothing">>] /\ created = {}

MdNext ==
    \/ OpenModal
    \/ \E how \in {"escape", "backdrop", "cancel", "cross", "done"} : CloseModal(how)
    \/ \E q \in Ask :
         \/ HandleGenerate(q) \/ TokenRefused(q) \/ GenerateDone(q) \/ GenerateFailed(q)
         \/ \E t \in FreshToken : TokenServed(q, t)

MdSpec == MdInit /\ [][MdNext]_mdVars

-----------------------------------------------------------------------------
(* Properties.                                                              *)

(* "The plaintext token never leaves React state. We clear it on close AND  *)
(* on next open": a closed dialog holds no token. It does not hold: the     *)
(* dialog can be closed with Esc while Generate is under way, and the       *)
(* answer then sets the token of a dialog that is closed. The token exists  *)
(* on the server, was never shown, and is forgotten at the next opening.    *)
ClosedModalHoldsNoToken == ~modalOpen => token = NoFresh
=============================================================================
