---------------------------- MODULE TokenLedger ----------------------------
(* What the settings API promises about agent tokens: a ledger from token   *)
(* id to display name.  A token appears when it is created, changes only    *)
(* when it is renamed, disappears only when it is revoked, and an id once   *)
(* issued never comes back.  Nothing here knows of files, of handshakes or  *)
(* of the event loop: TokenStore and AgentSession implement this.           *)
CONSTANTS
    Token,      \* ids randomUUID() may draw
    Name,       \* display names
    NoName      \* the ledger's value for an id that names no token; not a name

VARIABLES
    ledger,     \* the display name of every live token, or NoName
    issued      \* the ids ever handed out

ledgerVars == <<ledger, issued>>

LedgerTypeOK ==
    /\ ledger \in [Token -> Name \cup {NoName}]
    /\ issued \subseteq Token

LedgerInit ==
    /\ ledger = [t \in Token |-> NoName]
    /\ issued = {}

Issue(t, n) ==
    /\ t \notin issued
    /\ issued' = issued \cup {t}
    /\ ledger' = [ledger EXCEPT ![t] = n]

Relabel(t, n) ==
    /\ ledger[t] # NoName
    /\ ledger' = [ledger EXCEPT ![t] = n]
    /\ UNCHANGED issued

Withdraw(t) ==
    /\ ledger[t] # NoName
    /\ ledger' = [ledger EXCEPT ![t] = NoName]
    /\ UNCHANGED issued

LedgerNext ==
    \E t \in Token :
        \/ \E n \in Name : Issue(t, n) \/ Relabel(t, n)
        \/ Withdraw(t)

LedgerSpec == LedgerInit /\ [][LedgerNext]_ledgerVars
=============================================================================
