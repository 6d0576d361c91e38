--------------------------- MODULE PasswordRoutes ---------------------------
(* Signing in and changing the password: POST and DELETE /api/auth, POST    *)
(* /api/auth/change-password, the session cookie, and password.json.        *)
(*                                                                          *)
(* A request runs to its first await in one step (Admit): the password that *)
(* will be compared is picked there, and one attempt is counted.  The       *)
(* comparison is answered later, whatever the others have done meanwhile; a *)
(* change then waits once more, for bcrypt.hash, before it writes.          *)
(*                                                                          *)
(* A request the routes refuse before that (not JSON, a missing field, a    *)
(* new password that is short or not confirmed, no session, an unreadable   *)
(* store, no password configured, over the limit) changes no state and is   *)
(* no step.  The limiters are counters here; LoginRateLimiter models them.  *)
EXTENDS Naturals, FiniteSets

CONSTANTS
    PwRequest,      \* requests being served
    Browser,        \* clients: a limiter key and a cookie jar each
    Chosen,         \* passwords users choose
    EnvHash, EnvPlain, DevDefault,
                    \* ADMIN_PASSWORD_HASH, ADMIN_PASSWORD, 'admin'
    Environments,   \* the environments to start in
    NoPassword, Unreadable, NoRequest,
    AttemptLimit    \* attempts a limiter admits in a window

VARIABLES
    env,            \* the environment: which passwords it sets, NODE_ENV
    stored,         \* the hash in password.json, by the password it is of
    readable,       \* password.json reads as an object with a usable hash
    writable,       \* its directory can be written
    pwRequest,      \* requests that were admitted
    attempts,       \* loginRateLimiter and passwordChangeRateLimiter
    signedIn        \* browsers that hold a valid session cookie

pwVars == <<env, stored, readable, writable, pwRequest, attempts, signedIn>>

Route == {"login", "change"}
Password == Chosen \cup {EnvHash, EnvPlain, DevDefault}

Environment ==
    [hash : {EnvHash, NoPassword}, plain : {EnvPlain, NoPassword}, production : BOOLEAN]

(* against: what the given password is compared with, right: whether they   *)
(* are equal; stale: password.json was replaced or removed since the        *)
(* request was admitted, which only the properties look at.                 *)
AdmittedRequest ==
    [route : Route, browser : Browser, right : BOOLEAN, wanted : Chosen \cup {NoPassword},
     against : Password, stage : {"verifying", "hashing"}, stale : BOOLEAN]

ASSUME PasswordAssumption ==
    /\ Environments \subseteq Environment
    /\ AttemptLimit \in Nat \ {0}
    /\ NoPassword \notin Password
    /\ Unreadable \notin Password \cup {NoPassword}
    /\ {EnvHash, EnvPlain, DevDefault} \cap Chosen = {}
    /\ NoRequest \notin AdmittedRequest

PwTypeOK ==
    /\ env \in Environment
    /\ stored \in Chosen \cup {NoPassword}
    /\ {readable, writable} \subseteq BOOLEAN
    /\ pwRequest \in [PwRequest -> AdmittedRequest \cup {NoRequest}]
    /\ attempts \in [Route -> [Browser -> 0 .. AttemptLimit]]
    /\ signedIn \subseteq Browser

Busy(r) == pwRequest[r] # NoRequest

-----------------------------------------------------------------------------
(* Mutants: definitions named ..._Mutant are faults that the properties      *)
(* below must tell from the code; no other definition uses them.            *)

(* Mutant: what cannot be read is a store without a password.               *)
ReadPasswordConfig_Mutant == IF readable THEN stored ELSE NoPassword

(* readPasswordConfig(): the persisted password, none, or an exception.     *)
ReadPasswordConfig == IF readable THEN stored ELSE Unreadable

(* The password a request is compared with, or none: the persisted one,     *)
(* the environment's, and outside production (on the change route,          *)
(* everywhere) the default.  An exception is answered with 500.             *)
Verifier(route) ==
    IF ReadPasswordConfig = Unreadable THEN NoPassword
    ELSE IF ReadPasswordConfig # NoPassword THEN ReadPasswordConfig
    ELSE IF env.hash # NoPassword THEN env.hash
    ELSE IF env.plain # NoPassword THEN env.plain
    ELSE IF route = "login" /\ env.production THEN NoPassword
    ELSE DevDefault

CountedAs(route, b, n) == [attempts EXCEPT ![route][b] = n]

Admit(r, route, b, right, wanted) ==
    /\ ~Busy(r)
    /\ Verifier(route) # NoPassword
    /\ attempts[route][b] < AttemptLimit
    /\ attempts' = CountedAs(route, b, attempts[route][b] + 1)
    /\ pwRequest' = [pwRequest EXCEPT ![r] =
         [route |-> route, browser |-> b, right |-> right, wanted |-> wanted,
          against |-> Verifier(route), stage |-> "verifying", stale |-> FALSE]]
    /\ UNCHANGED <<env, stored, readable, writable, signedIn>>

AdmitLogin(r, b, right) == Admit(r, "login", b, right, NoPassword)

AdmitChange(r, b, right, wanted) ==
    b \in signedIn /\ Admit(r, "change", b, right, wanted)

Answered(r) == [pwRequest EXCEPT ![r] = NoRequest]

(* 401: the attempt stays counted.                                          *)
Refuse(r) ==
    /\ Busy(r)
    /\ pwRequest[r].stage = "verifying"
    /\ ~pwRequest[r].right
    /\ pwRequest' = Answered(r)
    /\ UNCHANGED <<env, stored, readable, writable, attempts, signedIn>>

(* The rest of POST /api/auth: the count is cleared, the cookie is set.     *)
LoginSucceeds(r) ==
    /\ Busy(r)
    /\ pwRequest[r].route = "login"
    /\ pwRequest[r].right
    /\ attempts' = CountedAs("login", pwRequest[r].browser, 0)
    /\ signedIn' = signedIn \cup {pwRequest[r].browser}
    /\ pwRequest' = Answered(r)
    /\ UNCHANGED <<env, stored, readable, writable>>

ChangeVerified(r) ==
    /\ Busy(r)
    /\ pwRequest[r].route = "change"
    /\ pwRequest[r].stage = "verifying"
    /\ pwRequest[r].right
    /\ attempts' = CountedAs("change", pwRequest[r].browser, 0)
    /\ pwRequest' = [pwRequest EXCEPT ![r].stage = "hashing"]
    /\ UNCHANGED <<env, stored, readable, writable, signedIn>>

(* password.json has a new content, or is gone: what runs is out of date.   *)
Outdated(requests) ==
    [q \in PwRequest |->
        IF requests[q] = NoRequest THEN NoRequest
        ELSE [requests[q] EXCEPT !.stale = TRUE]]

(* writePasswordConfig() replaces the file whatever state it was in.        *)
ChangeSaved(r) ==
    /\ writable
    /\ stored' = pwRequest[r].wanted
    /\ readable' = TRUE
    /\ pwRequest' = Outdated(Answered(r))

(* A write that throws: 500, the file is what it was.                       *)
ChangeLost(r) ==
    /\ ~writable
    /\ pwRequest' = Answered(r)
    /\ UNCHANGED <<stored, readable>>

ChangeEnds(r) ==
    /\ Busy(r)
    /\ pwRequest[r].stage = "hashing"
    /\ ChangeSaved(r) \/ ChangeLost(r)
    /\ UNCHANGED <<env, writable, attempts, signedIn>>

(* DELETE /api/auth, which the settings page also calls after a change; and *)
(* the end of a token's 24 hours.                                           *)
SessionEnds(b) ==
    /\ signedIn' = signedIn \ {b}
    /\ UNCHANGED <<env, stored, readable, writable, pwRequest, attempts>>

-----------------------------------------------------------------------------
(* The limiters' window, the disk, the operator, the process.               *)

WindowEnds(route, b) ==
    /\ attempts' = CountedAs(route, b, 0)
    /\ UNCHANGED <<env, stored, readable, writable, pwRequest, signedIn>>

StoreDamaged ==
    /\ stored # NoPassword
    /\ readable' = FALSE
    /\ UNCHANGED <<env, stored, writable, pwRequest, attempts, signedIn>>

StoreRepaired ==
    /\ readable' = TRUE
    /\ UNCHANGED <<env, stored, writable, pwRequest, attempts, signedIn>>

DirectoryMode ==
    /\ writable' = ~writable
    /\ UNCHANGED <<env, stored, readable, pwRequest, attempts, signedIn>>

(* The documented recovery: remove password.json.                           *)
StoreRemoved ==
    /\ stored' = NoPassword
    /\ readable' = TRUE
    /\ pwRequest' = Outdated(pwRequest)
    /\ UNCHANGED <<env, writable, attempts, signedIn>>

(* Cookies outlive the process: the secret is configuration.                *)
ServerRestarts ==
    /\ pwRequest' = [r \in PwRequest |-> NoRequest]
    /\ attempts' = [route \in Route |-> [b \in Browser |-> 0]]
    /\ UNCHANGED <<env, stored, readable, writable, signedIn>>

PwInit ==
    /\ env \in Environments
    /\ stored = NoPassword
    /\ readable = TRUE
    /\ writable = TRUE
    /\ pwRequest = [r \in PwRequest |-> NoRequest]
    /\ attempts = [route \in Route |-> [b \in Browser |-> 0]]
    /\ signedIn = {}

PwNext ==
    \/ \E r \in PwRequest, b \in Browser, right \in BOOLEAN : AdmitLogin(r, b, right)
    \/ \E r \in PwRequest, b \in Browser, right \in BOOLEAN, w \in Chosen :
         AdmitChange(r, b, right, w)
    \/ \E r \in PwRequest :
         Refuse(r) \/ LoginSucceeds(r) \/ ChangeVerified(r) \/ ChangeEnds(r)
    \/ \E b \in Browser : SessionEnds(b)
    \/ \E route \in Route, b \in Browser : WindowEnds(route, b)
    \/ StoreDamaged \/ StoreRepaired \/ DirectoryMode \/ StoreRemoved
    \/ ServerRestarts

PwSpec == PwInit /\ [][PwNext]_pwVars

-----------------------------------------------------------------------------
(* Properties.                                                              *)

(* The password in force: the persisted one as long as there is one,        *)
(* whether or not it can be read at the moment.                             *)
InForce(route) ==
    CASE stored # NoPassword -> {stored}
      [] stored = NoPassword /\ env.hash # NoPassword -> {env.hash}
      [] stored = NoPassword /\ env.hash = NoPassword /\ env.plain # NoPassword -> {env.plain}
      [] OTHER -> IF route = "change" \/ ~env.production THEN {DevDefault} ELSE {}

(* Logins and changes are compared with the password in force, unless it    *)
(* was changed or removed while they ran: a store that breaks, two changes  *)
(* that overlap or a login that a change overtakes bring no retired         *)
(* password back for any request that starts later (the order of the        *)
(* checks in both routes, and DataFileError instead of the default).        *)
RetiredStaysRetired ==
    \A r \in PwRequest : Busy(r) =>
        pwRequest[r].stale \/ pwRequest[r].against \in InForce(pwRequest[r].route)
=============================================================================
