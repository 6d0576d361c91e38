-------------------------- MODULE LoginRateLimiter --------------------------
(* LoginRateLimiter of login-rate-limit.ts, driven by POST /api/auth.       *)
(*                                                                          *)
(* Every method of the class is synchronous, so acquire() is one step; the  *)
(* password check that follows it is awaited, so any number of admitted     *)
(* attempts may be pending while others arrive, and a pending attempt ends  *)
(* with reset() and recordSuccess(), or with nothing.                       *)
(*                                                                          *)
(* Times are clock ticks; Date.now() is taken not to run backwards.  The    *)
(* seconds of a refusal are left out, and so is the order of two entries    *)
(* with the same attempts and the same window (either may be evicted).      *)
EXTENDS Integers, FiniteSets, FiniteSetsExt, Sequences

CONSTANTS
    Client,             \* who asks: one address each
    Key, Parent,        \* client keys, and the /48 keys around some of them
    KeyOf, ParentOf,    \* getClientKeys(): a client's key and parent
    NoParent,           \* an IPv4 client has no parent
    Legit,              \* the clients that know the password
    MaxAttempts, MaxParentAttempts, \* LOGIN_MAX_ATTEMPTS, LOGIN_MAX_ATTEMPTS_PER_PARENT
    Window,             \* LOGIN_WINDOW_MS
    MaxKeys,            \* LOGIN_MAX_TRACKED_KEYS
    OverflowRefill, OverflowBurst,
    KnownMaxKeys, KnownTtl, KnownRefill, KnownGlobalRefill,
    NoEntry, NoKey,
    Horizon,            \* bound: the last tick
    MaxPending          \* bound: attempts being verified at once

Tracked == Key \cup Parent

(* A key names the first four groups of an address and a parent the first   *)
(* three of them, so clients with one key have one parent.                  *)
ASSUME LimiterAssumption ==
    /\ KeyOf \in [Client -> Key]
    /\ ParentOf \in [Client -> Parent \cup {NoParent}]
    /\ \A c, d \in Client : KeyOf[c] = KeyOf[d] => ParentOf[c] = ParentOf[d]
    /\ NoParent \notin Parent
    /\ Key \cap Parent = {}
    /\ NoKey \notin Tracked
    /\ Legit \subseteq Client
    /\ IsFiniteSet(Tracked)
    /\ {MaxAttempts, MaxParentAttempts, Window, OverflowRefill, OverflowBurst} \subseteq Nat \ {0}
    /\ {MaxKeys, KnownMaxKeys, KnownTtl, KnownRefill, KnownGlobalRefill} \subseteq Nat
    /\ {Horizon, MaxPending} \subseteq Nat

(* The budget an entry is created with; the two key spaces are disjoint, so *)
(* it is a function of the key.                                             *)
Budget(k) == IF k \in Parent THEN MaxParentAttempts ELSE MaxAttempts

Entry == [attempts : Nat, windowStart : Nat]

ASSUME NoEntryAssumption == NoEntry \notin Entry

(* -Infinity: so long ago that no interval has to be waited for.            *)
LongAgo == 0 - (KnownRefill + KnownGlobalRefill)

VARIABLES
    now,            \* Date.now()
    entries,        \* the counter table
    credit, stamp,  \* overflowCredit, overflowStamp
    order,          \* the keys of `known`, least recently successful first
    lastSuccess, lastReserved,      \* the values of `known`
    lastReservedAny,
    pending,        \* admitted attempts whose password is being verified
    overflowed, reserved            \* history: attempts the buckets let in

known == <<order, lastSuccess, lastReserved>>
overflow == <<credit, stamp, overflowed>>
reserve == <<lastReservedAny, reserved>>
vars == <<now, entries, credit, stamp, order, lastSuccess, lastReserved,
          lastReservedAny, pending, overflowed, reserved>>

Known == {order[i] : i \in DOMAIN order}

TableTypeOK ==
    /\ now \in Nat
    /\ entries \in [Tracked -> Entry \cup {NoEntry}]
    /\ pending \in [Client -> Nat]

BucketTypeOK ==
    /\ credit \in 0 .. OverflowBurst * OverflowRefill
    /\ stamp \in 0 .. now
    /\ lastReservedAny \in LongAgo .. now
    /\ overflowed \in Nat /\ reserved \in Nat

KnownTypeOK ==
    /\ order \in Seq(Tracked)
    /\ lastSuccess \in [Tracked -> Nat]
    /\ lastReserved \in [Tracked -> Int]

(* The types; the overflow bucket never holds more than its burst, and the  *)
(* buckets are never stamped later than now.                                *)
TypeOK == TableTypeOK /\ BucketTypeOK /\ KnownTypeOK

-----------------------------------------------------------------------------
(* The counter table.                                                       *)

Slots(c) == {KeyOf[c]} \cup ({ParentOf[c]} \ {NoParent})

Present == {k \in Tracked : entries[k] # NoEntry}
Expired == {k \in Present : now - entries[k].windowStart >= Window}
UsedUp == {k \in Present : entries[k].attempts >= Budget(k)}

(* liveEntry() of both slots: a window that is over is dropped.             *)
Live(c) == Present \ (Slots(c) \cap Expired)
Missing(c) == Slots(c) \ Live(c)
LockedOut(c) == Slots(c) \cap Live(c) \cap UsedUp # {}

(* makeRoom() drops nothing while there is room; otherwise all expired      *)
(* entries go, and then the least threatening ones.                         *)
Purged(c) ==
    IF Cardinality(Live(c)) + Cardinality(Missing(c)) <= MaxKeys
      THEN Live(c)
      ELSE Present \ Expired

(* Mutant: room is made for one entry, also when two are needed.            *)
Excess_Mutant(c) == Cardinality(Purged(c)) + 1 - MaxKeys

Excess(c) == Cardinality(Purged(c)) + Cardinality(Missing(c)) - MaxKeys

(* Mutant: a locked-out entry may be evicted too.                           *)
Evictable_Mutant(c) == Purged(c) \ Slots(c)

(* evictOne(): fewer attempts first, then the older window.                 *)
Evictable(c) == Purged(c) \ (Slots(c) \cup UsedUp)

Before(j, k) ==
    \/ entries[j].attempts < entries[k].attempts
    \/ /\ entries[j].attempts = entries[k].attempts
       /\ entries[j].windowStart <= entries[k].windowStart

HasRoom(c) == Missing(c) = {} \/ Excess(c) <= Cardinality(Evictable(c))

(* The sets of keys that may remain: evictOne() is called until the new     *)
(* entries fit, or until it finds nothing more to evict.                    *)
Remaining(c) ==
    LET purged == Purged(c)
        evictable == Evictable(c)
        excess == Excess(c)
    IN  IF Missing(c) = {} THEN {Live(c)}
        ELSE IF excess <= 0 THEN {purged}
        ELSE IF excess > Cardinality(evictable) THEN {purged \ evictable}
        ELSE {purged \ V : V \in {W \in SUBSET evictable :
                /\ Cardinality(W) = excess
                /\ \A j \in W, k \in evictable \ W : Before(j, k)}}

Table(keys) == [k \in Tracked |-> IF k \in keys THEN entries[k] ELSE NoEntry]

(* Mutant: only the client's own key is counted up.                         *)
Charged_Mutant(keys, c, tracked) ==
    [k \in Tracked |->
        IF k \in keys
          THEN IF k = KeyOf[c] THEN [entries[k] EXCEPT !.attempts = @ + 1] ELSE entries[k]
          ELSE IF tracked /\ k \in Slots(c) THEN [attempts |-> 1, windowStart |-> now]
               ELSE NoEntry]

(* Charging both slots: an entry there is counted up, a missing one is      *)
(* created if the request is tracked.                                       *)
Charged(keys, c, tracked) ==
    [k \in Tracked |->
        IF k \in keys
          THEN IF k \in Slots(c) THEN [entries[k] EXCEPT !.attempts = @ + 1] ELSE entries[k]
          ELSE IF tracked /\ k \in Slots(c) THEN [attempts |-> 1, windowStart |-> now]
               ELSE NoEntry]

-----------------------------------------------------------------------------
(* The known-good set.                                                      *)

(* Map.delete(): the other keys keep their order.                           *)
Deleted(seq, k) ==
    IF \E i \in 1 .. Len(seq) : seq[i] = k
      THEN LET at == CHOOSE i \in 1 .. Len(seq) : seq[i] = k
           IN  [i \in 1 .. Len(seq) - 1 |-> IF i < at THEN seq[i] ELSE seq[i + 1]]
      ELSE seq

(* touchKnown(): the key becomes the most recently successful one.          *)
Touched(seq, k) == Append(Deleted(seq, k), k)

Fresh(k) == k \in Known /\ now - lastSuccess[k] < KnownTtl

(* knownKeyFor(): the key, else the parent; a stale one met first is        *)
(* forgotten.                                                               *)
KnownKeyFor(c) ==
    IF Fresh(KeyOf[c]) THEN KeyOf[c]
    ELSE IF ParentOf[c] # NoParent /\ Fresh(ParentOf[c]) THEN ParentOf[c]
    ELSE NoKey

StaleFor(c) ==
    IF Fresh(KeyOf[c]) THEN {} ELSE {k \in Slots(c) : k \in Known /\ ~Fresh(k)}

ForgetStale(c) ==
    LET own == IF KeyOf[c] \in StaleFor(c) THEN Deleted(order, KeyOf[c]) ELSE order IN
    /\ order' = IF ParentOf[c] \in StaleFor(c) THEN Deleted(own, ParentOf[c]) ELSE own
    /\ lastSuccess' = [k \in Tracked |-> IF k \in StaleFor(c) THEN 0 ELSE lastSuccess[k]]

LastReservedKept(c) ==
    [k \in Tracked |-> IF k \in StaleFor(c) THEN LongAgo ELSE lastReserved[k]]

(* recordSuccess(): the parent first and the key last, then the least       *)
(* recently successful keys beyond the limit are dropped.                   *)
Refreshed(c) ==
    Touched(IF ParentOf[c] = NoParent THEN order ELSE Touched(order, ParentOf[c]), KeyOf[c])

(* Mutant: a key beyond the limit is dropped at the next login only.        *)
Kept_Mutant(seq) ==
    IF Len(seq) <= KnownMaxKeys + 1 THEN seq
    ELSE SubSeq(seq, Len(seq) - KnownMaxKeys, Len(seq))

Kept(seq) ==
    IF Len(seq) <= KnownMaxKeys THEN seq
    ELSE SubSeq(seq, Len(seq) - KnownMaxKeys + 1, Len(seq))

RecordSuccess(c) ==
    LET still == {Kept(Refreshed(c))[i] : i \in DOMAIN Kept(Refreshed(c))} IN
    /\ order' = Kept(Refreshed(c))
    /\ lastSuccess' = [k \in Tracked |->
                         IF k \notin still THEN 0
                         ELSE IF k \in Slots(c) THEN now ELSE lastSuccess[k]]
    /\ lastReserved' = [k \in Tracked |-> IF k \in still THEN lastReserved[k] ELSE LongAgo]

-----------------------------------------------------------------------------
(* The two buckets for requests that cannot be tracked.                     *)

Lesser(m, n) == IF m <= n THEN m ELSE n
(* Mutant: the bucket grows without a limit.                                *)
Refilled_Mutant == credit + (now - stamp)

Refilled == Lesser(OverflowBurst * OverflowRefill, credit + (now - stamp))

(* Mutant: a refusal refills the bucket and forgets when.                   *)
TakeOverflowToken_Mutant(granted) ==
    /\ granted = (Refilled >= OverflowRefill)
    /\ credit' = IF granted THEN Refilled - OverflowRefill ELSE Refilled
    /\ stamp' = IF granted THEN now ELSE stamp
    /\ overflowed' = IF granted THEN overflowed + 1 ELSE overflowed

TakeOverflowToken(granted) ==
    /\ granted = (Refilled >= OverflowRefill)
    /\ credit' = IF granted THEN Refilled - OverflowRefill ELSE Refilled
    /\ stamp' = now
    /\ overflowed' = IF granted THEN overflowed + 1 ELSE overflowed

ReserveFree(k) ==
    /\ now >= lastReserved[k] + KnownRefill
    /\ now >= lastReservedAny + KnownGlobalRefill

TakeReservedToken(c, granted) ==
    LET k == KnownKeyFor(c) IN
    /\ granted = ReserveFree(k)
    /\ lastReserved' = IF granted THEN [LastReservedKept(c) EXCEPT ![k] = now]
                                  ELSE LastReservedKept(c)
    /\ lastReservedAny' = IF granted THEN now ELSE lastReservedAny
    /\ reserved' = IF granted THEN reserved + 1 ELSE reserved

-----------------------------------------------------------------------------
(* POST /api/auth.                                                          *)

Init ==
    /\ now = 0
    /\ entries = [k \in Tracked |-> NoEntry]
    /\ credit = OverflowBurst * OverflowRefill
    /\ stamp = 0
    /\ order = <<>>
    /\ lastSuccess = [k \in Tracked |-> 0]
    /\ lastReserved = [k \in Tracked |-> LongAgo]
    /\ lastReservedAny = LongAgo
    /\ pending = [c \in Client |-> 0]
    /\ overflowed = 0
    /\ reserved = 0

Admit(c) == pending' = [pending EXCEPT ![c] = @ + 1]
Arrives(c) == MapThenSumSet(LAMBDA d : pending[d], Client) < MaxPending

(* A budget is used up: 429, and nobody is charged.                         *)
RefuseLockedOut(c) ==
    /\ Arrives(c)
    /\ LockedOut(c)
    /\ entries' = Table(Live(c))
    /\ UNCHANGED <<now, known, overflow, reserve, pending>>

AdmitTracked(c) ==
    /\ Arrives(c)
    /\ ~LockedOut(c)
    /\ HasRoom(c)
    /\ \E keys \in Remaining(c) : entries' = Charged(keys, c, TRUE)
    /\ Admit(c)
    /\ UNCHANGED <<now, known, overflow, reserve>>

(* makeRoom() failed: what it evicted on the way is gone all the same, and  *)
(* one of the buckets decides.                                              *)
Untracked(c, granted) ==
    /\ Arrives(c)
    /\ ~LockedOut(c)
    /\ ~HasRoom(c)
    /\ \E keys \in Remaining(c) :
         entries' = IF granted THEN Charged(keys, c, FALSE) ELSE Table(keys)
    /\ ForgetStale(c)
    /\ IF granted THEN Admit(c) ELSE UNCHANGED pending
    /\ UNCHANGED now

UseOverflow(c, granted) ==
    /\ KnownKeyFor(c) = NoKey
    /\ Untracked(c, granted)
    /\ TakeOverflowToken(granted)
    /\ lastReserved' = LastReservedKept(c)
    /\ UNCHANGED reserve

UseReserve(c, granted) ==
    /\ KnownKeyFor(c) # NoKey
    /\ Untracked(c, granted)
    /\ TakeReservedToken(c, granted)
    /\ UNCHANGED overflow

(* Mutant: an attempt is recorded as a success before it is verified.       *)
VerifyFails_Mutant(c) ==
    /\ pending[c] > 0
    /\ pending' = [pending EXCEPT ![c] = @ - 1]
    /\ RecordSuccess(c)
    /\ UNCHANGED <<now, entries, overflow, reserve>>

(* The password was wrong.                                                  *)
VerifyFails(c) ==
    /\ pending[c] > 0
    /\ pending' = [pending EXCEPT ![c] = @ - 1]
    /\ UNCHANGED <<now, entries, known, overflow, reserve>>

(* The password was right: reset(), then recordSuccess().                   *)
VerifySucceeds(c) ==
    /\ c \in Legit
    /\ pending[c] > 0
    /\ pending' = [pending EXCEPT ![c] = @ - 1]
    /\ entries' = Table(Present \ Slots(c))
    /\ RecordSuccess(c)
    /\ UNCHANGED <<now, overflow, reserve>>

Tick ==
    /\ now < Horizon
    /\ now' = now + 1
    /\ UNCHANGED <<entries, known, overflow, reserve, pending>>

Next ==
    \/ \E c \in Client : RefuseLockedOut(c)
    \/ \E c \in Client : AdmitTracked(c)
    \/ \E c \in Client, granted \in BOOLEAN : UseOverflow(c, granted)
    \/ \E c \in Client, granted \in BOOLEAN : UseReserve(c, granted)
    \/ \E c \in Client : VerifyFails(c)
    \/ \E c \in Client : VerifySucceeds(c)
    \/ Tick

Spec == Init /\ [][Next]_vars

-----------------------------------------------------------------------------
(* Properties.                                                              *)

(* The table stays within MaxKeys, however many keys arrive at once and     *)
(* however many of its entries may not be evicted.                          *)
TableIsBounded == Cardinality(Present) <= MaxKeys

(* The known set stays within KnownMaxKeys and holds no key twice, although *)
(* a login adds two keys at once.                                           *)
KnownIsBounded ==
    /\ Len(order) <= KnownMaxKeys
    /\ Cardinality(Known) = Len(order)

LockoutStep ==
    \A k \in UsedUp \ Expired :
        \/ entries'[k] = entries[k]
        \/ \E c \in Legit : k \in Slots(c) /\ pending'[c] < pending[c]

(* Until its window ends nothing lifts, shortens or extends a lockout but a *)
(* login with the right password from behind that key: no flood of other    *)
(* keys evicts it, and refused attempts do not add to it.                   *)
LockoutIsFixed == [][LockoutStep]_vars

Children(p) == {KeyOf[c] : c \in {d \in Client : ParentOf[d] = p}}

LaterChildren(p) ==
    {k \in Children(p) : /\ entries[k] # NoEntry
                         /\ entries[k].windowStart > entries[p].windowStart}

(* The attempts on the accounts of those children, numbered per child.      *)
ChildAttempts(p) == UNION {{k} \X (1 .. entries[k].attempts) : k \in LaterChildren(p)}

(* Attempts that a /48 saw since its window began are all on its account:   *)
(* the attempts of its clients whose windows began later never add up to    *)
(* more than its own count, through evictions, lost windows, successful     *)
(* logins and attempts that were let in untracked.                          *)
ParentCountsItsChildren ==
    \A p \in Parent :
        entries[p] # NoEntry => Cardinality(ChildAttempts(p)) <= entries[p].attempts

(* What clients can guess without being tracked is capped by the clock, for *)
(* all of them together: the shared bucket lets in its burst and then one   *)
(* attempt per refill interval, the reserved one an attempt per interval.   *)
UntrackedGuessesAreCapped ==
    /\ overflowed * OverflowRefill + credit <= OverflowBurst * OverflowRefill + stamp
    /\ reserved > 0 => (reserved - 1) * KnownGlobalRefill <= lastReservedAny

KnownStep ==
    /\ \A k \in Known' \ Known :
         \E c \in Legit : k \in Slots(c) /\ pending'[c] < pending[c]
    /\ \A k \in Known \ Known' :
         \/ now - lastSuccess[k] >= KnownTtl
         \/ \E c \in Legit : k \notin Slots(c) /\ pending'[c] < pending[c]

(* The known-good set follows the successful logins alone: only a client    *)
(* that knows the password puts its keys there, and only age or another     *)
(* such client takes a key out.  No number of failed attempts does either.  *)
KnownIsEarned == [][KnownStep]_vars

(* docs/configuration.md: one /48 can hold at most so many locked entries   *)
(* as its budget pays for, and its own.                                     *)
OneParentLocksFew ==
    \A p \in Parent :
        Cardinality((Children(p) \cup {p}) \cap (UsedUp \ Expired))
            <= MaxParentAttempts \div MaxAttempts + 1
=============================================================================
