---------------------- MODULE LoginRateLimiter_proofs ----------------------
(* Theorems about LoginRateLimiter for every number of clients and every    *)
(* setting of the limits.                                                   *)
EXTENDS LoginRateLimiter, FiniteSetTheorems, TLAPS

-----------------------------------------------------------------------------
(* Types of the table and the buckets.                                      *)

(* What a request leaves in the table is a table again.                     *)
LEMMA TablesAreTables ==
    ASSUME TableTypeOK, NEW c \in Client, NEW keys \in SUBSET Present
    PROVE  /\ Table(keys) \in [Tracked -> Entry \cup {NoEntry}]
           /\ \A tracked \in BOOLEAN :
                Charged(keys, c, tracked) \in [Tracked -> Entry \cup {NoEntry}]
<1>1. \A k \in keys : k \in Tracked /\ entries[k] \in Entry
  BY DEF TableTypeOK, Present
<1>2. \A k \in keys : [entries[k] EXCEPT !.attempts = @ + 1] \in Entry
  BY <1>1 DEF Entry
<1>3. [attempts |-> 1, windowStart |-> now] \in Entry
  BY DEF TableTypeOK, Entry
<1>4. Table(keys) \in [Tracked -> Entry \cup {NoEntry}]
  BY <1>1 DEF Table
<1>5. ASSUME NEW tracked \in BOOLEAN
      PROVE  Charged(keys, c, tracked) \in [Tracked -> Entry \cup {NoEntry}]
  BY <1>1, <1>2, <1>3 DEF Charged
<1> QED
  BY <1>4, <1>5

(* acquire() keeps only entries that were there.                            *)
LEMMA RemainingWerePresent ==
    ASSUME NEW c \in Client
    PROVE  /\ Live(c) \subseteq Present
           /\ Purged(c) \subseteq Present
           /\ \A keys \in Remaining(c) : keys \subseteq Present
BY DEF Live, Purged, Remaining

(* The actions that end acquire(), seen from the table.                     *)
LEMMA AcquireSteps ==
    ASSUME NEW c \in Client, NEW granted \in BOOLEAN, Untracked(c, granted)
    PROVE  /\ ~LockedOut(c)
           /\ ~HasRoom(c)
           /\ now' = now
           /\ \E keys \in Remaining(c) :
                \/ entries' = Charged(keys, c, FALSE)
                \/ entries' = Table(keys)
           /\ pending' = pending \/ Admit(c)
BY DEF Untracked

LEMMA TableTypeInductive == TableTypeOK /\ [Next]_vars => TableTypeOK'
<1> SUFFICES ASSUME TableTypeOK, [Next]_vars PROVE TableTypeOK'
  OBVIOUS
<1> USE DEF TableTypeOK
<1>1. ASSUME NEW c \in Client, Admit(c) PROVE pending' \in [Client -> Nat]
  BY <1>1 DEF Admit
<1>2. ASSUME NEW c \in Client, pending[c] > 0, pending' = [pending EXCEPT ![c] = @ - 1]
      PROVE  pending' \in [Client -> Nat]
  BY <1>2
<1>3. CASE \E c \in Client : RefuseLockedOut(c)
  BY <1>3, TablesAreTables, RemainingWerePresent DEF RefuseLockedOut
<1>4. CASE \E c \in Client : AdmitTracked(c)
  BY <1>4, <1>1, TablesAreTables, RemainingWerePresent DEF AdmitTracked
<1>5. ASSUME NEW c \in Client, NEW granted \in BOOLEAN, Untracked(c, granted)
      PROVE  TableTypeOK'
  <2>1. now' = now /\ pending' \in [Client -> Nat]
    BY <1>5, <1>1, AcquireSteps
  <2>2. PICK keys \in Remaining(c) :
             entries' = Charged(keys, c, FALSE) \/ entries' = Table(keys)
    BY <1>5, AcquireSteps
  <2>3. keys \in SUBSET Present
    BY RemainingWerePresent
  <2> QED
    BY <2>1, <2>2, <2>3, TablesAreTables
<1>6. CASE \E c \in Client, granted \in BOOLEAN : UseOverflow(c, granted)
  BY <1>6, <1>5 DEF UseOverflow
<1>7. CASE \E c \in Client, granted \in BOOLEAN : UseReserve(c, granted)
  BY <1>7, <1>5 DEF UseReserve
<1>8. CASE \E c \in Client : VerifyFails(c)
  BY <1>8, <1>2 DEF VerifyFails
<1>9. CASE \E c \in Client : VerifySucceeds(c)
  <2> PICK c \in Client : VerifySucceeds(c)
    BY <1>9
  <2>1. Present \ Slots(c) \in SUBSET Present
    OBVIOUS
  <2> QED
    BY <2>1, <1>2, TablesAreTables DEF VerifySucceeds
<1>10. CASE Tick
  BY <1>10 DEF Tick
<1>11. CASE UNCHANGED vars
  BY <1>11 DEF vars
<1> QED
  BY <1>3, <1>4, <1>6, <1>7, <1>8, <1>9, <1>10, <1>11 DEF Next

LEMMA TableTypeInit == Init => TableTypeOK
BY DEF Init, TableTypeOK

-----------------------------------------------------------------------------
(* Lockouts.                                                                *)

(* A locked-out entry is not evicted, and not charged by a request that is  *)
(* not refused.                                                             *)
LEMMA LockedEntriesRemain ==
    ASSUME NEW c \in Client, NEW k \in UsedUp \ Expired
    PROVE  /\ k \in Live(c)
           /\ \A keys \in Remaining(c) : k \in keys
           /\ ~LockedOut(c) => k \notin Slots(c)
<1>1. k \in Live(c) /\ k \in Purged(c) /\ k \in Tracked
  BY DEF Live, Purged, UsedUp, Present
<1>2. k \notin Evictable(c)
  BY DEF Evictable
<1>3. \A keys \in Remaining(c) : k \in keys
  BY <1>1, <1>2 DEF Remaining
<1>4. ~LockedOut(c) => k \notin Slots(c)
  BY <1>1 DEF LockedOut
<1> QED
  BY <1>1, <1>3, <1>4

LEMMA LockoutHolds == TableTypeOK /\ [Next]_vars => LockoutStep
<1> SUFFICES ASSUME TableTypeOK, [Next]_vars, NEW k \in UsedUp \ Expired
             PROVE  \/ entries'[k] = entries[k]
                    \/ \E c \in Legit : k \in Slots(c) /\ pending'[c] < pending[c]
  BY DEF LockoutStep
<1>1. k \in Tracked /\ k \in Present
  BY DEF UsedUp, Present
<1>2. ASSUME NEW keys, k \in keys PROVE Table(keys)[k] = entries[k]
  BY <1>1, <1>2 DEF Table
<1>3. ASSUME NEW keys, k \in keys, NEW c \in Client, k \notin Slots(c), NEW tracked \in BOOLEAN
      PROVE  Charged(keys, c, tracked)[k] = entries[k]
  BY <1>1, <1>3 DEF Charged
<1>4. CASE \E c \in Client : RefuseLockedOut(c)
  BY <1>4, <1>2, LockedEntriesRemain DEF RefuseLockedOut
<1>5. CASE \E c \in Client : AdmitTracked(c)
  <2> PICK c \in Client : AdmitTracked(c)
    BY <1>5
  <2>1. PICK keys \in Remaining(c) : entries' = Charged(keys, c, TRUE)
    BY DEF AdmitTracked
  <2>2. k \in keys /\ k \notin Slots(c)
    BY LockedEntriesRemain DEF AdmitTracked
  <2> QED
    BY <2>1, <2>2, <1>3
<1>6. ASSUME NEW c \in Client, NEW granted \in BOOLEAN, Untracked(c, granted)
      PROVE  entries'[k] = entries[k]
  <2>1. PICK keys \in Remaining(c) :
             entries' = Charged(keys, c, FALSE) \/ entries' = Table(keys)
    BY <1>6, AcquireSteps
  <2>2. k \in keys /\ k \notin Slots(c)
    BY <1>6, AcquireSteps, LockedEntriesRemain
  <2>3. Charged(keys, c, FALSE)[k] = entries[k]
    BY <2>2, <1>3
  <2>4. Table(keys)[k] = entries[k]
    BY <2>2, <1>2
  <2> QED
    BY <2>1, <2>3, <2>4
<1>7. CASE \E c \in Client, granted \in BOOLEAN : UseOverflow(c, granted)
  BY <1>7, <1>6 DEF UseOverflow
<1>8. CASE \E c \in Client, granted \in BOOLEAN : UseReserve(c, granted)
  BY <1>8, <1>6 DEF UseReserve
<1>9. CASE \E c \in Client : VerifySucceeds(c)
  <2> PICK c \in Client : VerifySucceeds(c)
    BY <1>9
  <2>1. CASE k \in Slots(c)
    <3>1. c \in Legit /\ pending'[c] = pending[c] - 1 /\ pending[c] \in Nat
      BY DEF VerifySucceeds, TableTypeOK
    <3> QED
      BY <2>1, <3>1
  <2>2. CASE k \notin Slots(c)
    BY <2>2, <1>1, <1>2 DEF VerifySucceeds
  <2> QED
    BY <2>1, <2>2
<1>10. CASE \E c \in Client : VerifyFails(c)
  BY <1>10 DEF VerifyFails
<1>11. CASE Tick \/ UNCHANGED vars
  BY <1>11 DEF Tick, vars
<1> QED
  BY <1>4, <1>5, <1>7, <1>8, <1>9, <1>10, <1>11 DEF Next

(* acquire(), reset(): nothing lifts, shortens or extends a lockout before  *)
(* its window ends, except a login with the right password.                 *)
THEOREM LockoutsHold == Spec => LockoutIsFixed
<1>1. TableTypeOK /\ [Next]_vars => LockoutStep
  BY LockoutHolds
<1> QED
  BY <1>1, TableTypeInit, TableTypeInductive, PTL DEF Spec, LockoutIsFixed
-----------------------------------------------------------------------------
(* The size of the table.                                                   *)

(* Only the request's own keys are new in the table.                        *)
LEMMA PresentAfter ==
    ASSUME NEW c \in Client, NEW keys \in SUBSET Present, NEW tracked \in BOOLEAN,
           TableTypeOK
    PROVE  /\ entries' = Table(keys) => Present' = keys
           /\ entries' = Charged(keys, c, FALSE) => Present' = keys
           /\ entries' = Charged(keys, c, TRUE) => Present' \subseteq keys \cup Slots(c)
<1>1. \A k \in keys : k \in Tracked /\ entries[k] \in Entry
  BY DEF Present, TableTypeOK
<1>2. entries' = Table(keys) => Present' = keys
  BY <1>1, NoEntryAssumption DEF Present, Table
<1>3. \A k \in keys : [entries[k] EXCEPT !.attempts = @ + 1] \in Entry
  BY <1>1 DEF Entry
<1>4. entries' = Charged(keys, c, FALSE) => Present' = keys
  BY <1>1, <1>3, NoEntryAssumption DEF Present, Charged
<1>5. entries' = Charged(keys, c, TRUE) => Present' \subseteq keys \cup Slots(c)
  BY DEF Present, Charged
<1> QED
  BY <1>2, <1>4, <1>5

LEMMA PresentIsFinite ==
    /\ IsFiniteSet(Present)
    /\ \A S \in SUBSET Present : IsFiniteSet(S) /\ Cardinality(S) <= Cardinality(Present)
                                /\ Cardinality(S) \in Nat
<1>1. IsFiniteSet(Present)
  BY FS_Subset, LimiterAssumption DEF Present
<1>2. ASSUME NEW S \in SUBSET Present
      PROVE  IsFiniteSet(S) /\ Cardinality(S) <= Cardinality(Present) /\ Cardinality(S) \in Nat
  BY <1>1, FS_Subset, FS_CardinalityType
<1> QED
  BY <1>1, <1>2

(* makeRoom() makes room.                                                   *)
LEMMA RoomIsMade ==
    ASSUME NEW c \in Client, HasRoom(c), Missing(c) # {}, NEW keys \in Remaining(c)
    PROVE  Cardinality(keys) + Cardinality(Missing(c)) <= MaxKeys
<1>1. MaxKeys \in Nat
  BY LimiterAssumption
<1>2. Slots(c) \subseteq Tracked
  BY LimiterAssumption DEF Slots, Tracked
<1>3. IsFiniteSet(Missing(c)) /\ Cardinality(Missing(c)) \in Nat
  BY <1>2, LimiterAssumption, FS_Subset, FS_CardinalityType DEF Missing
<1>4. Purged(c) \in SUBSET Present /\ Evictable(c) \in SUBSET Purged(c)
  BY RemainingWerePresent DEF Evictable
<1>5. /\ IsFiniteSet(Purged(c)) /\ Cardinality(Purged(c)) \in Nat
      /\ IsFiniteSet(Evictable(c)) /\ Cardinality(Evictable(c)) \in Nat
  BY <1>4, PresentIsFinite, FS_Subset, FS_CardinalityType
<1>6. Excess(c) \in Int /\ Excess(c) <= Cardinality(Evictable(c))
  BY <1>1, <1>3, <1>5 DEF HasRoom, Excess
<1>7. CASE Excess(c) <= 0
  <2>1. keys = Purged(c)
    BY <1>7 DEF Remaining
  <2> QED
    BY <2>1, <1>1, <1>3, <1>5, <1>7 DEF Excess
<1>8. CASE ~(Excess(c) <= 0)
  <2>1. ~(Excess(c) > Cardinality(Evictable(c)))
    BY <1>5, <1>6
  <2>2. PICK W \in SUBSET Evictable(c) :
             Cardinality(W) = Excess(c) /\ keys = Purged(c) \ W
    BY <1>8, <2>1 DEF Remaining
  <2>3. W \subseteq Purged(c) /\ IsFiniteSet(W)
    BY <1>4, <1>5, FS_Subset
  <2>4. Cardinality(keys) = Cardinality(Purged(c)) - Cardinality(Purged(c) \cap W)
    BY <2>2, <1>5, FS_Difference
  <2>5. Purged(c) \cap W = W
    BY <2>3
  <2>6. Cardinality(keys) = Cardinality(Purged(c)) - Excess(c)
    BY <2>2, <2>4, <2>5, Zenon
  <2> QED
    BY <2>6, <1>1, <1>3, <1>5 DEF Excess
<1> QED
  BY <1>7, <1>8

LEMMA TableBoundInductive ==
    TableTypeOK /\ TableIsBounded /\ [Next]_vars => TableIsBounded'
<1> SUFFICES ASSUME TableTypeOK, TableIsBounded, [Next]_vars PROVE TableIsBounded'
  OBVIOUS
<1>1. MaxKeys \in Nat /\ Cardinality(Present) \in Nat
  BY LimiterAssumption, PresentIsFinite
<1>2. ASSUME Present' \in SUBSET Present PROVE TableIsBounded'
  BY <1>1, <1>2, PresentIsFinite DEF TableIsBounded
<1>3. ASSUME NEW keys \in SUBSET Present, entries' = Table(keys) PROVE TableIsBounded'
  <2>1. Present' = keys
    BY <1>3 DEF Present, Table, TableTypeOK
  <2> QED
    BY <2>1, <1>2
<1>4. CASE \E c \in Client : RefuseLockedOut(c)
  BY <1>4, <1>3, RemainingWerePresent DEF RefuseLockedOut
<1>5. CASE \E c \in Client : AdmitTracked(c)
  <2> PICK c \in Client : AdmitTracked(c)
    BY <1>5
  <2>1. PICK keys \in Remaining(c) : entries' = Charged(keys, c, TRUE)
    BY DEF AdmitTracked
  <2>2. keys \in SUBSET Present
    BY RemainingWerePresent
  <2>3. Present' \subseteq keys \cup Slots(c)
    BY <2>1, <2>2, PresentAfter
  <2>4. CASE Missing(c) = {}
    <3>1. keys = Live(c) /\ Slots(c) \subseteq Live(c)
      BY <2>4 DEF Remaining, Missing
    <3> QED
      BY <3>1, <2>2, <2>3, <1>2
  <2>5. CASE Missing(c) # {}
    <3>1. Slots(c) \cap Live(c) \subseteq keys
      <4>1. Slots(c) \cap Live(c) \subseteq Purged(c)
        BY DEF Live, Purged
      <4> QED
        BY <4>1, <2>5 DEF Remaining, Evictable
    <3>2. Present' \subseteq keys \cup Missing(c)
      BY <2>3, <3>1 DEF Missing
    <3>3. IsFiniteSet(keys) /\ IsFiniteSet(Missing(c))
      <4>1. Slots(c) \subseteq Tracked
        BY LimiterAssumption DEF Slots, Tracked
      <4> QED
        BY <4>1, <2>2, PresentIsFinite, LimiterAssumption, FS_Subset DEF Missing
    <3>4. /\ IsFiniteSet(keys \cup Missing(c))
          /\ Cardinality(keys \cup Missing(c)) <= Cardinality(keys) + Cardinality(Missing(c))
      <4>1. Cardinality(keys \cap Missing(c)) \in Nat
        BY <3>3, FS_Intersection, FS_CardinalityType
      <4>2. Cardinality(keys) \in Nat /\ Cardinality(Missing(c)) \in Nat
        BY <3>3, FS_CardinalityType
      <4>3. /\ IsFiniteSet(keys \cup Missing(c))
            /\ Cardinality(keys \cup Missing(c)) =
                 Cardinality(keys) + Cardinality(Missing(c)) - Cardinality(keys \cap Missing(c))
        BY <3>3, FS_Union, Zenon
      <4> QED
        BY <4>1, <4>2, <4>3
    <3>5. /\ Cardinality(Present') <= Cardinality(keys \cup Missing(c))
          /\ Cardinality(Present') \in Nat
      BY <3>2, <3>4, FS_Subset, FS_CardinalityType
    <3>6. Cardinality(keys) + Cardinality(Missing(c)) <= MaxKeys
      BY <2>5, RoomIsMade DEF AdmitTracked
    <3>7. /\ Cardinality(keys) \in Nat /\ Cardinality(Missing(c)) \in Nat
          /\ Cardinality(keys \cup Missing(c)) \in Nat
      BY <3>3, <3>4, FS_CardinalityType
    <3> QED
      BY <3>4, <3>5, <3>6, <3>7, <1>1 DEF TableIsBounded
  <2> QED
    BY <2>4, <2>5
<1>6. ASSUME NEW c \in Client, NEW granted \in BOOLEAN, Untracked(c, granted)
      PROVE  TableIsBounded'
  <2>1. PICK keys \in Remaining(c) :
             entries' = Charged(keys, c, FALSE) \/ entries' = Table(keys)
    BY <1>6, AcquireSteps
  <2>2. keys \in SUBSET Present
    BY RemainingWerePresent
  <2>3. Present' = keys
    BY <2>1, <2>2, PresentAfter
  <2> QED
    BY <2>2, <2>3, <1>2
<1>7. CASE \E c \in Client, granted \in BOOLEAN : UseOverflow(c, granted)
  BY <1>7, <1>6 DEF UseOverflow
<1>8. CASE \E c \in Client, granted \in BOOLEAN : UseReserve(c, granted)
  BY <1>8, <1>6 DEF UseReserve
<1>9. CASE \E c \in Client : VerifySucceeds(c)
  <2> PICK c \in Client : VerifySucceeds(c)
    BY <1>9
  <2>1. Present \ Slots(c) \in SUBSET Present
    OBVIOUS
  <2> QED
    BY <2>1, <1>3 DEF VerifySucceeds
<1>10. CASE (\E c \in Client : VerifyFails(c)) \/ Tick \/ UNCHANGED vars
  <2>1. entries' = entries
    BY <1>10 DEF VerifyFails, Tick, vars
  <2> QED
    BY <2>1, <1>2 DEF Present
<1> QED
  BY <1>4, <1>5, <1>7, <1>8, <1>9, <1>10 DEF Next

(* makeRoom() and acquire(): the table never holds more than MaxKeys.       *)
THEOREM TableStaysBounded == Spec => []TableIsBounded
<1>1. Init => TableIsBounded
  <2> SUFFICES ASSUME Init PROVE TableIsBounded
    OBVIOUS
  <2>1. Present = {}
    BY DEF Init, Present
  <2> QED
    BY <2>1, FS_EmptySet, LimiterAssumption DEF TableIsBounded
<1> QED
  BY <1>1, TableTypeInit, TableTypeInductive, TableBoundInductive, PTL DEF Spec
-----------------------------------------------------------------------------
(* The buckets.                                                             *)

Full == OverflowBurst * OverflowRefill

LEMMA BucketConstants ==
    /\ Full \in Nat \ {0} /\ OverflowRefill \in Nat \ {0}
    /\ KnownRefill \in Nat /\ KnownGlobalRefill \in Nat
    /\ LongAgo \in Int /\ LongAgo + KnownGlobalRefill <= 0
<1>1. OverflowBurst \in Nat \ {0} /\ OverflowRefill \in Nat \ {0}
  BY LimiterAssumption
<1>2. KnownRefill \in Nat /\ KnownGlobalRefill \in Nat
  BY LimiterAssumption
<1>3. OverflowBurst * OverflowRefill \in Nat \ {0}
  BY <1>1
<1> QED
  BY <1>1, <1>2, <1>3 DEF Full, LongAgo

(* A refill never exceeds the burst, and adds no more than the time passed. *)
LEMMA Refill ==
    ASSUME now \in Nat, BucketTypeOK
    PROVE  Refilled \in 0 .. Full /\ Refilled <= credit + (now - stamp)
<1>1. credit \in 0 .. Full /\ stamp \in 0 .. now
  BY DEF BucketTypeOK, Full
<1> QED
  BY <1>1, BucketConstants DEF Refilled, Lesser, Full

(* A step either leaves a bucket alone or is one request to it.             *)
LEMMA BucketSteps ==
    ASSUME [Next]_vars
    PROVE  \/ UNCHANGED <<credit, stamp, overflowed, lastReservedAny, reserved>>
              /\ (now' = now \/ now' = now + 1)
           \/ /\ \E granted \in BOOLEAN : TakeOverflowToken(granted)
              /\ UNCHANGED <<now, lastReservedAny, reserved>>
           \/ /\ \E c \in Client : TakeReservedToken(c, TRUE) \/ TakeReservedToken(c, FALSE)
              /\ UNCHANGED <<now, credit, stamp, overflowed>>
<1>1. CASE \E c \in Client, granted \in BOOLEAN : UseOverflow(c, granted)
  BY <1>1 DEF UseOverflow, Untracked, reserve
<1>2. CASE \E c \in Client, granted \in BOOLEAN : UseReserve(c, granted)
  <2> PICK c \in Client, granted \in BOOLEAN : UseReserve(c, granted)
    BY <1>2
  <2>1. granted = TRUE \/ granted = FALSE
    OBVIOUS
  <2>2. TakeReservedToken(c, granted) /\ UNCHANGED <<now, credit, stamp, overflowed>>
    BY DEF UseReserve, Untracked, overflow
  <2> QED
    BY <2>1, <2>2
<1>3. CASE (\E c \in Client : RefuseLockedOut(c)) \/ (\E c \in Client : AdmitTracked(c))
  BY <1>3 DEF RefuseLockedOut, AdmitTracked, overflow, reserve
<1>4. CASE (\E c \in Client : VerifyFails(c)) \/ (\E c \in Client : VerifySucceeds(c))
  BY <1>4 DEF VerifyFails, VerifySucceeds, overflow, reserve
<1>5. CASE Tick \/ UNCHANGED vars
  BY <1>5 DEF Tick, vars, overflow, reserve
<1> QED
  BY <1>1, <1>2, <1>3, <1>4, <1>5 DEF Next

(* What one request to the reserved bucket does to its stamp.               *)
LEMMA ReservedToken ==
    ASSUME NEW c \in Client, NEW granted \in BOOLEAN, TakeReservedToken(c, granted)
    PROVE  \/ UNCHANGED <<lastReservedAny, reserved>>
           \/ /\ now >= lastReservedAny + KnownGlobalRefill
              /\ lastReservedAny' = now
              /\ reserved' = reserved + 1
<1>1. CASE granted
  BY <1>1 DEF TakeReservedToken, ReserveFree
<1>2. CASE ~granted
  BY <1>2 DEF TakeReservedToken
<1> QED
  BY <1>1, <1>2

(* What one request to the shared bucket does to it.                        *)
LEMMA OverflowToken ==
    ASSUME NEW granted \in BOOLEAN, TakeOverflowToken(granted)
    PROVE  /\ stamp' = now
           /\ \/ credit' = Refilled /\ overflowed' = overflowed
              \/ /\ Refilled >= OverflowRefill
                 /\ credit' = Refilled - OverflowRefill
                 /\ overflowed' = overflowed + 1
<1>1. CASE granted
  BY <1>1 DEF TakeOverflowToken
<1>2. CASE ~granted
  BY <1>2 DEF TakeOverflowToken
<1> QED
  BY <1>1, <1>2

LEMMA BucketTypeInductive ==
    now \in Nat /\ BucketTypeOK /\ [Next]_vars => BucketTypeOK'
<1> SUFFICES ASSUME now \in Nat, BucketTypeOK, [Next]_vars PROVE BucketTypeOK'
  OBVIOUS
<1>1. /\ credit \in 0 .. Full /\ stamp \in 0 .. now /\ lastReservedAny \in LongAgo .. now
      /\ overflowed \in Nat /\ reserved \in Nat
  BY DEF BucketTypeOK, Full
<1>2. SUFFICES /\ credit' \in 0 .. Full /\ stamp' \in 0 .. now'
               /\ lastReservedAny' \in LongAgo .. now'
               /\ overflowed' \in Nat /\ reserved' \in Nat
  BY DEF BucketTypeOK, Full, LongAgo
<1>3. CASE UNCHANGED <<credit, stamp, overflowed, lastReservedAny, reserved>>
             /\ (now' = now \/ now' = now + 1)
  BY <1>1, <1>3, BucketConstants
<1>4. CASE /\ \E granted \in BOOLEAN : TakeOverflowToken(granted)
           /\ UNCHANGED <<now, lastReservedAny, reserved>>
  <2>1. Refilled \in 0 .. Full
    BY Refill
  <2> QED
    BY <1>1, <1>4, <2>1, OverflowToken, BucketConstants
<1>5. CASE /\ \E c \in Client : TakeReservedToken(c, TRUE) \/ TakeReservedToken(c, FALSE)
           /\ UNCHANGED <<now, credit, stamp, overflowed>>
  <2>1. \/ UNCHANGED <<lastReservedAny, reserved>>
        \/ lastReservedAny' = now /\ reserved' = reserved + 1
    BY <1>5, ReservedToken
  <2>2. now \in LongAgo .. now
    BY BucketConstants
  <2> QED
    BY <1>1, <1>5, <2>1, <2>2
<1> QED
  BY <1>3, <1>4, <1>5, BucketSteps

LEMMA BucketInit == Init => BucketTypeOK /\ UntrackedGuessesAreCapped
<1> SUFFICES ASSUME Init PROVE BucketTypeOK /\ UntrackedGuessesAreCapped
  OBVIOUS
<1>1. /\ now = 0 /\ credit = Full /\ stamp = 0 /\ lastReservedAny = LongAgo
      /\ overflowed = 0 /\ reserved = 0
  BY DEF Init, Full
<1>2. BucketTypeOK
  BY <1>1, BucketConstants DEF BucketTypeOK, Full
<1>3. UntrackedGuessesAreCapped
  BY <1>1, BucketConstants DEF UntrackedGuessesAreCapped, Full
<1> QED
  BY <1>2, <1>3

(* Each grant is paid for by the time that passed since the last one.       *)
LEMMA CapInductive ==
    now \in Nat /\ BucketTypeOK /\ UntrackedGuessesAreCapped /\ [Next]_vars
        => UntrackedGuessesAreCapped'
<1> SUFFICES ASSUME now \in Nat, BucketTypeOK, UntrackedGuessesAreCapped, [Next]_vars
             PROVE  UntrackedGuessesAreCapped'
  OBVIOUS
<1> DEFINE R == OverflowRefill
<1> DEFINE G == KnownGlobalRefill
<1>1. /\ credit \in 0 .. Full /\ stamp \in 0 .. now /\ lastReservedAny \in LongAgo .. now
      /\ overflowed \in Nat /\ reserved \in Nat
  BY DEF BucketTypeOK, Full
<1>2. R \in Nat /\ G \in Nat /\ Full \in Nat /\ LongAgo \in Int
  BY BucketConstants
<1>3. /\ overflowed * R + credit <= Full + stamp
      /\ reserved > 0 => (reserved - 1) * G <= lastReservedAny
  BY DEF UntrackedGuessesAreCapped, Full
<1>4. SUFFICES /\ overflowed' * R + credit' <= Full + stamp'
               /\ reserved' > 0 => (reserved' - 1) * G <= lastReservedAny'
  BY DEF UntrackedGuessesAreCapped, Full
<1>5. CASE UNCHANGED <<credit, stamp, overflowed, lastReservedAny, reserved>>
             /\ (now' = now \/ now' = now + 1)
  BY <1>3, <1>5
<1>6. CASE /\ \E granted \in BOOLEAN : TakeOverflowToken(granted)
           /\ UNCHANGED <<now, lastReservedAny, reserved>>
  <2>1. Refilled \in 0 .. Full /\ Refilled <= credit + (now - stamp)
    BY Refill
  <2>2. overflowed * R \in Nat /\ (overflowed + 1) * R = overflowed * R + R
    BY <1>1, <1>2
  <2>3. overflowed' * R + credit' <= Full + stamp'
    <3>1. CASE stamp' = now /\ credit' = Refilled /\ overflowed' = overflowed
      BY <1>1, <1>2, <1>3, <2>1, <2>2, <3>1
    <3>2. CASE /\ stamp' = now /\ credit' = Refilled - R
               /\ overflowed' = overflowed + 1
      <4>1. overflowed' * R = overflowed * R + R
        BY <2>2, <3>2
      <4> QED
        BY <4>1, <1>1, <1>2, <1>3, <2>1, <2>2, <3>2
    <3> QED
      BY <3>1, <3>2, <1>6, OverflowToken
  <2> QED
    BY <2>3, <1>3, <1>6
<1>7. CASE /\ \E c \in Client : TakeReservedToken(c, TRUE) \/ TakeReservedToken(c, FALSE)
           /\ UNCHANGED <<now, credit, stamp, overflowed>>
  <2>1. \/ UNCHANGED <<lastReservedAny, reserved>>
        \/ /\ now >= lastReservedAny + G
           /\ lastReservedAny' = now /\ reserved' = reserved + 1
    BY <1>7, ReservedToken
  <2>2. reserved > 0 => reserved * G = (reserved - 1) * G + G /\ (reserved - 1) * G \in Nat
    BY <1>1, <1>2
  <2>3. reserved = 0 => reserved * G = 0
    BY <1>2
  <2>4. ASSUME now >= lastReservedAny + G PROVE reserved * G <= now
    BY <2>2, <2>3, <2>4, <1>1, <1>2, <1>3
  <2>5. reserved' > 0 => (reserved' - 1) * G <= lastReservedAny'
    <3>1. CASE UNCHANGED <<lastReservedAny, reserved>>
      BY <3>1, <1>3
    <3>2. CASE /\ now >= lastReservedAny + G
               /\ lastReservedAny' = now /\ reserved' = reserved + 1
      <4>1. reserved' - 1 = reserved
        BY <3>2, <1>1
      <4> QED
        BY <4>1, <2>4, <3>2
    <3> QED
      BY <2>1, <3>1, <3>2
  <2> QED
    BY <2>5, <1>3, <1>7
<1> QED
  BY <1>5, <1>6, <1>7, BucketSteps

(* takeOverflowToken(), takeReservedToken(): what gets in untracked is      *)
(* capped by the clock, whatever the traffic.                               *)
THEOREM GuessesAreCapped == Spec => []UntrackedGuessesAreCapped
<1>1. TableTypeOK => now \in Nat
  BY DEF TableTypeOK
<1> QED
  BY <1>1, TableTypeInit, TableTypeInductive, BucketInit, BucketTypeInductive,
     CapInductive, PTL DEF Spec

-----------------------------------------------------------------------------
(* The known-good set.                                                      *)

(* No key is there twice.                                                   *)
IsOrder(seq) ==
    /\ seq \in Seq(Tracked)
    /\ \A i, j \in 1 .. Len(seq) : seq[i] = seq[j] => i = j

KeysIn(seq) == {seq[i] : i \in 1 .. Len(seq)}

LEMMA OrderCounts ==
    ASSUME NEW seq, IsOrder(seq)
    PROVE  Cardinality(KeysIn(seq)) = Len(seq)
<1>1. Len(seq) \in Nat /\ seq \in [1 .. Len(seq) -> KeysIn(seq)]
  BY DEF IsOrder, KeysIn
<1>2. seq \in Bijection(1 .. Len(seq), KeysIn(seq))
  BY <1>1 DEF IsOrder, KeysIn, Bijection, Injection, Surjection, IsInjective
<1>3. ExistsBijection(1 .. Len(seq), KeysIn(seq))
  BY <1>2 DEF ExistsBijection
<1> QED
  BY <1>1, <1>3, FS_CountingElements

(* Map.delete() takes one key out; the last key stays last.                 *)
LEMMA DeletedKeys ==
    ASSUME NEW seq, IsOrder(seq), NEW k
    PROVE  /\ IsOrder(Deleted(seq, k))
           /\ KeysIn(Deleted(seq, k)) = KeysIn(seq) \ {k}
           /\ Len(Deleted(seq, k)) <= Len(seq)
           /\ Len(seq) > 0 /\ seq[Len(seq)] # k =>
                /\ Len(Deleted(seq, k)) > 0
                /\ Deleted(seq, k)[Len(Deleted(seq, k))] = seq[Len(seq)]
<1> DEFINE n == Len(seq)
<1>0. n \in Nat /\ \A i \in 1 .. n : seq[i] \in Tracked
  BY DEF IsOrder
<1>1. CASE ~\E i \in 1 .. n : seq[i] = k
  <2>1. Deleted(seq, k) = seq
    BY <1>1, Zenon DEF Deleted
  <2>2. KeysIn(seq) = KeysIn(seq) \ {k}
    BY <1>1 DEF KeysIn
  <2> QED
    BY <2>1, <2>2, <1>0
<1>2. CASE \E i \in 1 .. n : seq[i] = k
  <2> DEFINE at == CHOOSE i \in 1 .. n : seq[i] = k
             rest == [i \in 1 .. n - 1 |-> IF i < at THEN seq[i] ELSE seq[i + 1]]
  <2>1. at \in 1 .. n /\ seq[at] = k
    BY <1>2
  <2>2. Deleted(seq, k) = rest
    BY <1>2, Zenon DEF Deleted
  <2> HIDE DEF at
  <2>3. rest \in Seq(Tracked) /\ Len(rest) = n - 1
    <3>1. \A i \in 1 .. n - 1 : rest[i] \in Tracked
      BY <1>0, <2>1
    <3>2. n - 1 \in Nat
      BY <1>0, <2>1
    <3> QED
      BY <3>1, <3>2
  <2>4. \A i \in 1 .. n - 1 :
          /\ rest[i] = seq[IF i < at THEN i ELSE i + 1]
          /\ (IF i < at THEN i ELSE i + 1) \in 1 .. n
    BY <1>0, <2>1
  <2> HIDE DEF rest
  <2>5. IsOrder(rest)
    <3> SUFFICES ASSUME NEW i \in 1 .. n - 1, NEW j \in 1 .. n - 1, rest[i] = rest[j]
                 PROVE  i = j
      BY <2>3 DEF IsOrder
    <3>1. (IF i < at THEN i ELSE i + 1) = (IF j < at THEN j ELSE j + 1)
      BY <2>4 DEF IsOrder
    <3> QED
      BY <1>0, <2>1, <3>1
  <2>6. \A i \in 1 .. n : i # at =>
          \E j \in 1 .. n - 1 : rest[j] = seq[i]
    <3> SUFFICES ASSUME NEW i \in 1 .. n, i # at
                 PROVE  \E j \in 1 .. n - 1 : rest[j] = seq[i]
      OBVIOUS
    <3>1. CASE i < at
      BY <3>1, <2>1, <2>4, <1>0
    <3>2. CASE i > at
      <4>1. i - 1 \in 1 .. n - 1 /\ ~(i - 1 < at) /\ (i - 1) + 1 = i
        BY <3>2, <2>1, <1>0
      <4> QED
        BY <4>1, <2>4
    <3> QED
      BY <3>1, <3>2, <2>1, <1>0
  <2>7. \A j \in 1 .. n - 1 : rest[j] \in KeysIn(seq) /\ rest[j] # k
    <3> SUFFICES ASSUME NEW j \in 1 .. n - 1
                 PROVE  rest[j] \in KeysIn(seq) /\ rest[j] # k
      OBVIOUS
    <3>1. PICK i \in 1 .. n : i = (IF j < at THEN j ELSE j + 1) /\ rest[j] = seq[i]
      BY <2>4
    <3>2. i # at
      BY <3>1, <2>1, <1>0
    <3> QED
      BY <3>1, <3>2, <2>1 DEF IsOrder, KeysIn
  <2>8. KeysIn(rest) = KeysIn(seq) \ {k}
    <3>1. KeysIn(rest) = {rest[j] : j \in 1 .. n - 1}
      BY <2>3 DEF KeysIn
    <3>2. ASSUME NEW x \in KeysIn(seq), x # k PROVE x \in KeysIn(rest)
      BY <3>1, <3>2, <2>1, <2>6 DEF KeysIn
    <3>3. ASSUME NEW x \in KeysIn(rest) PROVE x \in KeysIn(seq) /\ x # k
      BY <3>1, <2>7
    <3> QED
      BY <3>2, <3>3
  <2>9. ASSUME n > 0, seq[n] # k
        PROVE  Len(rest) > 0 /\ rest[Len(rest)] = seq[n]
    <3>1. at \in 1 .. n - 1
      BY <2>1, <2>9, <1>0
    <3>2. n - 1 \in 1 .. n - 1 /\ ~(n - 1 < at) /\ (n - 1) + 1 = n
      BY <3>1, <1>0
    <3> QED
      BY <3>1, <3>2, <2>3, <2>4, <1>0
  <2> QED
    BY <2>2, <2>3, <2>5, <2>8, <2>9, <1>0
<1> QED
  BY <1>1, <1>2

(* touchKnown() puts its key last.                                          *)
LEMMA TouchedKeys ==
    ASSUME NEW seq, IsOrder(seq), NEW k \in Tracked
    PROVE  /\ IsOrder(Touched(seq, k))
           /\ KeysIn(Touched(seq, k)) = KeysIn(seq) \cup {k}
           /\ Len(Touched(seq, k)) = Len(Deleted(seq, k)) + 1
           /\ Touched(seq, k)[Len(Touched(seq, k))] = k
           /\ \A i \in 1 .. Len(Deleted(seq, k)) : Touched(seq, k)[i] = Deleted(seq, k)[i]
<1> DEFINE d == Deleted(seq, k)
<1>1. IsOrder(d) /\ KeysIn(d) = KeysIn(seq) \ {k}
  BY DeletedKeys
<1>2. d \in Seq(Tracked) /\ Len(d) \in Nat
  BY <1>1 DEF IsOrder
<1>3. /\ Touched(seq, k) = Append(d, k)
      /\ Len(Append(d, k)) = Len(d) + 1
      /\ Append(d, k) \in Seq(Tracked)
      /\ \A i \in 1 .. Len(d) : Append(d, k)[i] = d[i]
      /\ Append(d, k)[Len(d) + 1] = k
  BY <1>2 DEF Touched
<1>4. \A i \in 1 .. Len(d) : d[i] # k
  BY <1>1 DEF KeysIn
<1> HIDE DEF d
<1>5. IsOrder(Append(d, k))
  <2> SUFFICES ASSUME NEW i \in 1 .. Len(d) + 1, NEW j \in 1 .. Len(d) + 1,
                      Append(d, k)[i] = Append(d, k)[j]
               PROVE  i = j
    BY <1>3 DEF IsOrder
  <2>1. CASE i \in 1 .. Len(d) /\ j \in 1 .. Len(d)
    BY <2>1, <1>1, <1>3 DEF IsOrder
  <2>2. CASE i = Len(d) + 1 \/ j = Len(d) + 1
    BY <2>2, <1>2, <1>3, <1>4
  <2> QED
    BY <2>1, <2>2, <1>2
<1>6. KeysIn(Append(d, k)) = KeysIn(d) \cup {k}
  <2>1. ASSUME NEW x \in KeysIn(Append(d, k)) PROVE x \in KeysIn(d) \cup {k}
    <3>1. PICK i \in 1 .. Len(d) + 1 : x = Append(d, k)[i]
      BY <1>3 DEF KeysIn
    <3> QED
      BY <3>1, <1>2, <1>3 DEF KeysIn
  <2>2. ASSUME NEW x \in KeysIn(d) PROVE x \in KeysIn(Append(d, k))
    <3>1. PICK i \in 1 .. Len(d) : x = d[i]
      BY DEF KeysIn
    <3>2. i \in 1 .. Len(Append(d, k)) /\ Append(d, k)[i] = x
      BY <3>1, <1>2, <1>3
    <3> QED
      BY <3>2 DEF KeysIn
  <2>3. k \in KeysIn(Append(d, k))
    <3>1. Len(d) + 1 \in 1 .. Len(Append(d, k))
      BY <1>2, <1>3
    <3> QED
      BY <3>1, <1>3 DEF KeysIn
  <2> QED
    BY <2>1, <2>2, <2>3
<1>7. KeysIn(d) \cup {k} = KeysIn(seq) \cup {k}
  BY <1>1
<1> QED
  BY <1>3, <1>5, <1>6, <1>7 DEF d

(* The loop at the end of recordSuccess() keeps the last keys.              *)
LEMMA KeptKeys ==
    ASSUME NEW seq, IsOrder(seq)
    PROVE  /\ IsOrder(Kept(seq))
           /\ Len(Kept(seq)) <= KnownMaxKeys
           /\ KeysIn(Kept(seq)) \subseteq KeysIn(seq)
           /\ \A i \in 1 .. Len(seq) :
                i > Len(seq) - KnownMaxKeys => seq[i] \in KeysIn(Kept(seq))
<1> DEFINE n == Len(seq)
           m == KnownMaxKeys
<1>1. n \in Nat /\ m \in Nat /\ seq \in Seq(Tracked)
  BY LimiterAssumption DEF IsOrder
<1>2. CASE n <= m
  <2>1. Kept(seq) = seq
    BY <1>2 DEF Kept
  <2> QED
    BY <2>1, <1>1, <1>2 DEF KeysIn
<1>3. CASE n > m
  <2> DEFINE last == SubSeq(seq, n - m + 1, n)
  <2>1. Kept(seq) = last
    BY <1>1, <1>3 DEF Kept
  <2>2. /\ last \in Seq(Tracked)
        /\ Len(last) = m
        /\ \A i \in 1 .. m : last[i] = seq[n - m + i] /\ n - m + i \in 1 .. n
    BY <1>1, <1>3
  <2> HIDE DEF last
  <2>3. IsOrder(last)
    <3> SUFFICES ASSUME NEW i \in 1 .. m, NEW j \in 1 .. m, last[i] = last[j]
                 PROVE  i = j
      BY <2>2 DEF IsOrder
    <3>1. n - m + i = n - m + j
      BY <2>2 DEF IsOrder
    <3> QED
      BY <3>1, <1>1
  <2>4. KeysIn(last) \subseteq KeysIn(seq)
    BY <2>2 DEF KeysIn
  <2>5. ASSUME NEW i \in 1 .. n, i > n - m PROVE seq[i] \in KeysIn(last)
    <3>1. i - (n - m) \in 1 .. m /\ n - m + (i - (n - m)) = i
      BY <2>5, <1>1, <1>3
    <3>2. last[i - (n - m)] = seq[i]
      BY <3>1, <2>2
    <3> QED
      BY <3>1, <3>2, <2>2 DEF KeysIn
  <2> QED
    BY <2>1, <2>2, <2>3, <2>4, <2>5, <1>1
<1> QED
  BY <1>1, <1>2, <1>3

LEMMA SlotsAreTracked ==
    ASSUME NEW c \in Client
    PROVE  /\ KeyOf[c] \in Key /\ KeyOf[c] \in Tracked
           /\ ParentOf[c] # NoParent =>
                ParentOf[c] \in Parent /\ ParentOf[c] \in Tracked /\ ParentOf[c] # KeyOf[c]
           /\ Slots(c) = IF ParentOf[c] = NoParent THEN {KeyOf[c]} ELSE {KeyOf[c], ParentOf[c]}
BY LimiterAssumption DEF Slots, Tracked

(* recordSuccess(), before the loop: the login's keys are the last ones.    *)
LEMMA RefreshedKeys ==
    ASSUME NEW c \in Client, IsOrder(order)
    PROVE  /\ IsOrder(Refreshed(c))
           /\ KeysIn(Refreshed(c)) = KeysIn(order) \cup Slots(c)
           /\ \A k \in Slots(c) :
                \E i \in 1 .. Len(Refreshed(c)) :
                    Refreshed(c)[i] = k /\ i > Len(Refreshed(c)) - 2
<1> DEFINE base == IF ParentOf[c] = NoParent THEN order ELSE Touched(order, ParentOf[c])
           d == Deleted(base, KeyOf[c])
           r == Touched(base, KeyOf[c])
<1>1. IsOrder(base)
  BY TouchedKeys, SlotsAreTracked
<1>2. Refreshed(c) = r
  BY Zenon DEF Refreshed
<1> HIDE DEF base
<1>3. /\ IsOrder(r)
      /\ KeysIn(r) = KeysIn(base) \cup {KeyOf[c]}
      /\ Len(r) = Len(d) + 1
      /\ r[Len(r)] = KeyOf[c]
      /\ \A i \in 1 .. Len(d) : r[i] = d[i]
  BY <1>1, TouchedKeys, SlotsAreTracked
<1>4. IsOrder(d) /\ Len(d) \in Nat
  BY <1>1, DeletedKeys DEF IsOrder
<1>5. KeysIn(base) \cup {KeyOf[c]} = KeysIn(order) \cup Slots(c)
  BY TouchedKeys, SlotsAreTracked DEF base
<1>6. \E i \in 1 .. Len(r) : r[i] = KeyOf[c] /\ i > Len(r) - 2
  <2>1. Len(r) \in 1 .. Len(r) /\ Len(r) > Len(r) - 2
    BY <1>3, <1>4
  <2> QED
    BY <2>1, <1>3
<1>7. ASSUME ParentOf[c] # NoParent
      PROVE  \E i \in 1 .. Len(r) : r[i] = ParentOf[c] /\ i > Len(r) - 2
  <2>1. base = Touched(order, ParentOf[c])
    BY <1>7 DEF base
  <2>2. Len(base) > 0 /\ base[Len(base)] = ParentOf[c]
    <3>1. ParentOf[c] \in Tracked
      BY <1>7, SlotsAreTracked
    <3>2. /\ base[Len(base)] = ParentOf[c]
          /\ Len(base) = Len(Deleted(order, ParentOf[c])) + 1
      BY <2>1, <3>1, TouchedKeys
    <3>3. Len(Deleted(order, ParentOf[c])) \in Nat
      BY DeletedKeys DEF IsOrder
    <3> QED
      BY <3>2, <3>3
  <2>3. Len(d) > 0 /\ d[Len(d)] = ParentOf[c]
    BY <2>2, <1>1, <1>7, DeletedKeys, SlotsAreTracked
  <2>4. Len(d) \in 1 .. Len(d) /\ Len(d) \in 1 .. Len(r) /\ Len(d) > Len(r) - 2
    BY <2>3, <1>3, <1>4
  <2> QED
    BY <2>3, <2>4, <1>3
<1> HIDE DEF r
<1> QED
  BY <1>2, <1>3, <1>5, <1>6, <1>7, SlotsAreTracked

KnownInv ==
    /\ KnownTypeOK
    /\ IsOrder(order)
    /\ Len(order) <= KnownMaxKeys

LEMMA KnownKeys == order \in Seq(Tracked) => Known = KeysIn(order)
BY DEF Known, KeysIn

(* knownKeyFor() takes out the keys that are stale, and no others.          *)
LEMMA StaleForgotten ==
    ASSUME KnownInv, NEW c \in Client, ForgetStale(c)
    PROVE  /\ IsOrder(order')
           /\ Len(order') <= KnownMaxKeys
           /\ KeysIn(order') = KeysIn(order) \ StaleFor(c)
<1> DEFINE own == IF KeyOf[c] \in StaleFor(c) THEN Deleted(order, KeyOf[c]) ELSE order
           both == IF ParentOf[c] \in StaleFor(c) THEN Deleted(own, ParentOf[c]) ELSE own
<1>1. order' = both
  BY Zenon DEF ForgetStale
<1>2. IsOrder(order) /\ Len(order) \in Nat /\ Len(order) <= KnownMaxKeys /\ KnownMaxKeys \in Nat
  BY LimiterAssumption DEF KnownInv, IsOrder
<1>3. /\ IsOrder(own) /\ Len(own) <= Len(order) /\ Len(own) \in Nat
      /\ KeysIn(own) = KeysIn(order) \ (StaleFor(c) \cap {KeyOf[c]})
  <2>1. CASE KeyOf[c] \in StaleFor(c)
    <3>1. own = Deleted(order, KeyOf[c])
      BY <2>1
    <3>2. /\ IsOrder(Deleted(order, KeyOf[c]))
          /\ KeysIn(Deleted(order, KeyOf[c])) = KeysIn(order) \ {KeyOf[c]}
          /\ Len(Deleted(order, KeyOf[c])) <= Len(order)
      BY <1>2, DeletedKeys
    <3>3. Len(Deleted(order, KeyOf[c])) \in Nat
      BY <3>2 DEF IsOrder
    <3>4. StaleFor(c) \cap {KeyOf[c]} = {KeyOf[c]}
      BY <2>1
    <3> QED
      BY <3>1, <3>2, <3>3, <3>4
  <2>2. CASE KeyOf[c] \notin StaleFor(c)
    <3>1. own = order /\ KeysIn(order) \ (StaleFor(c) \cap {KeyOf[c]}) = KeysIn(order)
      BY <2>2
    <3> QED
      BY <3>1, <1>2
  <2> QED
    BY <2>1, <2>2
<1> HIDE DEF own
<1>4. /\ IsOrder(both) /\ Len(both) <= Len(own) /\ Len(both) \in Nat
      /\ KeysIn(both) = KeysIn(own) \ (StaleFor(c) \cap {ParentOf[c]})
  BY <1>3, DeletedKeys DEF IsOrder
<1>5. StaleFor(c) \subseteq {KeyOf[c], ParentOf[c]}
  BY DEF StaleFor, Slots
<1> HIDE DEF both
<1> QED
  BY <1>1, <1>2, <1>3, <1>4, <1>5

(* A login that is verified.                                                *)
LEMMA SuccessRecorded ==
    ASSUME KnownInv, NEW c \in Client, RecordSuccess(c)
    PROVE  /\ IsOrder(order')
           /\ Len(order') <= KnownMaxKeys
           /\ KeysIn(order') \subseteq KeysIn(order) \cup Slots(c)
           /\ KnownMaxKeys > 1 => Slots(c) \subseteq KeysIn(order')
<1> DEFINE r == Refreshed(c)
<1>1. order' = Kept(r)
  BY DEF RecordSuccess
<1>2. /\ IsOrder(r)
      /\ KeysIn(r) = KeysIn(order) \cup Slots(c)
      /\ \A k \in Slots(c) : \E i \in 1 .. Len(r) : r[i] = k /\ i > Len(r) - 2
  BY RefreshedKeys DEF KnownInv
<1>3. Len(r) \in Nat /\ KnownMaxKeys \in Nat
  BY <1>2, LimiterAssumption DEF IsOrder
<1> HIDE DEF r
<1>4. KnownMaxKeys > 1 => Slots(c) \subseteq KeysIn(Kept(r))
  <2> SUFFICES ASSUME KnownMaxKeys > 1, NEW k \in Slots(c) PROVE k \in KeysIn(Kept(r))
    OBVIOUS
  <2>1. PICK i \in 1 .. Len(r) : r[i] = k /\ i > Len(r) - 2
    BY <1>2
  <2>2. i > Len(r) - KnownMaxKeys
    BY <2>1, <1>3
  <2> QED
    BY <2>1, <2>2, <1>2, KeptKeys
<1> QED
  BY <1>1, <1>2, <1>4, KeptKeys

(* A step changes the known-good set in one of these two ways, or not.      *)
LEMMA KnownSteps ==
    ASSUME [Next]_vars
    PROVE  \/ UNCHANGED known
           \/ \E c \in Client :
                /\ ForgetStale(c)
                /\ \/ lastReserved' = LastReservedKept(c)
                   \/ \E k : lastReserved' = [LastReservedKept(c) EXCEPT ![k] = now]
           \/ \E c \in Client : VerifySucceeds(c)
<1>1. CASE \E c \in Client, granted \in BOOLEAN : UseOverflow(c, granted)
  BY <1>1 DEF UseOverflow, Untracked
<1>2. CASE \E c \in Client, granted \in BOOLEAN : UseReserve(c, granted)
  BY <1>2 DEF UseReserve, Untracked, TakeReservedToken
<1>3. CASE (\E c \in Client : RefuseLockedOut(c)) \/ (\E c \in Client : AdmitTracked(c))
  BY <1>3 DEF RefuseLockedOut, AdmitTracked
<1>4. CASE (\E c \in Client : VerifyFails(c)) \/ (\E c \in Client : VerifySucceeds(c))
  BY <1>4 DEF VerifyFails
<1>5. CASE Tick \/ UNCHANGED vars
  BY <1>5 DEF Tick, vars, known
<1> QED
  BY <1>1, <1>2, <1>3, <1>4, <1>5 DEF Next

LEMMA KnownInductive == now \in Nat /\ KnownInv /\ [Next]_vars => KnownInv'
<1> SUFFICES ASSUME now \in Nat, KnownInv, [Next]_vars PROVE KnownInv'
  OBVIOUS
<1>1. /\ lastSuccess \in [Tracked -> Nat] /\ lastReserved \in [Tracked -> Int]
      /\ LongAgo \in Int /\ now \in Int
  BY LimiterAssumption DEF KnownInv, KnownTypeOK, LongAgo
<1>2. ASSUME IsOrder(order'), Len(order') <= KnownMaxKeys,
             lastSuccess' \in [Tracked -> Nat], lastReserved' \in [Tracked -> Int]
      PROVE  KnownInv'
  BY <1>2 DEF KnownInv, KnownTypeOK, IsOrder
<1>3. CASE UNCHANGED known
  BY <1>3 DEF KnownInv, KnownTypeOK, IsOrder, known
<1>4. ASSUME NEW c \in Client, ForgetStale(c),
             \/ lastReserved' = LastReservedKept(c)
             \/ \E k : lastReserved' = [LastReservedKept(c) EXCEPT ![k] = now]
      PROVE  KnownInv'
  <2>1. lastSuccess' \in [Tracked -> Nat]
    BY <1>1, <1>4 DEF ForgetStale
  <2>2. LastReservedKept(c) \in [Tracked -> Int]
    BY <1>1 DEF LastReservedKept
  <2>3. lastReserved' \in [Tracked -> Int]
    BY <2>2, <1>1, <1>4
  <2> QED
    BY <2>1, <2>3, <1>2, <1>4, StaleForgotten
<1>5. ASSUME NEW c \in Client, VerifySucceeds(c) PROVE KnownInv'
  <2>1. RecordSuccess(c)
    BY <1>5 DEF VerifySucceeds
  <2>2. lastSuccess' \in [Tracked -> Nat] /\ lastReserved' \in [Tracked -> Int]
    BY <2>1, <1>1 DEF RecordSuccess
  <2> QED
    BY <2>1, <2>2, <1>2, SuccessRecorded
<1> QED
  BY <1>3, <1>4, <1>5, KnownSteps

LEMMA KnownInit == Init => KnownInv
<1> SUFFICES ASSUME Init PROVE KnownInv
  OBVIOUS
<1>1. order = <<>> /\ Len(<<>>) = 0 /\ <<>> \in Seq(Tracked)
  BY DEF Init
<1>2. IsOrder(order)
  BY <1>1 DEF IsOrder
<1>3. KnownTypeOK
  BY <1>1, LimiterAssumption DEF Init, KnownTypeOK, LongAgo
<1> QED
  BY <1>1, <1>2, <1>3, LimiterAssumption DEF KnownInv

(* The types of the limiter: of its table, its buckets, its known-good set  *)
(* and the attempts on the way.                                             *)
THEOREM TypeCorrect == Spec => []TypeOK
<1>1. TableTypeOK => now \in Nat
  BY DEF TableTypeOK
<1>2. TableTypeOK /\ BucketTypeOK /\ KnownInv => TypeOK
  BY DEF TypeOK, KnownInv
<1> QED
  BY <1>1, <1>2, TableTypeInit, TableTypeInductive, BucketInit, BucketTypeInductive,
     KnownInit, KnownInductive, PTL DEF Spec

(* recordSuccess(): the known-good set stays within its limit and holds no  *)
(* key twice, whatever was added or refreshed before.                       *)
THEOREM KnownStaysBounded == Spec => []KnownIsBounded
<1>1. TableTypeOK => now \in Nat
  BY DEF TableTypeOK
<1>2. KnownInv => KnownIsBounded
  BY KnownKeys, OrderCounts DEF KnownInv, KnownIsBounded, IsOrder
<1> QED
  BY <1>1, <1>2, TableTypeInit, TableTypeInductive, KnownInit, KnownInductive, PTL DEF Spec

LEMMA KnownStepHolds ==
    KnownMaxKeys > 1 /\ TableTypeOK /\ KnownInv /\ [Next]_vars => KnownStep
<1> SUFFICES ASSUME KnownMaxKeys > 1, TableTypeOK, KnownInv, [Next]_vars
             PROVE  KnownStep
  OBVIOUS
<1>1. now \in Nat /\ KnownInv'
  BY KnownInductive DEF TableTypeOK
<1>2. Known = KeysIn(order)
  BY KnownKeys DEF KnownInv, IsOrder
<1>3. Known' = KeysIn(order')
  <2>1. order' \in Seq(Tracked)
    BY <1>1 DEF KnownInv, KnownTypeOK
  <2> QED
    BY <2>1 DEF Known, KeysIn
<1>4. CASE UNCHANGED known
  BY <1>2, <1>3, <1>4 DEF KnownStep, known
<1>5. ASSUME NEW c \in Client, ForgetStale(c) PROVE KnownStep
  <2>1. Known' = Known \ StaleFor(c)
    BY <1>2, <1>3, <1>5, StaleForgotten
  <2>2. \A k \in StaleFor(c) : k \in Known /\ ~(now - lastSuccess[k] < KnownTtl)
    BY DEF StaleFor, Fresh
  <2>3. \A k \in Known : k \in Tracked
    BY <1>2 DEF KeysIn, KnownInv, IsOrder
  <2>4. \A k \in Tracked : now - lastSuccess[k] \in Int /\ KnownTtl \in Int
    <3>1. lastSuccess \in [Tracked -> Nat] /\ now \in Nat
      BY DEF KnownInv, KnownTypeOK, TableTypeOK
    <3>2. KnownTtl \in Nat
      BY LimiterAssumption
    <3> QED
      BY <3>1, <3>2
  <2> QED
    BY <2>1, <2>2, <2>3, <2>4 DEF KnownStep
<1>6. ASSUME NEW c \in Client, VerifySucceeds(c) PROVE KnownStep
  <2>1. RecordSuccess(c) /\ c \in Legit /\ pending'[c] < pending[c]
    BY <1>6 DEF VerifySucceeds, TableTypeOK
  <2>2. Known' \subseteq Known \cup Slots(c) /\ Slots(c) \subseteq Known'
    BY <2>1, <1>2, <1>3, SuccessRecorded
  <2> QED
    BY <2>1, <2>2 DEF KnownStep
<1> QED
  BY <1>4, <1>5, <1>6, KnownSteps

(* recordSuccess(), knownKeyFor(): with room for the two keys of one login  *)
(* (the code's limit is 64), only a login with the right password puts a    *)
(* key into the known-good set, and only age or another such login takes    *)
(* one out.                                                                 *)
THEOREM KnownKeysAreEarned == KnownMaxKeys > 1 => (Spec => KnownIsEarned)
<1> SUFFICES ASSUME KnownMaxKeys > 1 PROVE Spec => KnownIsEarned
  OBVIOUS
<1>1. TableTypeOK => now \in Nat
  BY DEF TableTypeOK
<1>2. TableTypeOK /\ KnownInv /\ [Next]_vars => KnownStep
  BY KnownStepHolds
<1> QED
  BY <1>1, <1>2, TableTypeInit, TableTypeInductive, KnownInit, KnownInductive, PTL
     DEF Spec, KnownIsEarned

-----------------------------------------------------------------------------
(* A /48 and its /64s.                                                      *)

WindowsBegan == \A k \in Present : entries[k].windowStart <= now

Counted(p) ==
    entries[p] # NoEntry =>
        /\ IsFiniteSet(ChildAttempts(p))
        /\ Cardinality(ChildAttempts(p)) <= entries[p].attempts

ParentInv == WindowsBegan /\ \A p \in Parent : Counted(p)

(* What one request, or one login, does to the table.                       *)
LEMMA TableSteps ==
    ASSUME [Next]_vars, TableTypeOK
    PROVE  \/ UNCHANGED entries /\ (now' = now \/ now' = now + 1)
           \/ /\ now' = now
              /\ \E keys \in SUBSET Present :
                    \/ entries' = Table(keys)
                    \/ \E c \in Client, tracked \in BOOLEAN :
                            entries' = Charged(keys, c, tracked)
<1>1. CASE \E c \in Client : RefuseLockedOut(c)
  BY <1>1, RemainingWerePresent DEF RefuseLockedOut
<1>2. CASE \E c \in Client : AdmitTracked(c)
  BY <1>2, RemainingWerePresent DEF AdmitTracked
<1>3. ASSUME NEW c \in Client, NEW granted \in BOOLEAN, Untracked(c, granted)
      PROVE  /\ now' = now
             /\ \E keys \in SUBSET Present :
                    \/ entries' = Table(keys)
                    \/ entries' = Charged(keys, c, FALSE)
  BY <1>3, AcquireSteps, RemainingWerePresent
<1>4. CASE \/ \E c \in Client, granted \in BOOLEAN : UseOverflow(c, granted)
           \/ \E c \in Client, granted \in BOOLEAN : UseReserve(c, granted)
  <2>1. PICK c \in Client, granted \in BOOLEAN : Untracked(c, granted)
    BY <1>4 DEF UseOverflow, UseReserve
  <2> QED
    BY <2>1, <1>3
<1>5. CASE \E c \in Client : VerifySucceeds(c)
  <2>1. PICK c \in Client : entries' = Table(Present \ Slots(c)) /\ now' = now
    BY <1>5 DEF VerifySucceeds
  <2>2. Present \ Slots(c) \in SUBSET Present
    OBVIOUS
  <2> QED
    BY <2>1, <2>2
<1>6. CASE (\E c \in Client : VerifyFails(c)) \/ Tick \/ UNCHANGED vars
  BY <1>6 DEF VerifyFails, Tick, vars
<1> QED
  BY <1>1, <1>2, <1>4, <1>5, <1>6 DEF Next

(* The entries after a step, one by one.                                    *)
LEMMA TableEntry ==
    ASSUME TableTypeOK, NEW keys \in SUBSET Present, NEW k \in Tracked
    PROVE  /\ k \in keys => entries[k] \in Entry
           /\ Table(keys)[k] = IF k \in keys THEN entries[k] ELSE NoEntry
BY DEF TableTypeOK, Present, Table

LEMMA ChargedEntry ==
    ASSUME TableTypeOK, NEW keys \in SUBSET Present, NEW k \in Tracked,
           NEW c \in Client, NEW tracked \in BOOLEAN,
           entries' = Charged(keys, c, tracked)
    PROVE  \/ k \in keys /\ k \notin Slots(c) /\ entries'[k] = entries[k]
           \/ /\ k \in keys /\ k \in Slots(c)
              /\ entries'[k] # NoEntry
              /\ entries'[k].attempts = entries[k].attempts + 1
              /\ entries'[k].windowStart = entries[k].windowStart
           \/ /\ k \notin keys /\ k \in Slots(c)
              /\ entries'[k] # NoEntry
              /\ entries'[k].attempts = 1
              /\ entries'[k].windowStart = now
           \/ k \notin keys /\ entries'[k] = NoEntry
<1> DEFINE up == [entries[k] EXCEPT !.attempts = @ + 1]
           fresh == [attempts |-> 1, windowStart |-> now]
<1>1. entries'[k] = IF k \in keys
                      THEN IF k \in Slots(c) THEN up ELSE entries[k]
                      ELSE IF tracked /\ k \in Slots(c) THEN fresh ELSE NoEntry
  BY DEF Charged
<1>2. k \in keys => /\ up \in Entry
                    /\ up.attempts = entries[k].attempts + 1
                    /\ up.windowStart = entries[k].windowStart
  <2> SUFFICES ASSUME k \in keys
               PROVE  /\ up \in Entry
                      /\ up.attempts = entries[k].attempts + 1
                      /\ up.windowStart = entries[k].windowStart
    OBVIOUS
  <2>1. entries[k] \in Entry
    BY TableEntry
  <2> QED
    BY <2>1 DEF Entry
<1>3. fresh \in Entry /\ fresh.attempts = 1 /\ fresh.windowStart = now
  BY DEF TableTypeOK, Entry
<1> HIDE DEF up, fresh
<1> QED
  BY <1>1, <1>2, <1>3, NoEntryAssumption

LEMMA WindowsInductive == TableTypeOK /\ WindowsBegan /\ [Next]_vars => WindowsBegan'
<1> SUFFICES ASSUME TableTypeOK, WindowsBegan, [Next]_vars, NEW k \in Tracked,
                    entries'[k] # NoEntry
             PROVE  entries'[k].windowStart <= now'
  BY DEF WindowsBegan, Present
<1>1. now \in Nat
  BY DEF TableTypeOK
<1>2. k \in Present => entries[k] \in Entry /\ entries[k].windowStart <= now
  BY DEF WindowsBegan, TableTypeOK, Present
<1>3. CASE UNCHANGED entries /\ (now' = now \/ now' = now + 1)
  BY <1>1, <1>2, <1>3 DEF Present, Entry
<1>4. ASSUME now' = now, NEW keys \in SUBSET Present, entries' = Table(keys)
      PROVE  entries'[k].windowStart <= now'
  BY <1>2, <1>4, TableEntry
<1>5. ASSUME now' = now, NEW keys \in SUBSET Present,
             NEW c \in Client, NEW tracked \in BOOLEAN, entries' = Charged(keys, c, tracked)
      PROVE  entries'[k].windowStart <= now'
  <2>1. \/ k \in keys /\ entries'[k].windowStart = entries[k].windowStart
        \/ entries'[k].windowStart = now
    BY <1>5, ChargedEntry
  <2> QED
    BY <2>1, <1>1, <1>2, <1>5
<1> QED
  BY <1>3, <1>4, <1>5, TableSteps

(* An attempt is charged to a /64 and to the /48 around it.                 *)
LEMMA ChildIsCharged ==
    ASSUME NEW p \in Parent, NEW k \in Children(p), NEW c \in Client, k \in Slots(c)
    PROVE  k = KeyOf[c] /\ p \in Slots(c)
<1>1. PICK d \in Client : k = KeyOf[d] /\ ParentOf[d] = p
  BY DEF Children
<1>2. k \in Key
  BY <1>1, LimiterAssumption
<1>3. k = KeyOf[c]
  BY <1>2, LimiterAssumption DEF Slots
<1>4. ParentOf[c] = p
  BY <1>1, <1>3, LimiterAssumption
<1> QED
  BY <1>3, <1>4, LimiterAssumption DEF Slots

LEMMA AttemptsOfChildren ==
    ASSUME NEW p \in Parent, NEW x
    PROVE  /\ x \in ChildAttempts(p) <=>
                \E k \in LaterChildren(p) : \E n \in 1 .. entries[k].attempts : x = <<k, n>>
           /\ x \in ChildAttempts(p)' <=>
                \E k \in LaterChildren(p)' : \E n \in 1 .. entries'[k].attempts : x = <<k, n>>
BY DEF ChildAttempts

LEMMA ChildrenAreTracked ==
    ASSUME NEW p \in Parent
    PROVE  p \in Tracked /\ \A k \in Children(p) : k \in Tracked
BY LimiterAssumption DEF Children, Tracked

LEMMA CountInductive ==
    ASSUME TableTypeOK, ParentInv, [Next]_vars, NEW p \in Parent
    PROVE  Counted(p)'
<1> DEFINE old == ChildAttempts(p)
           new == ChildAttempts(p)'
<1>0. SUFFICES ASSUME entries'[p] # NoEntry
               PROVE  IsFiniteSet(new) /\ Cardinality(new) <= entries'[p].attempts
  BY DEF Counted
<1>1. /\ p \in Tracked
      /\ entries[p] # NoEntry => entries[p] \in Entry /\ entries[p].attempts \in Nat
      /\ entries[p] # NoEntry => IsFiniteSet(old) /\ Cardinality(old) <= entries[p].attempts
  BY ChildrenAreTracked DEF TableTypeOK, ParentInv, Counted, Entry
<1>2. ASSUME entries[p] # NoEntry, new \subseteq old,
             entries'[p].attempts = entries[p].attempts
      PROVE  IsFiniteSet(new) /\ Cardinality(new) <= entries'[p].attempts
  <2> HIDE DEF old, new
  <2>1. IsFiniteSet(new) /\ Cardinality(new) <= Cardinality(old)
    BY <1>1, <1>2, FS_Subset
  <2>2. Cardinality(new) \in Nat /\ Cardinality(old) \in Nat
    BY <1>1, <1>2, <2>1, FS_CardinalityType
  <2> QED
    BY <1>1, <1>2, <2>1, <2>2
<1>3. CASE UNCHANGED entries
  <2>1. new = old
    BY <1>3 DEF ChildAttempts, LaterChildren
  <2> QED
    BY <1>0, <1>2, <1>3, <2>1
<1>4. ASSUME NEW keys \in SUBSET Present, entries' = Table(keys)
      PROVE  IsFiniteSet(new) /\ Cardinality(new) <= entries'[p].attempts
  <2>1. \A k \in Tracked : entries'[k] # NoEntry => k \in keys /\ entries'[k] = entries[k]
    BY <1>4, TableEntry
  <2>2. entries[p] # NoEntry /\ entries'[p] = entries[p]
    BY <1>0, <1>1, <2>1
  <2>3. \A k \in LaterChildren(p)' : k \in LaterChildren(p) /\ entries'[k] = entries[k]
    BY <2>1, <2>2, ChildrenAreTracked DEF LaterChildren
  <2>4. new \subseteq old
    BY <2>3, AttemptsOfChildren
  <2> QED
    BY <1>2, <2>2, <2>4
<1>5. ASSUME now' = now, NEW keys \in SUBSET Present,
             NEW c \in Client, NEW tracked \in BOOLEAN, entries' = Charged(keys, c, tracked)
      PROVE  IsFiniteSet(new) /\ Cardinality(new) <= entries'[p].attempts
  <2>1. CASE p \notin keys
    <3>1. entries'[p].attempts = 1 /\ entries'[p].windowStart = now /\ now \in Nat
      <4>1. entries'[p].attempts = 1 /\ entries'[p].windowStart = now
        BY <1>0, <1>1, <1>5, <2>1, ChargedEntry
      <4> QED
        BY <4>1 DEF TableTypeOK
    <3>2. \A k \in Tracked : entries'[k] # NoEntry =>
            entries'[k] \in Entry /\ entries'[k].windowStart <= now
      BY <1>5, WindowsInductive, TableTypeInductive DEF ParentInv, WindowsBegan, Present, TableTypeOK
    <3>3. LaterChildren(p)' = {}
      <4> SUFFICES ASSUME NEW k \in LaterChildren(p)' PROVE FALSE
        OBVIOUS
      <4>1. /\ k \in Tracked /\ entries'[k] # NoEntry
            /\ entries'[k].windowStart > entries'[p].windowStart
        BY ChildrenAreTracked DEF LaterChildren
      <4> QED
        BY <4>1, <3>1, <3>2 DEF Entry
    <3>4. new = {}
      BY <3>3, AttemptsOfChildren
    <3> QED
      BY <3>1, <3>4, FS_EmptySet
  <2>2. CASE p \in keys
    <3>1. /\ entries[p] # NoEntry
          /\ entries'[p].windowStart = entries[p].windowStart
          /\ entries'[p].attempts = entries[p].attempts + (IF p \in Slots(c) THEN 1 ELSE 0)
      <4>1. entries[p] # NoEntry
        BY <2>2 DEF Present
      <4> QED
        BY <4>1, <1>1, <1>5, <2>2, ChargedEntry
    <3> DEFINE mine == KeyOf[c]
               m == IF mine \in keys THEN entries[mine].attempts + 1 ELSE 1
    <3>2. ASSUME NEW k \in LaterChildren(p)', NEW n \in 1 .. entries'[k].attempts,
                 <<k, n>> \notin old
          PROVE  k = mine /\ n = m /\ p \in Slots(c)
      <4>1. /\ k \in Children(p) /\ k \in Tracked /\ entries'[k] # NoEntry
            /\ entries'[k].windowStart > entries[p].windowStart
        BY <3>1, ChildrenAreTracked DEF LaterChildren
      <4>2. CASE k \in keys /\ k \notin Slots(c) /\ entries'[k] = entries[k]
        <5>1. k \in LaterChildren(p)
          BY <4>1, <4>2 DEF LaterChildren
        <5> QED
          BY <5>1, <4>2, <3>2, AttemptsOfChildren
      <4>3. CASE /\ k \in keys /\ k \in Slots(c)
                 /\ entries'[k].attempts = entries[k].attempts + 1
                 /\ entries'[k].windowStart = entries[k].windowStart
        <5>1. k = mine /\ p \in Slots(c)
          BY <4>1, <4>3, ChildIsCharged
        <5>2. entries[k] \in Entry /\ entries[k] # NoEntry /\ entries[k].attempts \in Nat
          BY <4>3, <4>1, TableEntry DEF Present, Entry
        <5>3. k \in LaterChildren(p)
          BY <4>1, <4>3, <5>2 DEF LaterChildren
        <5>4. ~(n \in 1 .. entries[k].attempts)
          BY <5>3, <3>2, AttemptsOfChildren
        <5>5. n = entries[k].attempts + 1
          BY <5>2, <5>4, <4>3
        <5> QED
          BY <5>1, <5>5, <4>3
      <4>4. CASE k \notin keys /\ k \in Slots(c) /\ entries'[k].attempts = 1
        <5>1. k = mine /\ p \in Slots(c)
          BY <4>1, <4>4, ChildIsCharged
        <5>2. n = 1
          BY <4>4
        <5> QED
          BY <5>1, <5>2, <4>4
      <4> QED
        BY <4>1, <4>2, <4>3, <4>4, <1>5, ChargedEntry
    <3> HIDE DEF m
    <3>3. CASE p \notin Slots(c)
      <4>1. new \subseteq old
        BY <3>2, <3>3, AttemptsOfChildren
      <4> QED
        BY <1>1, <1>2, <3>1, <3>3, <4>1
    <3>4. CASE p \in Slots(c)
      <4>1. new \subseteq old \cup {<<mine, m>>}
        <5> SUFFICES ASSUME NEW x \in new PROVE x \in old \cup {<<mine, m>>}
          OBVIOUS
        <5>1. PICK k \in LaterChildren(p)' : \E n \in 1 .. entries'[k].attempts : x = <<k, n>>
          BY AttemptsOfChildren
        <5> QED
          BY <5>1, <3>2
      <4> HIDE DEF old, new
      <4>2. /\ IsFiniteSet(old) /\ Cardinality(old) \in Nat
            /\ IsFiniteSet(old \cup {<<mine, m>>})
            /\ Cardinality(old \cup {<<mine, m>>}) \in Nat
            /\ Cardinality(old \cup {<<mine, m>>}) <= Cardinality(old) + 1
        <5>1. IsFiniteSet(old) /\ Cardinality(old) \in Nat
          BY <1>1, <3>1, FS_CardinalityType
        <5>2. /\ IsFiniteSet(old \cup {<<mine, m>>})
              /\ Cardinality(old \cup {<<mine, m>>}) =
                   IF <<mine, m>> \in old THEN Cardinality(old) ELSE Cardinality(old) + 1
          BY <5>1, FS_AddElement, Zenon
        <5> QED
          BY <5>1, <5>2
      <4>3. IsFiniteSet(new) /\ Cardinality(new) <= Cardinality(old \cup {<<mine, m>>})
        BY <4>1, <4>2, FS_Subset
      <4>4. Cardinality(new) \in Nat
        BY <4>3, FS_CardinalityType
      <4> QED
        BY <1>1, <3>1, <3>4, <4>2, <4>3, <4>4
    <3> QED
      BY <3>3, <3>4
  <2> QED
    BY <2>1, <2>2
<1> QED
  BY <1>3, <1>4, <1>5, TableSteps

LEMMA ParentInit == Init => ParentInv
<1> SUFFICES ASSUME Init PROVE ParentInv
  OBVIOUS
<1>1. \A k \in Tracked : entries[k] = NoEntry
  BY DEF Init
<1> QED
  BY <1>1, ChildrenAreTracked DEF ParentInv, WindowsBegan, Present, Counted

(* acquire(), reset() and evictOne(): the attempts of a /48's clients whose *)
(* windows began after its own are all on its account.                      *)
THEOREM ParentsCountTheirChildren == Spec => []ParentCountsItsChildren
<1>1. TableTypeOK /\ ParentInv /\ [Next]_vars => ParentInv'
  BY CountInductive, WindowsInductive DEF ParentInv
<1>2. ParentInv => ParentCountsItsChildren
  BY DEF ParentInv, Counted, ParentCountsItsChildren
<1> QED
  BY <1>1, <1>2, TableTypeInit, TableTypeInductive, ParentInit, PTL DEF Spec

-----------------------------------------------------------------------------
(* What budgets and a /48's account amount to together.                     *)

(* No window admits more attempts than its key's budget: the check and the  *)
(* charge of acquire() are one step, so attempts whose passwords are still  *)
(* being verified have been counted already, however many there are.        *)
WithinBudget == \A k \in Present : entries[k].attempts <= Budget(k)

(* docs/configuration.md lets one /48 hold only as many locked entries as   *)
(* its budget pays for.  True of the entries whose windows began after the  *)
(* /48's own: their used-up budgets add up to no more than its budget.      *)
ParentPaysForLocks ==
    \A p \in Parent : entries[p] # NoEntry =>
        Cardinality(LaterChildren(p) \cap UsedUp) * MaxAttempts <= MaxParentAttempts

(* makeRoom() leaves only entries that both lookups of the request saw.     *)
LEMMA RemainingAreLive ==
    ASSUME NEW c \in Client, NEW keys \in Remaining(c)
    PROVE  keys \subseteq Live(c) /\ keys \in SUBSET Present
<1>1. Purged(c) \subseteq Live(c) /\ Live(c) \subseteq Present
  BY DEF Purged, Live
<1> QED
  BY <1>1 DEF Remaining

(* An attempt is counted on an entry that has budget left.                  *)
LEMMA ChargesHaveBudget ==
    ASSUME TableTypeOK, [Next]_vars, NEW k \in Tracked, entries'[k] # NoEntry
    PROVE  \/ k \in Present /\ entries'[k] = entries[k]
           \/ entries'[k].attempts = 1
           \/ /\ k \in Present /\ ~(entries[k].attempts >= Budget(k))
              /\ entries'[k].attempts = entries[k].attempts + 1
<1>1. ASSUME NEW keys \in SUBSET Present, entries' = Table(keys)
      PROVE  k \in Present /\ entries'[k] = entries[k]
  BY <1>1, TableEntry
<1>2. ASSUME NEW c \in Client, NEW tracked \in BOOLEAN, ~LockedOut(c),
             NEW keys \in Remaining(c), entries' = Charged(keys, c, tracked)
      PROVE  \/ k \in Present /\ entries'[k] = entries[k]
             \/ entries'[k].attempts = 1
             \/ /\ k \in Present /\ ~(entries[k].attempts >= Budget(k))
                /\ entries'[k].attempts = entries[k].attempts + 1
  <2>1. keys \subseteq Live(c) /\ keys \in SUBSET Present
    BY RemainingAreLive
  <2>2. k \in keys /\ k \in Slots(c) => ~(entries[k].attempts >= Budget(k))
    BY <1>2, <2>1 DEF LockedOut, UsedUp
  <2> QED
    BY <1>2, <2>1, <2>2, ChargedEntry
<1>3. CASE \E c \in Client : RefuseLockedOut(c)
  BY <1>1, <1>3, RemainingWerePresent DEF RefuseLockedOut
<1>4. CASE \E c \in Client : AdmitTracked(c)
  BY <1>2, <1>4 DEF AdmitTracked
<1>5. CASE \/ \E c \in Client, granted \in BOOLEAN : UseOverflow(c, granted)
           \/ \E c \in Client, granted \in BOOLEAN : UseReserve(c, granted)
  <2>1. PICK c \in Client, granted \in BOOLEAN : Untracked(c, granted)
    BY <1>5 DEF UseOverflow, UseReserve
  <2>2. PICK keys \in Remaining(c) :
          entries' = Charged(keys, c, FALSE) \/ entries' = Table(keys)
    BY <2>1, AcquireSteps
  <2>3. keys \in SUBSET Present
    BY RemainingAreLive
  <2> QED
    BY <1>1, <1>2, <2>1, <2>2, <2>3, AcquireSteps
<1>6. CASE \E c \in Client : VerifySucceeds(c)
  <2>1. PICK c \in Client : entries' = Table(Present \ Slots(c))
    BY <1>6 DEF VerifySucceeds
  <2>2. Present \ Slots(c) \in SUBSET Present
    OBVIOUS
  <2> QED
    BY <1>1, <2>1, <2>2
<1>7. CASE (\E c \in Client : VerifyFails(c)) \/ Tick \/ UNCHANGED vars
  BY <1>7 DEF VerifyFails, Tick, vars, Present
<1> QED
  BY <1>3, <1>4, <1>5, <1>6, <1>7 DEF Next

LEMMA BudgetInductive == TableTypeOK /\ WithinBudget /\ [Next]_vars => WithinBudget'
<1> SUFFICES ASSUME TableTypeOK, WithinBudget, [Next]_vars,
                    NEW k \in Tracked, entries'[k] # NoEntry
             PROVE  entries'[k].attempts <= Budget(k)
  BY DEF WithinBudget, Present, Budget
<1>1. Budget(k) \in Nat /\ Budget(k) >= 1
  BY LimiterAssumption DEF Budget
<1>2. k \in Present => entries[k].attempts \in Nat /\ entries[k].attempts <= Budget(k)
  BY DEF WithinBudget, TableTypeOK, Present, Entry
<1> QED
  BY <1>1, <1>2, ChargesHaveBudget

(* Every attempt that a key's window admits is within the key's budget.     *)
THEOREM BudgetsHold == Spec => []WithinBudget
<1>1. Init => WithinBudget
  BY DEF Init, WithinBudget, Present
<1>2. TableTypeOK /\ WithinBudget /\ [Next]_vars => WithinBudget'
  BY BudgetInductive
<1> QED
  BY <1>1, <1>2, TableTypeInit, TableTypeInductive, PTL DEF Spec

(* As many copies of a budget as there are locked clients fit in what the   *)
(* /48 counted.                                                             *)
LEMMA LocksArePaid ==
    ASSUME TableTypeOK, ParentInv, WithinBudget, NEW p \in Parent, entries[p] # NoEntry
    PROVE  Cardinality(LaterChildren(p) \cap UsedUp) * MaxAttempts <= MaxParentAttempts
<1> DEFINE locked == LaterChildren(p) \cap UsedUp
           paid == locked \X (1 .. MaxAttempts)
           all == ChildAttempts(p)
<1>1. /\ IsFiniteSet(all) /\ Cardinality(all) <= entries[p].attempts
      /\ p \in Present /\ entries[p].attempts \in Nat
      /\ MaxAttempts \in Nat /\ MaxAttempts >= 1 /\ MaxParentAttempts \in Nat
  BY ChildrenAreTracked, LimiterAssumption
     DEF ParentInv, Counted, TableTypeOK, Present, Entry
<1>2. entries[p].attempts <= MaxParentAttempts
  BY <1>1 DEF WithinBudget, Budget
<1>3. \A k \in locked : k \notin Parent /\ k \in Tracked /\ entries[k].attempts \in Nat
                        /\ entries[k].attempts >= MaxAttempts
  <2> SUFFICES ASSUME NEW k \in locked
               PROVE  k \notin Parent /\ k \in Tracked /\ entries[k].attempts \in Nat
                        /\ entries[k].attempts >= MaxAttempts
    OBVIOUS
  <2>1. k \in Key /\ k \notin Parent /\ k \in Tracked /\ entries[k] # NoEntry
    BY LimiterAssumption DEF LaterChildren, Children, Tracked
  <2> QED
    BY <2>1 DEF UsedUp, Budget, TableTypeOK, Entry
<1>4. paid \subseteq all
  <2> SUFFICES ASSUME NEW k \in locked, NEW n \in 1 .. MaxAttempts
               PROVE  <<k, n>> \in all
    OBVIOUS
  <2>1. n \in 1 .. entries[k].attempts
    BY <1>1, <1>3
  <2> QED
    BY <2>1, AttemptsOfChildren
<1>5. IsFiniteSet(locked) /\ IsFiniteSet(1 .. MaxAttempts)
      /\ Cardinality(1 .. MaxAttempts) = MaxAttempts
  <2>1. IsFiniteSet(locked)
    <3>1. locked \subseteq Tracked
      BY <1>3
    <3> HIDE DEF locked
    <3> QED
      BY <3>1, FS_Subset, LimiterAssumption
  <2> QED
    BY <2>1, <1>1, FS_Interval
<1>6. Cardinality(paid) = Cardinality(locked) * MaxAttempts
  <2> HIDE DEF locked
  <2> QED
    BY <1>5, FS_Product
<1>7. Cardinality(paid) <= Cardinality(all) /\ Cardinality(paid) \in Nat
      /\ Cardinality(all) \in Nat
  <2> HIDE DEF paid, all
  <2> QED
    BY <1>1, <1>4, FS_Subset, FS_CardinalityType
<1> HIDE DEF paid, all
<1> QED
  BY <1>1, <1>2, <1>6, <1>7

(* The part of the documented limit on a /48's locked entries that holds.   *)
THEOREM ParentsPayForLocks == Spec => []ParentPaysForLocks
<1>1. TableTypeOK /\ ParentInv /\ [Next]_vars => ParentInv'
  BY CountInductive, WindowsInductive DEF ParentInv
<1>2. TableTypeOK /\ ParentInv /\ WithinBudget => ParentPaysForLocks
  BY LocksArePaid DEF ParentPaysForLocks
<1> QED
  BY <1>1, <1>2, TableTypeInit, TableTypeInductive, ParentInit, BudgetsHold, PTL DEF Spec
=============================================================================
