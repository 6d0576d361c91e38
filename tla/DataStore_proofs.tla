-------------------------- MODULE DataStore_proofs --------------------------
(* Theorems about DataStore for any number of versions, temp names,         *)
(* attempts and accidents.                                                  *)
EXTENDS DataStore, FiniteSetTheorems, TLAPS

(* What every step preserves: NeverTorn needs to know, at the rename, that  *)
(* the temp file is complete and synced.                                    *)
Inv == TypeOK /\ NeverTorn /\ OwnTempIsComplete

LEMMA InvInit == Init => Inv
BY DataStoreAssumption DEF Init, Inv, TypeOK, NeverTorn, OwnTempIsComplete

(* The successful call and its failures change the locals within their type.*)
LEMMA CallType ==
    ASSUME TypeOK, call # NoCall
    PROVE  /\ call \in Call
           /\ \A step \in Step : [call EXCEPT !.step = step] \in Call
BY DEF TypeOK, Call

LEMMA InvInductive == Inv /\ [Next]_vars => Inv'
<1> SUFFICES ASSUME Inv, [Next]_vars PROVE Inv'
  OBVIOUS
<1> USE DataStoreAssumption DEF Inv, TypeOK, NeverTorn, OwnTempIsComplete, HoldsTemp, At, Own
<1>1. CASE \E v \in Value : WriteDataFile(v)
  <2> PICK v \in Value : WriteDataFile(v)
    BY <1>1
  <2>1. call' \in Call
    BY DEF WriteDataFile, Call, Step
  <2> QED
    BY <2>1 DEF WriteDataFile
<1>2. CASE \E n \in TempName : OpenTemp(n)
  <2> PICK n \in TempName : OpenTemp(n)
    BY <1>2
  <2>1. call' \in Call /\ call'.step = "write" /\ call'.tmp = n /\ call' # NoCall
    BY DEF OpenTemp, Call, Step
  <2>2. temps' \in [TempName -> Temp \cup {NoFile}] /\ temps'[n] # NoFile
    <3>1. [data |-> Torn, synced |-> FALSE] \in Temp
      BY DEF Temp
    <3> QED
      BY <3>1 DEF OpenTemp
  <2> QED
    BY <2>1, <2>2 DEF OpenTemp
<1>3. CASE \E n \in TempName : NameTaken(n)
  <2>1. CASE call' = NoCall
    BY <2>1, <1>3 DEF NameTaken, Throws
  <2>2. CASE call' = [call EXCEPT !.attempt = @ + 1] /\ call.attempt < TempNameAttempts
    <3>1. call' \in Call /\ call'.step = "open" /\ call' # NoCall
      BY <2>2, <1>3 DEF NameTaken, Call, Step
    <3> QED
      BY <2>2, <3>1, <1>3 DEF NameTaken, Throws
  <2>3. call # NoCall => call.attempt \in 1 .. TempNameAttempts
    BY DEF Call
  <2> QED
    BY <2>1, <2>2, <2>3, <1>3 DEF NameTaken, Throws
<1>4. CASE OpenFails
  BY <1>4 DEF OpenFails, Throws
<1>5. CASE WriteTemp
  <2>1. /\ call' \in Call /\ call' # NoCall /\ call'.step = "fsync"
        /\ call'.tmp = call.tmp /\ call'.value = call.value /\ call.value \in Value
    BY <1>5 DEF WriteTemp, Proceed, Call, Step
  <2>2. /\ temps' \in [TempName -> Temp \cup {NoFile}]
        /\ temps'[call.tmp] # NoFile /\ temps'[call.tmp].data = call.value
    <3>1. [data |-> call.value, synced |-> FALSE] \in Temp
      BY <2>1 DEF Temp
    <3>2. call.tmp \in TempName
      BY <1>5 DEF WriteTemp
    <3> QED
      BY <3>1, <3>2, <1>5 DEF WriteTemp
  <2> QED
    BY <2>1, <2>2, <1>5 DEF WriteTemp
<1>6. CASE SyncTemp
  <2>1. /\ call' \in Call /\ call' # NoCall /\ call'.step = "close"
        /\ call'.tmp = call.tmp /\ call'.value = call.value
    BY <1>6 DEF SyncTemp, Proceed, Call, Step
  <2>2. /\ temps' \in [TempName -> Temp \cup {NoFile}]
        /\ temps'[call.tmp] # NoFile /\ temps'[call.tmp].data = call.value
        /\ temps'[call.tmp].synced
    BY <2>1, <1>6 DEF SyncTemp, Temp
  <2> QED
    BY <2>1, <2>2, <1>6 DEF SyncTemp
<1>7. CASE CloseTemp
  <2>1. /\ call' \in Call /\ call' # NoCall /\ call'.step = "rename"
        /\ call'.tmp = call.tmp /\ call'.value = call.value
    BY <1>7 DEF CloseTemp, Proceed, Call, Step
  <2> QED
    BY <2>1, <1>7 DEF CloseTemp
<1>8. CASE RenameTemp
  <2>1. /\ call' \in Call /\ call' # NoCall /\ call'.step = "syncdir"
        /\ call'.tmp = call.tmp /\ call'.value = call.value /\ call.value \in Value
    BY <1>8 DEF RenameTemp, Proceed, Call, Step
  <2>2. target' = call.value /\ durable' = durable \cup {call.value}
    BY <1>8 DEF RenameTemp
  <2>3. temps' \in [TempName -> Temp \cup {NoFile}]
    BY <1>8 DEF RenameTemp
  <2> QED
    BY <2>1, <2>2, <2>3, <1>8 DEF RenameTemp
<1>9. CASE \E works \in BOOLEAN : SyncDirectory(works)
  BY <1>9 DEF SyncDirectory, Returns
<1>10. CASE CallFails
  <2>1. call' \in Call /\ call' # NoCall /\ call'.step = "cleanup" /\ call'.tmp = call.tmp
    BY <1>10 DEF CallFails, Proceed, Call, Step
  <2> QED
    BY <2>1, <1>10 DEF CallFails
<1>11. CASE \E works \in BOOLEAN : CleanUp(works)
  BY <1>11 DEF CleanUp, Throws
<1>12. CASE ProcessDies
  BY <1>12 DEF ProcessDies
<1>13. CASE PowerFails
  <2>1. temps' \in [TempName -> Temp \cup {NoFile}]
    BY <1>13 DEF PowerFails, Temp
  <2>2. target' \in durable /\ durable' = {target'} /\ call' = NoCall
    BY <1>13 DEF PowerFails
  <2>3. answer' = answer /\ accidents' \in Nat
    BY <1>13 DEF PowerFails
  <2> QED
    BY <2>1, <2>2, <2>3
<1>14. CASE UNCHANGED vars
  BY <1>14 DEF vars
<1> QED
  BY <1>1, <1>2, <1>3, <1>4, <1>5, <1>6, <1>7, <1>8, <1>9, <1>10, <1>11, <1>12, <1>13, <1>14
     DEF Next

(* The types of DataStore's variables.                                      *)
THEOREM TypeCorrect == Spec => []TypeOK
<1>1. Inv => TypeOK
  BY DEF Inv
<1> QED
  BY <1>1, InvInit, InvInductive, PTL DEF Spec

(* writeDataFile(): a reader never finds a truncated file, whatever fails   *)
(* and wherever the process dies or the power goes.                         *)
THEOREM FilesAreWhole == Spec => []NeverTorn
<1>1. Inv => NeverTorn
  BY DEF Inv
<1> QED
  BY <1>1, InvInit, InvInductive, PTL DEF Spec

-----------------------------------------------------------------------------
(* Temp files.                                                              *)

(* writeDataFile() writes and removes no temp file but the one it created.  *)
THEOREM ForeignTempsStay == Spec => ForeignTempsAreUntouched
<1>1. Inv /\ [Next]_vars => ForeignTempStep
  <2> SUFFICES ASSUME Inv, [Next]_vars, ~PowerFails, NEW m \in TempName,
                      temps[m] # NoFile, ~(HoldsTemp /\ Own = m)
               PROVE  temps'[m] = temps[m]
    BY DEF ForeignTempStep
  <2> USE DEF Inv, TypeOK, HoldsTemp, Own, At
  <2>1. CASE \E n \in TempName : OpenTemp(n)
    BY <2>1 DEF OpenTemp
  <2>2. CASE WriteTemp \/ SyncTemp \/ RenameTemp
    BY <2>2 DEF WriteTemp, SyncTemp, RenameTemp
  <2>3. CASE \E works \in BOOLEAN : CleanUp(works)
    BY <2>3 DEF CleanUp
  <2>4. CASE UNCHANGED temps
    BY <2>4
  <2>5. CASE \/ \E v \in Value : WriteDataFile(v)
             \/ \E n \in TempName : NameTaken(n)
             \/ OpenFails \/ CloseTemp \/ CallFails \/ ProcessDies
             \/ \E works \in BOOLEAN : SyncDirectory(works)
    BY <2>4, <2>5
       DEF WriteDataFile, NameTaken, OpenFails, CloseTemp, CallFails, ProcessDies, SyncDirectory
  <2>6. CASE UNCHANGED vars
    BY <2>4, <2>6 DEF vars
  <2> QED
    BY <2>1, <2>2, <2>3, <2>5, <2>6 DEF Next
<1> QED
  BY <1>1, InvInit, InvInductive, PTL DEF Spec, ForeignTempsAreUntouched

LEMMA StrayInductive == Inv /\ OneStrayPerAccident /\ [Next]_vars => OneStrayPerAccident'
<1> SUFFICES ASSUME Inv, OneStrayPerAccident, [Next]_vars PROVE OneStrayPerAccident'
  OBVIOUS
<1> USE DEF Inv, TypeOK
<1>1. /\ IsFiniteSet(Existing) /\ Cardinality(Existing) \in Nat /\ accidents \in Nat
      /\ Cardinality(Existing) <= accidents + (IF HoldsTemp THEN 1 ELSE 0)
  BY FS_Subset, FS_CardinalityType, DataStoreAssumption DEF Existing, OneStrayPerAccident
<1>2. ASSUME Existing' \in SUBSET Existing,
             \/ accidents' = accidents /\ (HoldsTemp => HoldsTemp')
             \/ accidents' = accidents + 1
      PROVE  OneStrayPerAccident'
  <2>1. Cardinality(Existing') <= Cardinality(Existing) /\ Cardinality(Existing') \in Nat
    BY <1>1, <1>2, FS_Subset, FS_CardinalityType
  <2> QED
    BY <1>1, <1>2, <2>1 DEF OneStrayPerAccident
<1>3. ASSUME HoldsTemp, Own \in Existing, Existing' = Existing \ {Own}, accidents' = accidents
      PROVE  OneStrayPerAccident'
  <2>1. Cardinality(Existing') = Cardinality(Existing) - 1
    BY <1>1, <1>3, FS_RemoveElement
  <2> QED
    BY <1>1, <1>3, <2>1 DEF OneStrayPerAccident
<1>4. CASE \E n \in TempName : OpenTemp(n)
  <2> PICK n \in TempName : OpenTemp(n)
    BY <1>4
  <2>1. ~HoldsTemp /\ accidents' = accidents
    BY DEF OpenTemp, HoldsTemp, At
  <2>2. HoldsTemp'
    <3>1. call \in Call /\ call # NoCall
      BY CallType DEF OpenTemp, At
    <3>2. call' \in Call /\ call'.step = "write"
      BY <3>1 DEF OpenTemp, Call, Step
    <3> QED
      BY <3>2, DataStoreAssumption DEF HoldsTemp
  <2>3. Existing' \subseteq Existing \cup {n} /\ n \notin Existing
    BY DEF OpenTemp, Existing
  <2>4. Cardinality(Existing \cup {n}) = Cardinality(Existing) + 1 /\ IsFiniteSet(Existing \cup {n})
    BY <1>1, <2>3, FS_AddElement
  <2>5. Cardinality(Existing') <= Cardinality(Existing) + 1 /\ Cardinality(Existing') \in Nat
    BY <2>3, <2>4, FS_Subset, FS_CardinalityType
  <2> QED
    BY <1>1, <2>1, <2>2, <2>5 DEF OneStrayPerAccident
<1>5. CASE WriteTemp \/ SyncTemp
  <2>1. HoldsTemp /\ Own \in Existing /\ accidents' = accidents
    BY <1>5 DEF WriteTemp, SyncTemp, OwnTempIsComplete, HoldsTemp, At, Existing
  <2>2. Existing' \in SUBSET Existing
    BY <1>5, <2>1 DEF WriteTemp, SyncTemp, Existing
  <2>3. HoldsTemp'
    BY <1>5, CallType, DataStoreAssumption DEF WriteTemp, SyncTemp, Proceed, At, HoldsTemp, Call, Step
  <2> QED
    BY <1>2, <2>1, <2>2, <2>3
<1>6. CASE CloseTemp \/ CallFails
  <2>1. HoldsTemp'
    BY <1>6, CallType, DataStoreAssumption DEF CloseTemp, CallFails, Proceed, At, HoldsTemp, Call, Step
  <2> QED
    BY <1>2, <1>6, <2>1 DEF CloseTemp, CallFails, Existing
<1>7. CASE RenameTemp \/ CleanUp(TRUE)
  <2>1. HoldsTemp /\ accidents' = accidents /\ temps' = [temps EXCEPT ![Own] = NoFile]
    BY <1>7 DEF RenameTemp, CleanUp, HoldsTemp, At
  <2>2. Own \in Existing
    BY <2>1 DEF OwnTempIsComplete, Existing, HoldsTemp
  <2>3. Existing' = Existing \ {Own}
    BY <2>1, <2>2 DEF Existing
  <2> QED
    BY <1>3, <2>1, <2>2, <2>3
<1>8. CASE CleanUp(FALSE) \/ ProcessDies \/ PowerFails
  <2>1. Existing' \in SUBSET Existing
    BY <1>8 DEF CleanUp, ProcessDies, PowerFails, Existing
  <2>2. accidents' = accidents + 1
    BY <1>8 DEF CleanUp, ProcessDies, PowerFails
  <2> QED
    BY <1>2, <2>1, <2>2
<1>9. CASE \/ \E v \in Value : WriteDataFile(v)
           \/ \E n \in TempName : NameTaken(n)
           \/ OpenFails
           \/ \E works \in BOOLEAN : SyncDirectory(works)
  <2>1. temps' = temps /\ accidents' = accidents
    BY <1>9 DEF WriteDataFile, NameTaken, OpenFails, SyncDirectory
  <2>2. ~HoldsTemp
    BY <1>9 DEF WriteDataFile, NameTaken, OpenFails, SyncDirectory, HoldsTemp, At
  <2> QED
    BY <1>2, <2>1, <2>2 DEF Existing
<1>10. CASE UNCHANGED vars
  BY <1>2, <1>10 DEF vars, Existing, HoldsTemp
<1>11. (\E works \in BOOLEAN : CleanUp(works)) => CleanUp(TRUE) \/ CleanUp(FALSE)
  OBVIOUS
<1> QED
  BY <1>4, <1>5, <1>6, <1>7, <1>8, <1>9, <1>10, <1>11 DEF Next

(* Whatever step of a write fails, its temp file is removed: stray files    *)
(* are paid for by deaths, power failures and failing unlinks.              *)
THEOREM StraysArePaidFor == Spec => []OneStrayPerAccident
<1>1. Init => OneStrayPerAccident
  <2> SUFFICES ASSUME Init PROVE OneStrayPerAccident
    OBVIOUS
  <2>1. Existing = {} /\ ~HoldsTemp /\ accidents = 0
    BY DEF Init, Existing, HoldsTemp
  <2> QED
    BY <2>1, FS_EmptySet DEF OneStrayPerAccident
<1> QED
  BY <1>1, InvInit, InvInductive, StrayInductive, PTL DEF Spec

-----------------------------------------------------------------------------
(* Refinement.                                                              *)

(* A write under way is not NoCall.                                         *)
LEMMA WriteIsNoCall ==
    /\ \A v \in Value, b \in BOOLEAN : [value |-> v, replaced |-> b] # NoCall
    /\ TypeOK => (Write # NoCall <=> call # NoCall)
<1>1. ASSUME NEW v \in Value, NEW b \in BOOLEAN PROVE [value |-> v, replaced |-> b] # NoCall
  <2>1. [value |-> v, replaced |-> b] \in [value : Value, replaced : BOOLEAN]
    OBVIOUS
  <2> QED
    BY <2>1, DataStoreAssumption
<1>2. ASSUME TypeOK, call # NoCall PROVE Write # NoCall
  <2>1. call.value \in Value /\ (call.step = "syncdir") \in BOOLEAN
    BY <1>2, CallType DEF Call
  <2> DEFINE b == call.step = "syncdir"
  <2>2. [value |-> call.value, replaced |-> b] # NoCall
    BY <2>1, <1>1
  <2> QED
    BY <1>2, <2>2 DEF Write
<1> QED
  BY <1>1, <1>2 DEF Write

LEMMA RefinesInit == Init => File!FileInit
BY DEF Init, File!FileInit, Write

(* The steps before the rename and after a failure are not seen.            *)
LEMMA InnerSteps ==
    ASSUME Inv, call # NoCall, call.step # "syncdir",
           NEW step \in Step, step # "syncdir", Proceed(step),
           UNCHANGED <<target, durable, answer>>
    PROVE  UNCHANGED File!fileVars
<1>1. call \in Call /\ call' \in Call
  BY CallType DEF Inv, Proceed
<1>2. call' # NoCall /\ call'.step = step /\ call'.value = call.value
  BY <1>1, DataStoreAssumption DEF Proceed, Call
<1> QED
  BY <1>2 DEF File!fileVars, Write

LEMMA RefinesNext == Inv /\ [Next]_vars => [File!FileNext]_File!fileVars
<1> SUFFICES ASSUME Inv, [Next]_vars PROVE [File!FileNext]_File!fileVars
  OBVIOUS
<1>a. Write # NoCall <=> call # NoCall
  BY WriteIsNoCall DEF Inv
<1>b. ASSUME call # NoCall, call' = NoCall, answer' = "error", call.step # "syncdir",
             UNCHANGED <<target, durable>>
      PROVE  File!Answer
  BY <1>a, <1>b DEF File!Answer, Write
<1>1. CASE \E v \in Value : WriteDataFile(v)
  <2> PICK v \in Value : WriteDataFile(v)
    BY <1>1
  <2>1. Write = NoCall /\ Write' = [value |-> v, replaced |-> FALSE]
    <3> DEFINE c == [step |-> "open", value |-> v, tmp |-> NoTemp, attempt |-> 1]
    <3>1. c \in Call
      BY DataStoreAssumption DEF Call, Step
    <3>2. call = NoCall /\ call' = c /\ c # NoCall
      BY <3>1, DataStoreAssumption DEF WriteDataFile
    <3> QED
      BY <3>2 DEF Write
  <2>2. File!Begin(v)
    BY <2>1 DEF WriteDataFile, File!Begin
  <2> QED
    BY <2>2 DEF File!FileNext
<1>2. CASE \E n \in TempName : OpenTemp(n)
  <2> PICK n \in TempName : OpenTemp(n)
    BY <1>2
  <2>1. call' # NoCall /\ call'.step = "write" /\ call'.value = call.value
    BY CallType, DataStoreAssumption DEF Inv, OpenTemp, At, Call, Step
  <2> QED
    BY <2>1 DEF OpenTemp, At, File!fileVars, Write
<1>3. CASE \E n \in TempName : NameTaken(n)
  <2>1. call # NoCall /\ call.step = "open" /\ UNCHANGED <<target, durable>>
    BY <1>3 DEF NameTaken, At
  <2>2. CASE Throws
    BY <2>1, <2>2, <1>b DEF Throws, File!FileNext
  <2>3. CASE call' = [call EXCEPT !.attempt = @ + 1] /\ UNCHANGED answer
             /\ call.attempt < TempNameAttempts
    <3>1. call' \in Call /\ call'.step = "open" /\ call'.value = call.value
      BY <2>1, <2>3, CallType, DataStoreAssumption DEF Inv, Call, Step
    <3>2. call' # NoCall
      BY <3>1, DataStoreAssumption
    <3> QED
      BY <2>1, <2>3, <3>1, <3>2 DEF File!fileVars, Write
  <2>4. call.attempt \in 1 .. TempNameAttempts
    BY <2>1, CallType DEF Inv, Call
  <2> QED
    BY <2>2, <2>3, <2>4, <1>3, DataStoreAssumption DEF NameTaken
<1>4. CASE OpenFails
  BY <1>4, <1>b DEF OpenFails, Throws, At, File!FileNext
<1>5. CASE WriteTemp \/ SyncTemp \/ CloseTemp \/ CallFails
  BY <1>5, InnerSteps DEF WriteTemp, SyncTemp, CloseTemp, CallFails, At, Step
<1>6. CASE RenameTemp
  <2>1. call \in Call /\ call' \in Call
    BY <1>6, CallType DEF Inv, RenameTemp, Proceed, At, Step
  <2>2. call' # NoCall /\ call'.step = "syncdir" /\ call'.value = call.value
    BY <1>6, <2>1, DataStoreAssumption DEF RenameTemp, Proceed, Call
  <2>3. target' = call.value /\ durable' = durable \cup {call.value}
    BY <1>6 DEF RenameTemp, Inv, OwnTempIsComplete, At, Own
  <2>4. /\ Write = [value |-> call.value, replaced |-> FALSE]
        /\ Write' = [value |-> call.value, replaced |-> TRUE]
    BY <1>6, <2>2 DEF RenameTemp, At, Write
  <2>5. Write # NoCall /\ Write.value = call.value /\ ~Write.replaced
    <3>1. Write # NoCall
      BY <1>6, <1>a DEF RenameTemp, At
    <3>2. Write.value = call.value
      BY <2>4
    <3>3. ~Write.replaced
      BY <2>4, Zenon
    <3> QED
      BY <3>1, <3>2, <3>3
  <2>6. File!Replace
    BY <2>3, <2>4, <2>5, <1>6 DEF RenameTemp, File!Replace
  <2> QED
    BY <2>6 DEF File!FileNext
<1>7. CASE \E works \in BOOLEAN : SyncDirectory(works)
  <2>1. /\ call # NoCall /\ call' = NoCall /\ call.step = "syncdir" /\ answer' = "ok"
        /\ target' = target /\ (durable' = durable \/ durable' = {target})
    BY <1>7 DEF SyncDirectory, Returns, At
  <2>2. File!Answer
    BY <2>1, <1>a DEF File!Answer, Write
  <2> QED
    BY <2>2 DEF File!FileNext
<1>8. CASE \E works \in BOOLEAN : CleanUp(works)
  BY <1>8, <1>b DEF CleanUp, Throws, At, File!FileNext
<1>9. CASE ProcessDies
  <2>1. File!Die
    BY <1>9, <1>a DEF ProcessDies, File!Die, Write
  <2> QED
    BY <2>1 DEF File!FileNext
<1>10. CASE PowerFails
  <2>1. File!PowerFails
    BY <1>10 DEF PowerFails, File!PowerFails, Write
  <2> QED
    BY <2>1 DEF File!FileNext
<1>11. CASE UNCHANGED vars
  BY <1>11 DEF vars, File!fileVars, Write
<1> QED
  BY <1>1, <1>2, <1>3, <1>4, <1>5, <1>6, <1>7, <1>8, <1>9, <1>10, <1>11 DEF Next

(* writeDataFile() implements AtomicFile: the file is replaced as a whole   *)
(* or not at all, and an error means that it was not.                       *)
THEOREM StoreImplementsAtomicFile == Spec => ReplacesAtomically
BY RefinesInit, RefinesNext, InvInit, InvInductive, PTL
   DEF Spec, ReplacesAtomically, File!FileSpec

-----------------------------------------------------------------------------
(* A version that was given up.                                             *)

(* No reader finds it, no power failure leaves it, nobody is writing it; a  *)
(* stray temp file may hold it all the same.                                *)
Gone(v) == v # target /\ v \notin durable /\ (call # NoCall => call.value # v)

SupersededStep ==
    /\ \A v \in Value : Gone(v) => Gone(v)' \/ WriteDataFile(v)
    /\ SyncDirectory(TRUE) => \A v \in Value \ {target} : Gone(v)'

(* A write whose directory was synced leaves no other version to come back, *)
(* and a version that is gone returns only with a caller that writes it     *)
(* again: not by a power failure, and not by a temp file that an earlier    *)
(* call, or an earlier process, left behind.                                *)
SupersededStaysGone == [][SupersededStep]_vars

LEMMA GoneStays ==
    ASSUME Inv, [Next]_vars, NEW v \in Value, Gone(v), ~WriteDataFile(v)
    PROVE  Gone(v)'
<1> USE DataStoreAssumption DEF Gone
<1>1. ASSUME NEW w \in Value, WriteDataFile(w) PROVE Gone(v)'
  <2>1. w # v
    BY <1>1
  <2> QED
    BY <1>1, <2>1 DEF WriteDataFile
<1>2. ASSUME UNCHANGED <<target, durable>>, call' = NoCall PROVE Gone(v)'
  BY <1>2
<1>3. ASSUME UNCHANGED <<target, durable>>, call # NoCall, call' # NoCall => call'.value = call.value
      PROVE  Gone(v)'
  BY <1>3
<1>4. call # NoCall => call \in Call
  BY DEF Inv, TypeOK
<1>5. ASSUME NEW step \in Step, call # NoCall, Proceed(step)
      PROVE  call'.value = call.value
  BY <1>4, <1>5 DEF Proceed, Call
<1>6. CASE \E n \in TempName : OpenTemp(n)
  BY <1>3, <1>4, <1>6 DEF OpenTemp, At, Call
<1>7. CASE \E n \in TempName : NameTaken(n)
  <2>1. call # NoCall /\ UNCHANGED <<target, durable>>
    BY <1>7 DEF NameTaken, At
  <2>2. call' # NoCall => call'.value = call.value
    BY <1>4, <1>7, <2>1 DEF NameTaken, Throws, Call
  <2> QED
    BY <1>3, <2>1, <2>2
<1>8. CASE OpenFails \/ (\E works \in BOOLEAN : CleanUp(works)) \/ ProcessDies
  BY <1>2, <1>8 DEF OpenFails, CleanUp, ProcessDies, Throws
<1>9. CASE WriteTemp \/ SyncTemp \/ CloseTemp \/ CallFails
  <2>1. call # NoCall /\ UNCHANGED <<target, durable>>
    BY <1>9 DEF WriteTemp, SyncTemp, CloseTemp, CallFails, At
  <2>2. \E step \in Step : Proceed(step)
    BY <1>9 DEF WriteTemp, SyncTemp, CloseTemp, CallFails, Step
  <2> QED
    BY <1>3, <1>5, <2>1, <2>2
<1>10. CASE RenameTemp
  <2>1. call # NoCall /\ temps[Own].synced /\ temps[Own].data = call.value
    BY <1>10 DEF RenameTemp, At, Inv, OwnTempIsComplete
  <2>2. target' = call.value /\ durable' = durable \cup {call.value}
    BY <1>10, <2>1 DEF RenameTemp
  <2>3. call'.value = call.value
    BY <1>5, <1>10, <2>1 DEF RenameTemp, Step
  <2> QED
    BY <2>1, <2>2, <2>3
<1>11. CASE \E works \in BOOLEAN : SyncDirectory(works)
  BY <1>11 DEF SyncDirectory, Returns
<1>12. CASE PowerFails
  BY <1>12 DEF PowerFails
<1>13. CASE UNCHANGED vars
  BY <1>13 DEF vars
<1> QED
  BY <1>1, <1>6, <1>7, <1>8, <1>9, <1>10, <1>11, <1>12, <1>13 DEF Next

(* Old versions of the file do not come back.                               *)
THEOREM OldVersionsStayGone == Spec => SupersededStaysGone
<1>1. Inv /\ [Next]_vars => SupersededStep
  <2>1. SyncDirectory(TRUE) => \A v \in Value \ {target} : Gone(v)'
    BY DEF SyncDirectory, Returns, Gone
  <2> QED
    BY <2>1, GoneStays DEF SupersededStep
<1> QED
  BY <1>1, InvInit, InvInductive, PTL DEF Spec, SupersededStaysGone
=============================================================================
