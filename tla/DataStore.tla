----------------------------- MODULE DataStore ------------------------------
(* writeDataFile() of data-store.ts: one file of the data directory, one    *)
(* system call at a time.                                                   *)
(*                                                                          *)
(* The function is synchronous, so one write runs at a time and what comes  *)
(* between two of its calls is only a failure: of the call itself, of the   *)
(* process, or of the power.  The process that comes back after a failure   *)
(* knows nothing of the write that was under way.                           *)
(*                                                                          *)
(* The file system is modelled by what the function relies on: an exclusive *)
(* create never opens an existing file, a rename replaces the target at     *)
(* once for every reader, fsync of a file makes its data survive a power    *)
(* failure, and fsync of the directory does the same for a rename.  What    *)
(* was not synced may be lost; a rename that was not synced may be kept.    *)
EXTENDS Naturals, FiniteSets

CONSTANTS
    Value,              \* what callers write
    TempName,           \* the names randomBytes(8) may draw
    TempNameAttempts,   \* TEMP_NAME_ATTEMPTS
    Missing,            \* no file: readDataFile() yields the default
    Torn,               \* an empty or truncated file: it throws DataFileError
    NoFile, NoCall, NoTemp,
    MaxAccidents        \* bound: deaths, power failures, failing unlinks

VARIABLES
    target,     \* the data file, as a reader finds it
    durable,    \* what a power failure may leave of it
    temps,      \* the temp files in the directory
    call,       \* the locals of the call under way
    answer,     \* history: how the last call ended
    accidents   \* history: what may have left a temp file behind

vars == <<target, durable, temps, call, answer, accidents>>

Step == {"open", "write", "fsync", "close", "rename", "syncdir", "cleanup"}

Temp == [data : Value \cup {Torn}, synced : BOOLEAN]
Call == [step : Step, value : Value, tmp : TempName \cup {NoTemp},
         attempt : 1 .. TempNameAttempts]

ASSUME DataStoreAssumption ==
    /\ TempNameAttempts \in Nat \ {0}
    /\ MaxAccidents \in Nat
    /\ Missing \notin Value /\ Torn \notin Value /\ Missing # Torn
    /\ NoFile \notin Temp
    /\ NoCall \notin Call \cup [value : Value, replaced : BOOLEAN]
    /\ NoTemp \notin TempName
    /\ IsFiniteSet(TempName)

TypeOK ==
    /\ target \in Value \cup {Missing, Torn}
    /\ durable \subseteq Value \cup {Missing, Torn}
    /\ temps \in [TempName -> Temp \cup {NoFile}]
    /\ call \in Call \cup {NoCall}
    /\ answer \in {"none", "ok", "error"}
    /\ accidents \in Nat

-----------------------------------------------------------------------------
(* A call that goes well.                                                   *)

Init ==
    /\ target = Missing
    /\ durable = {Missing}
    /\ temps = [n \in TempName |-> NoFile]
    /\ call = NoCall
    /\ answer = "none"
    /\ accidents = 0

At(step) == call # NoCall /\ call.step = step
Own == call.tmp
HoldsTemp == call # NoCall /\ call.step \in {"write", "fsync", "close", "rename", "cleanup"}
Proceed(step) == call' = [call EXCEPT !.step = step]

Returns == call' = NoCall /\ answer' = "ok"
Throws == call' = NoCall /\ answer' = "error"

WriteDataFile(v) ==
    /\ call = NoCall
    /\ call' = [step |-> "open", value |-> v, tmp |-> NoTemp, attempt |-> 1]
    /\ answer' = "none"
    /\ UNCHANGED <<target, durable, temps, accidents>>

OpenTemp(n) ==
    /\ At("open")
    /\ temps[n] = NoFile
    /\ temps' = [temps EXCEPT ![n] = [data |-> Torn, synced |-> FALSE]]
    /\ call' = [call EXCEPT !.step = "write", !.tmp = n]
    /\ UNCHANGED <<target, durable, answer, accidents>>

(* Mutant: the file is closed without fsync.                                *)
WriteTemp_Mutant ==
    /\ At("write")
    /\ temps' = [temps EXCEPT ![Own] = [data |-> call.value, synced |-> FALSE]]
    /\ Proceed("close")
    /\ UNCHANGED <<target, durable, answer, accidents>>

WriteTemp ==
    /\ At("write")
    /\ temps' = [temps EXCEPT ![Own] = [data |-> call.value, synced |-> FALSE]]
    /\ Proceed("fsync")
    /\ UNCHANGED <<target, durable, answer, accidents>>

SyncTemp ==
    /\ At("fsync")
    /\ temps' = [temps EXCEPT ![Own].synced = TRUE]
    /\ Proceed("close")
    /\ UNCHANGED <<target, durable, answer, accidents>>

CloseTemp ==
    /\ At("close")
    /\ Proceed("rename")
    /\ UNCHANGED <<target, durable, temps, answer, accidents>>

RenameTemp ==
    /\ At("rename")
    /\ target' = temps[Own].data
    /\ durable' = durable \cup {IF temps[Own].synced THEN temps[Own].data ELSE Torn}
    /\ temps' = [temps EXCEPT ![Own] = NoFile]
    /\ Proceed("syncdir")
    /\ UNCHANGED <<answer, accidents>>

(* Mutant: a directory that cannot be synced fails the write.               *)
SyncDirectory_Mutant(works) ==
    /\ At("syncdir")
    /\ durable' = IF works THEN {target} ELSE durable
    /\ IF works THEN Returns ELSE Throws
    /\ UNCHANGED <<target, temps, accidents>>

(* Best effort.                                                             *)
SyncDirectory(works) ==
    /\ At("syncdir")
    /\ durable' = IF works THEN {target} ELSE durable
    /\ Returns
    /\ UNCHANGED <<target, temps, accidents>>

-----------------------------------------------------------------------------
(* Failures.                                                                *)

(* Mutant: one attempt too many.                                            *)
NameTaken_Mutant(n) ==
    /\ At("open")
    /\ temps[n] # NoFile
    /\ IF call.attempt > TempNameAttempts
         THEN Throws
         ELSE call' = [call EXCEPT !.attempt = @ + 1] /\ UNCHANGED answer
    /\ UNCHANGED <<target, durable, temps, accidents>>

(* Mutant: giving up removes the file that was in the way.                  *)
NameTaken_Unlink_Mutant(n) ==
    /\ At("open")
    /\ temps[n] # NoFile
    /\ IF call.attempt >= TempNameAttempts
         THEN Throws /\ temps' = [temps EXCEPT ![n] = NoFile]
         ELSE /\ call' = [call EXCEPT !.attempt = @ + 1]
              /\ UNCHANGED <<answer, temps>>
    /\ UNCHANGED <<target, durable, accidents>>

(* EEXIST: another random name, a limited number of times.                  *)
NameTaken(n) ==
    /\ At("open")
    /\ temps[n] # NoFile
    /\ IF call.attempt >= TempNameAttempts
         THEN Throws
         ELSE call' = [call EXCEPT !.attempt = @ + 1] /\ UNCHANGED answer
    /\ UNCHANGED <<target, durable, temps, accidents>>

(* Any other error of open: nothing was created.                            *)
OpenFails ==
    /\ At("open")
    /\ Throws
    /\ UNCHANGED <<target, durable, temps, accidents>>

(* A write, fsync, close or rename that fails; a failed write may have left *)
(* a part of the data.                                                      *)
CallFails ==
    /\ \E step \in {"write", "fsync", "close", "rename"} : At(step)
    /\ Proceed("cleanup")
    /\ UNCHANGED <<target, durable, temps, answer, accidents>>

(* Mutant: the temp file of a failed write stays.                           *)
CleanUp_Mutant(works) ==
    /\ At("cleanup")
    /\ works
    /\ Throws
    /\ UNCHANGED <<target, durable, temps, accidents>>

(* unlink(), whose own error is ignored; then the error is thrown on.       *)
CleanUp(works) ==
    /\ At("cleanup")
    /\ works \/ accidents < MaxAccidents
    /\ temps' = IF works THEN [temps EXCEPT ![Own] = NoFile] ELSE temps
    /\ accidents' = IF works THEN accidents ELSE accidents + 1
    /\ Throws
    /\ UNCHANGED <<target, durable>>

(* The process dies during the call; the files stay as they are.            *)
ProcessDies ==
    /\ call # NoCall
    /\ accidents < MaxAccidents
    /\ accidents' = accidents + 1
    /\ call' = NoCall
    /\ UNCHANGED <<target, durable, temps, answer>>

(* The machine goes down: a temp file may be gone, and one that was not     *)
(* synced is truncated at best.                                             *)
PowerFails ==
    /\ accidents < MaxAccidents
    /\ accidents' = accidents + 1
    /\ call' = NoCall
    /\ target' \in durable
    /\ durable' = {target'}
    /\ \E lost \in SUBSET TempName :
         temps' = [n \in TempName |->
                     IF temps[n] = NoFile \/ n \in lost THEN NoFile
                     ELSE IF temps[n].synced THEN temps[n]
                     ELSE [data |-> Torn, synced |-> TRUE]]
    /\ UNCHANGED answer

Next ==
    \/ \E v \in Value : WriteDataFile(v)
    \/ \E n \in TempName : OpenTemp(n)
    \/ \E n \in TempName : NameTaken(n)
    \/ OpenFails
    \/ WriteTemp
    \/ SyncTemp
    \/ CloseTemp
    \/ RenameTemp
    \/ \E works \in BOOLEAN : SyncDirectory(works)
    \/ CallFails
    \/ \E works \in BOOLEAN : CleanUp(works)
    \/ ProcessDies
    \/ PowerFails

Spec == Init /\ [][Next]_vars

-----------------------------------------------------------------------------
(* Properties.                                                              *)

(* No reader ever finds a truncated file, now or after any power failure.   *)
NeverTorn == target # Torn /\ Torn \notin durable

(* What is known of the call's own temp file, and of the target once it is  *)
(* replaced, at each step: what NeverTorn rests on.                         *)
OwnTempIsComplete ==
    call # NoCall =>
        /\ HoldsTemp => Own \in TempName /\ temps[Own] # NoFile
        /\ At("fsync") \/ At("close") \/ At("rename") => temps[Own].data = call.value
        /\ At("close") \/ At("rename") => temps[Own].synced
        /\ At("syncdir") => target = call.value

Existing == {n \in TempName : temps[n] # NoFile}

(* A call leaves no temp file behind, whichever of its steps fails: what    *)
(* lies around is one file for each accident at most.                       *)
OneStrayPerAccident ==
    Cardinality(Existing) <= accidents + (IF HoldsTemp THEN 1 ELSE 0)

ForeignTempStep ==
    \/ PowerFails
    \/ \A n \in TempName :
         temps[n] # NoFile /\ ~(HoldsTemp /\ Own = n) => temps'[n] = temps[n]

(* A temp file the call did not create is neither written nor removed.      *)
ForeignTempsAreUntouched == [][ForeignTempStep]_vars

(* The call under way, as its caller sees it.                               *)
Write ==
    IF call = NoCall THEN NoCall
    ELSE [value |-> call.value, replaced |-> call.step = "syncdir"]

File == INSTANCE AtomicFile WITH NoWrite <- NoCall, content <- target, write <- Write

(* The file is replaced as a whole or not at all, and the caller is told    *)
(* which: AtomicFile.                                                       *)
ReplacesAtomically == File!FileSpec
=============================================================================
