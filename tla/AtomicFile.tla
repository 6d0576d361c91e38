----------------------------- MODULE AtomicFile -----------------------------
(* What writeDataFile() promises its callers: a file that is replaced as a  *)
(* whole or not at all.  A writer that is told "ok" has replaced it, one    *)
(* that is told "error" has not; if the process dies before it answers,     *)
(* either may be the case.  A power failure leaves one of the versions that *)
(* the disk may hold by then.                                               *)
CONSTANTS
    Value,      \* versions of the file
    Missing,    \* no file yet
    NoWrite     \* nobody is writing

VARIABLES
    content,    \* what a reader finds
    durable,    \* what a reader may find after a power failure
    write,      \* the write under way
    answer      \* what the last write answered

fileVars == <<content, durable, write, answer>>

FileInit ==
    /\ content = Missing
    /\ durable = {Missing}
    /\ write = NoWrite
    /\ answer = "none"

Begin(v) ==
    /\ write = NoWrite
    /\ write' = [value |-> v, replaced |-> FALSE]
    /\ answer' = "none"
    /\ UNCHANGED <<content, durable>>

Replace ==
    /\ write # NoWrite
    /\ ~write.replaced
    /\ content' = write.value
    /\ durable' = durable \cup {write.value}
    /\ write' = [value |-> write.value, replaced |-> TRUE]
    /\ UNCHANGED answer

(* The caller hears the truth; the replaced version may be durable by then. *)
Answer ==
    /\ write # NoWrite
    /\ answer' = IF write.replaced THEN "ok" ELSE "error"
    /\ write' = NoWrite
    /\ durable' = durable \/ (write.replaced /\ durable' = {content})
    /\ UNCHANGED content

Die ==
    /\ write # NoWrite
    /\ write' = NoWrite
    /\ UNCHANGED <<content, durable, answer>>

PowerFails ==
    /\ content' \in durable
    /\ durable' = {content'}
    /\ write' = NoWrite
    /\ UNCHANGED answer

FileNext ==
    \/ \E v \in Value : Begin(v)
    \/ Replace
    \/ Answer
    \/ Die
    \/ PowerFails

FileSpec == FileInit /\ [][FileNext]_fileVars
=============================================================================
