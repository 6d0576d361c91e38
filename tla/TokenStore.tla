----------------------------- MODULE TokenStore -----------------------------
(* tokens.json and the settings routes that change it.                      *)
(*                                                                          *)
(* The file is a set of token entries, each an id with a display name and   *)
(* lastUsedAt (kept as "was it ever stamped").  Every route reads the file  *)
(* and rewrites it without an await in between (data-store.ts is            *)
(* synchronous), so a route is one action: the awaits before the read       *)
(* (req.json(), params, bcrypt.hash) read no shared state.                  *)
EXTENDS FiniteSets

CONSTANTS
    Token,      \* ids randomUUID() may draw; the id stands for its secret too
    Name,       \* display names that survive trim()
    NoToken     \* the value of an id that has no entry in the file

VARIABLES
    tokens,     \* the entries of tokens.json
    disk,       \* what the file system lets the process do with the file
    issued      \* ids handed out so far: randomUUID() never repeats one

storeVars == <<tokens, disk, issued>>

TokenEntry == [name : Name, used : BOOLEAN]

ASSUME NoTokenAssumption == NoToken \notin TokenEntry \cup Name

(* "ok", or reads throw DataFileError (a damaged or unreadable file), or    *)
(* reads work and writes throw (a read-only data directory).                *)
DiskState == {"ok", "unreadable", "readonly"}

StoreTypeOK ==
    /\ tokens \in [Token -> TokenEntry \cup {NoToken}]
    /\ disk \in DiskState
    /\ issued \subseteq Token

Readable == disk # "unreadable"
Writable == disk = "ok"

(* The ids readTokens() lists.                                              *)
Listed(file) == {t \in Token : file[t] # NoToken}

(* readTokens(): a read that throws yields no entry to any of its callers.  *)
ReadTokens == IF Readable THEN tokens ELSE [t \in Token |-> NoToken]

StoreInit ==
    /\ tokens = [t \in Token |-> NoToken]
    /\ disk = "ok"
    /\ issued = {}

(* POST /api/settings/tokens.  A failing read answers 500 and a failing     *)
(* write throws: neither changes the file, nor tells anybody the token.     *)
CreateToken(t, n) ==
    /\ t \notin issued
    /\ Readable /\ Writable
    /\ tokens' = [ReadTokens EXCEPT ![t] = [name |-> n, used |-> FALSE]]
    /\ issued' = issued \cup {t}
    /\ UNCHANGED disk

(* PATCH /api/settings/tokens/[id].                                         *)
RenameToken(t, n) ==
    /\ Readable /\ Writable
    /\ t \in Listed(ReadTokens)
    /\ tokens' = [ReadTokens EXCEPT ![t].name = n]
    /\ UNCHANGED <<disk, issued>>

(* DELETE /api/settings/tokens/[id].                                        *)
RevokeToken(t) ==
    /\ Readable /\ Writable
    /\ t \in Listed(ReadTokens)
    /\ tokens' = [ReadTokens EXCEPT ![t] = NoToken]
    /\ UNCHANGED <<disk, issued>>

(* The operator's disk: damaged, repaired (with what it held), remounted.   *)
DiskChanges(d) ==
    /\ disk # d
    /\ disk' = d
    /\ UNCHANGED <<tokens, issued>>

StoreNext ==
    \/ \E t \in Token, n \in Name : CreateToken(t, n)
    \/ \E t \in Token, n \in Name : RenameToken(t, n)
    \/ \E t \in Token : RevokeToken(t)
    \/ \E d \in DiskState : DiskChanges(d)
=============================================================================
