------------------------------ MODULE GithubCi ------------------------------
(* GET /api/proxy/github: the open pull requests of the repositories in the *)
(* server's environment, each with the CI status of its head commit, and    *)
(* the cache of commits whose checks all passed.                            *)
(*                                                                          *)
(* A request asks for all repositories at once (Promise.all). A listing     *)
(* that cannot be fetched rejects the whole answer, while the fetches of    *)
(* the other repositories go on and may still fill the cache. A listing     *)
(* holds at most one pull request here. A request that is not signed in or  *)
(* finds no token or no repository changes nothing and is left out.         *)
EXTENDS Naturals, Sequences

CONSTANTS
    Request,        \* requests in flight
    Repo,           \* the entries of GITHUB_REPOS
    NamedRepo,      \* those of the form owner/repo
    Commit,
    CheckRuns,      \* answers to a lookup: sets of check runs
    CacheMax,       \* CI_CACHE_MAX
    CacheTtl,       \* CI_CACHE_TTL_MS
    MaxNow          \* bound on the clock

RunsKind == [completed : BOOLEAN, conclusion : {"failing", "passing", "none", "other"}]

ASSUME GithubAssumption ==
    /\ NamedRepo \subseteq Repo
    /\ CheckRuns \subseteq SUBSET RunsKind
    /\ CacheMax \in Nat \ {0} /\ CacheTtl \in Nat /\ MaxNow \in Nat \ {0}

VARIABLES
    clock,
    passedCi,       \* the Map, in insertion order
    task,           \* what a request is at with each repository
    getPhase,       \* of each request: idle, waiting, answered or rejected
    lastPass        \* when a lookup last said that all checks had passed

ghVars == <<clock, passedCi, task, getPhase, lastPass>>

Key == Repo \X Commit
Moment == 1 .. MaxNow
Entry == [key : Key, at : Moment]
Never == 0
CiStatus == {"success", "failure", "pending", "unknown"}
LookingUp(c) == [at |-> "lookup", commit |-> c]
Shown(c, s) == [at |-> "shown", commit |-> c, status |-> s]
Idling == [at |-> "idle"]
Listing == [at |-> "listing"]
NoPulls == [at |-> "none"]

Task ==
    {Idling, Listing, NoPulls} \cup [at : {"lookup"}, commit : Commit]
        \cup [at : {"shown"}, commit : Commit, status : CiStatus]

GhTypeOK ==
    /\ clock \in Moment
    /\ passedCi \in Seq(Entry)
    /\ task \in [Request \X Repo -> Task]
    /\ getPhase \in [Request -> {"idle", "waiting", "answered", "rejected"}]
    /\ lastPass \in [Key -> Nat]

-----------------------------------------------------------------------------
(* Mutants: definitions named ..._Mutant are faults that the properties      *)
(* below must tell from the code; no other definition uses them.            *)

(* summarizeCheckRuns                                                       *)
Summarize(runs) ==
    LET done(r) == r.completed /\ r.conclusion # "none"
    IN IF runs = {} THEN "unknown"
       ELSE IF \E r \in runs : done(r) /\ r.conclusion = "failing" THEN "failure"
       ELSE IF \E r \in runs : ~done(r) THEN "pending"
       ELSE IF \A r \in runs : r.conclusion = "passing" THEN "success"
       ELSE "unknown"

Cached(key) == \E i \in 1 .. Len(passedCi) : passedCi[i].key = key
Fresh(key) ==
    \E i \in 1 .. Len(passedCi) :
        passedCi[i].key = key /\ clock - passedCi[i].at < CacheTtl

(* Map.delete: those behind the entry move up.                              *)
Deleted(cache, key) ==
    IF ~\E i \in 1 .. Len(cache) : cache[i].key = key THEN cache
    ELSE LET at == CHOOSE i \in 1 .. Len(cache) : cache[i].key = key
         IN [i \in 1 .. Len(cache) - 1 |-> IF i < at THEN cache[i] ELSE cache[i + 1]]

(* Map.set: a key that is there keeps its place.                            *)
MapSet(cache, key) ==
    LET entry == [key |-> key, at |-> clock]
    IN IF \E i \in 1 .. Len(cache) : cache[i].key = key
       THEN [i \in 1 .. Len(cache) |-> IF cache[i].key = key THEN entry ELSE cache[i]]
       ELSE Append(cache, entry)

(* Mutant: the oldest entry stays although the cache is full.               *)
Remember_Mutant(key) == MapSet(passedCi, key)

(* The oldest entry makes room, also when the commit itself is cached.      *)
Remember(key) ==
    MapSet(IF Len(passedCi) >= CacheMax THEN Tail(passedCi) ELSE passedCi, key)

(* Mutant: a hit counts as a new success.                                   *)
CacheHit_Mutant(key) == MapSet(passedCi, key)

CacheHit(key) == passedCi

(* The task's part of fetchPRsForRepo ends; the request's answer waits for  *)
(* all of them.                                                             *)
Settle(r, repo, outcome) ==
    LET settled == [task EXCEPT ![<<r, repo>>] = outcome]
    IN /\ task' = settled
       /\ getPhase' = [getPhase EXCEPT ![r] =
            IF @ = "waiting" /\ \A o \in Repo : settled[<<r, o>>].at \in {"none", "shown"}
            THEN "answered" ELSE @]

InFlight(r, repo) == task[<<r, repo>>].at \in {"listing", "lookup"}

-----------------------------------------------------------------------------
(* GET: an entry that is no repository has no pull requests.                *)
GetPullRequests(r) ==
    /\ getPhase[r] = "idle"
    /\ getPhase' = [getPhase EXCEPT ![r] = "waiting"]
    /\ task' = [t \in Request \X Repo |->
                  IF t[1] # r THEN task[t]
                  ELSE IF t[2] \in NamedRepo THEN Listing ELSE NoPulls]
    /\ UNCHANGED <<clock, passedCi, lastPass>>

(* fetchPRsForRepo, answered with an error status or with no pull request.  *)
ListingIsEmpty(r, repo) ==
    /\ task[<<r, repo>>] = Listing
    /\ Settle(r, repo, NoPulls)
    /\ UNCHANGED <<clock, passedCi, lastPass>>

(* The fetch rejects: network failure or the timeout of 5 s.                *)
ListingFails(r, repo) ==
    /\ task[<<r, repo>>] = Listing
    /\ task' = [task EXCEPT ![<<r, repo>>] = NoPulls]
    /\ getPhase' = [getPhase EXCEPT ![r] = "rejected"]
    /\ UNCHANGED <<clock, passedCi, lastPass>>

(* A pull request whose head is c: fetchCiStatus up to its await.           *)
FetchCiStatus(r, repo, c) ==
    LET key == <<repo, c>>
    IN /\ task[<<r, repo>>] = Listing
       /\ IF Fresh(key)
          THEN /\ passedCi' = CacheHit(key)
               /\ Settle(r, repo, Shown(c, "success"))
          ELSE /\ passedCi' = Deleted(passedCi, key)
               /\ task' = [task EXCEPT ![<<r, repo>>] = LookingUp(c)]
               /\ UNCHANGED getPhase
       /\ UNCHANGED <<clock, lastPass>>

(* fetchCiStatus after its await.                                           *)
CiLookupAnswered(r, repo, runs) ==
    LET t == task[<<r, repo>>]
        key == <<repo, t.commit>>
        passed == Summarize(runs) = "success"
    IN /\ t.at = "lookup"
       /\ passedCi' = IF passed THEN Remember(key) ELSE passedCi
       /\ lastPass' = [lastPass EXCEPT ![key] = IF passed THEN clock ELSE @]
       /\ Settle(r, repo, Shown(t.commit, Summarize(runs)))
       /\ UNCHANGED clock

(* Not ok, a timeout, or a body that is not JSON.                           *)
CiLookupFails(r, repo) ==
    /\ task[<<r, repo>>].at = "lookup"
    /\ Settle(r, repo, Shown(task[<<r, repo>>].commit, "unknown"))
    /\ UNCHANGED <<clock, passedCi, lastPass>>

(* The answer is sent, and the request's place may be taken by another one. *)
GetIsOver(r) ==
    /\ getPhase[r] \in {"answered", "rejected"}
    /\ \A repo \in Repo : ~InFlight(r, repo)
    /\ getPhase' = [getPhase EXCEPT ![r] = "idle"]
    /\ task' = [t \in Request \X Repo |-> IF t[1] = r THEN Idling ELSE task[t]]
    /\ UNCHANGED <<clock, passedCi, lastPass>>

ClockTicks ==
    /\ clock < MaxNow
    /\ clock' = clock + 1
    /\ UNCHANGED <<passedCi, task, getPhase, lastPass>>

GhInit ==
    /\ clock = 1
    /\ passedCi = <<>>
    /\ task = [t \in Request \X Repo |-> Idling]
    /\ getPhase = [r \in Request |-> "idle"]
    /\ lastPass = [k \in Key |-> Never]

GhNext ==
    \/ \E r \in Request : GetPullRequests(r) \/ GetIsOver(r)
    \/ \E r \in Request, repo \in Repo :
         \/ ListingIsEmpty(r, repo) \/ ListingFails(r, repo)
         \/ CiLookupFails(r, repo)
         \/ \E c \in Commit : FetchCiStatus(r, repo, c)
         \/ \E runs \in CheckRuns : CiLookupAnswered(r, repo, runs)
    \/ ClockTicks

GhSpec == GhInit /\ [][GhNext]_ghVars

-----------------------------------------------------------------------------
(* Properties.                                                              *)

(* However the lookups overlap, the cache has one entry for a commit, never *)
(* more than CI_CACHE_MAX, and an entry is as old as the last lookup that   *)
(* saw the commit pass ("the map is bounded, oldest entry first out").      *)
CiCacheIsSound ==
    /\ Len(passedCi) <= CacheMax
    /\ \A i, j \in 1 .. Len(passedCi) : passedCi[i].key = passedCi[j].key => i = j
    /\ \A i \in 1 .. Len(passedCi) : passedCi[i].at = lastPass[passedCi[i].key]

SuccessStep ==
    \A r \in Request, repo \in Repo, c \in Commit :
        /\ task'[<<r, repo>>] = Shown(c, "success")
        /\ task[<<r, repo>>] # task'[<<r, repo>>]
        => LET seen == lastPass'[<<repo, c>>]
           IN seen # Never /\ (seen = clock \/ clock - seen < CacheTtl)

(* A pull request is shown green only if a lookup of its commit saw all     *)
(* checks passed, now or less than the TTL ago: hits do not prolong an      *)
(* entry (a re-run can add a failure to the same commit).                   *)
SuccessIsRecent == [][SuccessStep]_ghVars
=============================================================================
