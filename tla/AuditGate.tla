------------------------------ MODULE AuditGate -----------------------------
(* scripts/audit-gate.mjs: the verdict of the audit workflow on the output  *)
(* of npm audit, with an allowlist of advisories.                           *)
(*                                                                          *)
(* A package of the report is vulnerable via advisories and via other       *)
(* packages; the chain is walked depth first with a guard against cycles,   *)
(* one step of the walk at a time here (the call stack of chainIsExcepted). *)
(* The texts that are printed and the parsing of the files are left out:    *)
(* an allowlist is well formed or not, and a date is its distance from      *)
(* today.                                                                   *)
EXTENDS Integers, Sequences, FiniteSets

CONSTANTS
    Package, Advisory,
    NoId,           \* an advisory without a GHSA url
    Inputs,         \* what the gate may be given
    MaxReviewHorizon

VARIABLES
    input,
    agPhase,        \* read, evaluate, walk or done
    toWalk,         \* packages that evaluateReport has not come to
    root, stack,    \* the walk: its package and the calls of chainIsExcepted
    visited, usedNow,
    findings, used,
    exitCode

agVars == <<input, agPhase, toWalk, root, stack, visited, usedNow, findings, used, exitCode>>
walkVars == <<root, stack, visited, usedNow>>

EXIT_CLEAN == 0
EXIT_FINDINGS == 1
EXIT_OUTAGE == 2
EXIT_UNCLASSIFIED == 3
NoExit == -1

Severity == {"high", "critical", "moderate", "odd"}
PackageVia(p) == [kind |-> "package", name |-> p]
AdvisoryVia(severity, id) == [kind |-> "advisory", severity |-> severity, id |-> id]
JunkVia == [kind |-> "junk"]
Via == {PackageVia(p) : p \in Package} \cup {JunkVia}
         \cup {AdvisoryVia(s, id) : s \in Severity, id \in Advisory \cup {NoId}}

(* list: via is an array. A node that is no record is Junk.                 *)
Junk == [record |-> FALSE]
NodeOf(severity, via) == [record |-> TRUE, severity |-> severity, list |-> TRUE, via |-> via]
IsNode(n) ==
    n = Junk \/ n \in [record : {TRUE}, severity : Severity, list : BOOLEAN, via : Seq(Via)]

(* vulns is defined for the packages of the report.                         *)
IsInput(in) ==
    /\ in.wellFormed \in BOOLEAN /\ in.readable \in BOOLEAN /\ in.marker \in BOOLEAN
    /\ in.entries \in Seq([id : Advisory, due : Int])
    /\ in.status \in Nat /\ in.tally \in Int /\ in.printed \in {"report", "text"}
    /\ DOMAIN in.vulns \subseteq Package
    /\ \A p \in DOMAIN in.vulns : IsNode(in.vulns[p])

ASSUME GateAssumption ==
    /\ \A in \in Inputs : IsInput(in)
    /\ NoId \notin Advisory
    /\ MaxReviewHorizon \in Nat

Frame == [name : Package, at : Nat \ {0}, ok : BOOLEAN]

AgTypeOK ==
    /\ IsInput(input)
    /\ agPhase \in {"read", "evaluate", "walk", "done"}
    /\ toWalk \subseteq Package /\ root \in Package \cup {NoId}
    /\ stack \in Seq(Frame)
    /\ visited \subseteq Package /\ findings \subseteq Package
    /\ usedNow \subseteq Advisory /\ used \subseteq Advisory
    /\ exitCode \in NoExit .. 3

-----------------------------------------------------------------------------
(* Mutants: definitions named ..._Mutant are faults that the properties      *)
(* below must tell from the code; no other definition uses them.            *)

vulns == input.vulns
entries == input.entries
AllowIds == {entries[i].id : i \in 1 .. Len(entries)}

(* parseAllowlist: dates too far ahead and ids given twice are refused.     *)
ParseAllowlist ==
    /\ input.wellFormed
    /\ \A i \in 1 .. Len(entries) : entries[i].due <= MaxReviewHorizon
    /\ \A i, j \in 1 .. Len(entries) : entries[i].id = entries[j].id => i = j

Expired == \E i \in 1 .. Len(entries) : entries[i].due < 0

(* "moderate" stands for info, low and moderate.                            *)
IsGating(severity) == severity \notin {"moderate"}

(* metadataDisagreement: npm's own count of high and critical packages;     *)
(* a negative one stands for a tally that is missing or no count.           *)
Grave == {p \in DOMAIN vulns : vulns[p].record /\ vulns[p].severity \in {"high", "critical"}}
MetadataAgrees == Cardinality(Grave) = input.tally

Resolvable(p) == p \in DOMAIN vulns /\ vulns[p].record /\ vulns[p].list

(* An advisory that no allowlist entry covers, or junk.                     *)
Blocks(v) ==
    \/ v.kind = "junk"
    \/ v.kind = "advisory" /\ IsGating(v.severity) /\ v.id \notin AllowIds

IsExcepted(v) == v.kind = "advisory" /\ IsGating(v.severity) /\ v.id \in AllowIds

(* evaluateReport walks what is grave itself or has a grave advisory.       *)
MustBeWalked(p) ==
    /\ vulns[p].record
    /\ \/ IsGating(vulns[p].severity)
       \/ /\ vulns[p].list
          /\ \E i \in 1 .. Len(vulns[p].via) :
               vulns[p].via[i].kind = "advisory" /\ IsGating(vulns[p].via[i].severity)

Top == stack[Len(stack)]
Callers == SubSeq(stack, 1, Len(stack) - 1)
Advanced(ok) == [name |-> Top.name, at |-> Top.at + 1, ok |-> Top.ok /\ ok]

Exit(code) ==
    /\ agPhase' = "done"
    /\ exitCode' = IF Expired THEN EXIT_FINDINGS ELSE code

-----------------------------------------------------------------------------
(* main: the files are read, and the allowlist is parsed before all else.   *)
ReadInput ==
    /\ agPhase = "read"
    /\ IF ~input.readable \/ ~ParseAllowlist
       THEN agPhase' = "done" /\ exitCode' = EXIT_UNCLASSIFIED /\ UNCHANGED toWalk
       ELSE IF input.status = 124 THEN Exit(EXIT_OUTAGE) /\ UNCHANGED toWalk
       ELSE IF input.printed = "report"
       THEN IF input.status \notin {0, 1} \/ ~MetadataAgrees
            THEN Exit(EXIT_UNCLASSIFIED) /\ UNCHANGED toWalk
            ELSE agPhase' = "evaluate" /\ toWalk' = DOMAIN vulns /\ UNCHANGED exitCode
       ELSE /\ Exit(IF input.status # 0 /\ input.marker THEN EXIT_OUTAGE
                    ELSE EXIT_UNCLASSIFIED)
            /\ UNCHANGED toWalk
    /\ UNCHANGED <<input, walkVars, findings, used>>

(* A package of the report, in whatever order: the walks are independent.   *)
EvaluatePackage(p) ==
    /\ agPhase = "evaluate" /\ p \in toWalk
    /\ toWalk' = toWalk \ {p}
    /\ IF MustBeWalked(p) /\ vulns[p].list
       THEN /\ agPhase' = "walk"
            /\ root' = p /\ visited' = {p} /\ usedNow' = {}
            /\ stack' = <<[name |-> p, at |-> 1, ok |-> TRUE]>>
            /\ UNCHANGED findings
       ELSE /\ findings' = IF ~vulns[p].record \/ MustBeWalked(p) THEN findings \cup {p}
                           ELSE findings
            /\ UNCHANGED <<agPhase, walkVars>>
    /\ UNCHANGED <<input, used, exitCode>>

(* Mutant: a package that was seen already makes the chain a finding.       *)
CycleGuard_Mutant == FALSE

(* "already being walked": nothing new can be found there.                  *)
CycleGuard == TRUE

(* The loop of chainIsExcepted over one package's via.                      *)
WalkVia ==
    /\ agPhase = "walk" /\ Top.at <= Len(vulns[Top.name].via)
    /\ LET v == vulns[Top.name].via[Top.at]
       IN IF v.kind = "package" /\ v.name \notin visited
          THEN /\ visited' = visited \cup {v.name}
               /\ stack' = IF Resolvable(v.name)
                           THEN Callers \o <<Advanced(TRUE), [name |-> v.name, at |-> 1, ok |-> TRUE]>>
                           ELSE Append(Callers, Advanced(FALSE))
               /\ UNCHANGED usedNow
          ELSE /\ stack' = Append(Callers,
                    Advanced(IF v.kind = "package" THEN CycleGuard ELSE ~Blocks(v)))
               /\ usedNow' = IF IsExcepted(v) THEN usedNow \cup {v.id} ELSE usedNow
               /\ UNCHANGED visited
    /\ UNCHANGED <<input, agPhase, toWalk, root, findings, used, exitCode>>

(* A call returns to its caller, or to evaluateReport.                      *)
WalkReturns ==
    /\ agPhase = "walk" /\ Top.at > Len(vulns[Top.name].via)
    /\ IF Len(stack) > 1
       THEN /\ stack' = [Callers EXCEPT ![Len(stack) - 1] =
                           [name |-> @.name, at |-> @.at, ok |-> @.ok /\ Top.ok]]
            /\ UNCHANGED <<agPhase, findings, used>>
       ELSE /\ stack' = <<>> /\ agPhase' = "evaluate"
            /\ IF Top.ok /\ usedNow # {}
               THEN used' = used \cup usedNow /\ UNCHANGED findings
               ELSE findings' = findings \cup {root} /\ UNCHANGED used
    /\ UNCHANGED <<input, toWalk, root, visited, usedNow, exitCode>>

(* classifyAudit, once every package was evaluated.                         *)
Verdict ==
    /\ agPhase = "evaluate" /\ toWalk = {}
    /\ Exit(IF findings # {} THEN EXIT_FINDINGS
            ELSE IF used = {} /\ input.status # 0 THEN EXIT_UNCLASSIFIED
            ELSE EXIT_CLEAN)
    /\ UNCHANGED <<input, toWalk, walkVars, findings, used>>

AgInit ==
    /\ input \in Inputs
    /\ agPhase = "read" /\ toWalk = {}
    /\ root = NoId /\ stack = <<>> /\ visited = {} /\ usedNow = {}
    /\ findings = {} /\ used = {} /\ exitCode = NoExit

AgNext ==
    \/ ReadInput
    \/ \E p \in Package : EvaluatePackage(p)
    \/ WalkVia
    \/ WalkReturns
    \/ Verdict

AgSpec == AgInit /\ [][AgNext]_agVars

-----------------------------------------------------------------------------
(* The reference: what a chain is, without walking it.                      *)

Elements(p) == {vulns[p].via[i] : i \in 1 .. Len(vulns[p].via)}
NamesOf(p) == IF Resolvable(p) THEN {q \in Package : PackageVia(q) \in Elements(p)} ELSE {}
Chain(p) == {q \in Package :
               \A S \in SUBSET Package : p \in S /\ (\A r \in S : NamesOf(r) \subseteq S) => q \in S}

(* All of it is covered by the allowlist, and there is something to cover.  *)
ChainIsExcepted(p) ==
    /\ \A q \in Chain(p) : Resolvable(q) /\ \A v \in Elements(q) : ~Blocks(v)
    /\ \E q \in Chain(p) : \E v \in Elements(q) : IsExcepted(v)

(* Properties.                                                              *)

(* The gate passes only if the allowlist is in order and everything grave   *)
(* that can be reached from any package of a report that can be trusted is  *)
(* on it; and a package the gate reports is one whose chain is not covered, *)
(* however the chains share packages and run in cycles.                     *)
VerdictIsJustified ==
    /\ exitCode = EXIT_CLEAN =>
         /\ input.readable /\ ParseAllowlist /\ ~Expired
         /\ input.printed = "report" /\ input.status \in {0, 1} /\ MetadataAgrees
         /\ \A p \in DOMAIN vulns :
              vulns[p].record /\ (MustBeWalked(p) => ChainIsExcepted(p))
    /\ \A p \in findings : vulns[p].record => MustBeWalked(p) /\ ~ChainIsExcepted(p)
=============================================================================
