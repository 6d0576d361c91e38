-------------------------- MODULE AuditGate_proofs --------------------------
(* Theorems about AuditGate, for any packages, advisories, reports and      *)
(* allowlists: the walk of a chain reaches exactly the chain, however its   *)
(* packages are shared and run in cycles, and the verdict rests on it.      *)
EXTENDS AuditGate, SequenceTheorems, TLAPS

-----------------------------------------------------------------------------
(* The inductive invariant.                                                 *)

(* What is scanned of a visited package: all of it, or, while its call is   *)
(* on the stack, what comes before the call's position.                     *)
Indices(q) == IF Resolvable(q) THEN 1 .. Len(vulns[q].via) ELSE {}
Scanned(q, j) == \A i \in 1 .. Len(stack) : stack[i].name = q => j < stack[i].at

(* No call on the stack has found anything yet that blocks.                 *)
Passed == \A i \in 1 .. Len(stack) : stack[i].ok

NothingBlocks ==
    \A q \in visited :
        /\ Resolvable(q)
        /\ \A j \in Indices(q) : Scanned(q, j) => ~Blocks(vulns[q].via[j])

SomethingExcepted ==
    \E q \in visited : \E j \in Indices(q) : Scanned(q, j) /\ IsExcepted(vulns[q].via[j])

StackOK ==
    /\ stack # <<>>
    /\ \A i \in 1 .. Len(stack) : stack[i].name \in visited /\ Resolvable(stack[i].name)
    /\ \A i, j \in 1 .. Len(stack) : stack[i].name = stack[j].name => i = j

(* Whatever a scanned element names was visited.                            *)
Followed ==
    \A q \in visited : \A j \in Indices(q) : \A name \in Package :
        Scanned(q, j) /\ vulns[q].via[j] = PackageVia(name) => name \in visited

WalkOf(r) ==
    /\ r \in DOMAIN vulns /\ r \in visited /\ MustBeWalked(r)
    /\ visited \subseteq Chain(r)
    /\ StackOK /\ Followed
    /\ Passed <=> NothingBlocks
    /\ usedNow # {} <=> SomethingExcepted

IsSettled(p) ==
    \/ p \in findings
    \/ vulns[p].record /\ (MustBeWalked(p) => ChainIsExcepted(p))

ReportIsTrusted ==
    /\ input.readable /\ ParseAllowlist
    /\ input.printed = "report" /\ input.status \in {0, 1} /\ MetadataAgrees

FindingsAreJustified ==
    \A p \in findings : vulns[p].record => MustBeWalked(p) /\ ~ChainIsExcepted(p)

CleanIsJustified ==
    exitCode = EXIT_CLEAN =>
        /\ ReportIsTrusted /\ ~Expired
        /\ \A p \in DOMAIN vulns :
             vulns[p].record /\ (MustBeWalked(p) => ChainIsExcepted(p))

AgInv ==
    /\ AgTypeOK
    /\ agPhase # "done" => exitCode = NoExit
    /\ agPhase \in {"evaluate", "walk"} => ReportIsTrusted
    /\ agPhase \in {"evaluate", "walk"} =>
         \A p \in DOMAIN vulns :
            p \in toWalk \/ (agPhase = "walk" /\ p = root) \/ IsSettled(p)
    /\ agPhase = "walk" => root \in Package
    /\ \A r \in Package : agPhase = "walk" /\ r = root => WalkOf(r)
    /\ toWalk \subseteq DOMAIN vulns
    /\ FindingsAreJustified
    /\ CleanIsJustified

-----------------------------------------------------------------------------
(* The report and what is derived from it never change.                     *)

LEMMA InputStays ==
    ASSUME input' = input
    PROVE  /\ vulns' = vulns /\ (IsInput(input)' <=> IsInput(input))
           /\ \A q : Resolvable(q)' <=> Resolvable(q)
           /\ \A q : Indices(q)' = Indices(q)
           /\ \A v : (Blocks(v)' <=> Blocks(v)) /\ (IsExcepted(v)' <=> IsExcepted(v))
           /\ \A p : MustBeWalked(p)' <=> MustBeWalked(p)
           /\ \A p : Chain(p)' = Chain(p)
           /\ \A p : ChainIsExcepted(p)' <=> ChainIsExcepted(p)
           /\ (ReportIsTrusted' <=> ReportIsTrusted) /\ (Expired' <=> Expired)
<1>1. vulns' = vulns /\ entries' = entries
  BY DEF vulns, entries
<1>2. \A q : Resolvable(q)' <=> Resolvable(q)
  BY <1>1 DEF Resolvable
<1>3. \A q : Indices(q)' = Indices(q)
  BY <1>1, <1>2 DEF Indices
<1>4. \A v : (Blocks(v)' <=> Blocks(v)) /\ (IsExcepted(v)' <=> IsExcepted(v))
  BY <1>1 DEF Blocks, IsExcepted, AllowIds
<1>5. \A p : MustBeWalked(p)' <=> MustBeWalked(p)
  BY <1>1 DEF MustBeWalked
<1>6. \A q : Elements(q)' = Elements(q)
  BY <1>1 DEF Elements
<1>7. \A q : NamesOf(q)' = NamesOf(q)
  BY <1>2, <1>6 DEF NamesOf
<1>8. \A p : Chain(p)' = Chain(p)
  BY <1>7 DEF Chain
<1>9. \A p : ChainIsExcepted(p)' <=> ChainIsExcepted(p)
  BY <1>2, <1>4, <1>6, <1>8 DEF ChainIsExcepted
<1>10. (ReportIsTrusted' <=> ReportIsTrusted) /\ (Expired' <=> Expired)
  BY <1>1 DEF ReportIsTrusted, ParseAllowlist, MetadataAgrees, Grave, Expired
<1>11. IsInput(input)' <=> IsInput(input)
  OBVIOUS
<1> QED  BY <1>1, <1>2, <1>3, <1>4, <1>5, <1>8, <1>9, <1>10, <1>11

-----------------------------------------------------------------------------
(* What the elements of a chain are.                                        *)

LEMMA ViaOfResolvable ==
    ASSUME IsInput(input), NEW q, Resolvable(q)
    PROVE  q \in Package /\ vulns[q].via \in Seq(Via)
<1>1. q \in DOMAIN vulns /\ vulns[q].record /\ DOMAIN vulns \subseteq Package
  BY DEF Resolvable, IsInput, vulns
<1>2. IsNode(vulns[q])
  BY <1>1 DEF IsInput, vulns
<1>3. vulns[q] # Junk
  BY <1>1 DEF Junk
<1> QED  BY <1>1, <1>2, <1>3 DEF IsNode

LEMMA ElementKinds ==
    ASSUME IsInput(input), NEW v \in Via
    PROVE  /\ v.kind = "package" => /\ v.name \in Package /\ v = PackageVia(v.name)
                                    /\ ~Blocks(v) /\ ~IsExcepted(v)
           /\ v.kind # "package" => \A q \in Package : v # PackageVia(q)
           /\ IsExcepted(v) => v.id \in Advisory /\ ~Blocks(v)
           /\ \A q \in Package : v = PackageVia(q) => v.kind = "package" /\ v.name = q
<1>1. AllowIds \subseteq Advisory
  <2>1. entries \in Seq([id : Advisory, due : Int])
    BY DEF IsInput, entries
  <2>2. \A i \in 1 .. Len(entries) : entries[i] \in [id : Advisory, due : Int]
    BY <2>1, ElementOfSeq, Zenon
  <2>3. \A i \in 1 .. Len(entries) : entries[i].id \in Advisory
    BY <2>2
  <2> QED  BY <2>3 DEF AllowIds
<1>2. CASE v.kind = "package"
  <2>1. PICK q \in Package : v = PackageVia(q)
    BY <1>2 DEF Via, PackageVia, AdvisoryVia, JunkVia
  <2> QED  BY <1>2, <2>1 DEF PackageVia, Blocks, IsExcepted
<1>3. CASE v.kind # "package"
  <2>1. \A q \in Package : PackageVia(q).kind = "package"
    BY DEF PackageVia
  <2>2. IsExcepted(v) => v.id \in Advisory /\ ~Blocks(v)
    BY <1>1, SMT DEF IsExcepted, Blocks
  <2> QED  BY <1>3, <2>1, <2>2
<1> QED  BY <1>2, <1>3

-----------------------------------------------------------------------------
(* A chain is the least set that its package is in and that is closed.      *)

LEMMA ChainIsClosed ==
    ASSUME NEW p \in Package
    PROVE  /\ p \in Chain(p)
           /\ \A q \in Chain(p) : NamesOf(q) \subseteq Chain(p)
<1>1. p \in Chain(p)
  BY DEF Chain
<1>2. ASSUME NEW q \in Chain(p), NEW r \in NamesOf(q)
      PROVE  r \in Chain(p)
  <2>1. r \in Package
    BY <1>2 DEF NamesOf
  <2>2. ASSUME NEW S \in SUBSET Package, p \in S, \A t \in S : NamesOf(t) \subseteq S
        PROVE  r \in S
    <3>1. q \in S
      BY <2>2 DEF Chain
    <3> QED  BY <1>2, <2>2, <3>1
  <2> QED  BY <2>1, <2>2 DEF Chain
<1> QED  BY <1>1, <1>2

LEMMA ChainIsLeast ==
    ASSUME NEW p \in Package, NEW S \in SUBSET Package, p \in S,
           \A q \in S : NamesOf(q) \subseteq S
    PROVE  Chain(p) \subseteq S
BY DEF Chain

LEMMA NamedInVia ==
    ASSUME NEW q, Resolvable(q), NEW name \in Package
    PROVE  name \in NamesOf(q) <=> \E j \in Indices(q) : vulns[q].via[j] = PackageVia(name)
BY DEF NamesOf, Elements, Indices

-----------------------------------------------------------------------------
(* A finished walk has found out what the reference says of the chain.      *)

LEMMA FinishedWalk ==
    ASSUME AgInv, NEW r \in Package, agPhase = "walk", root = r,
           Len(stack) = 1, Top.at > Len(vulns[Top.name].via)
    PROVE  MustBeWalked(r) /\ (ChainIsExcepted(r) <=> Top.ok /\ usedNow # {})
<1>1. WalkOf(r) /\ IsInput(input) /\ visited \subseteq Package
  BY DEF AgInv, AgTypeOK
<1>2. \A q \in visited : \A j \in Indices(q) : Scanned(q, j)
  <2>1. stack \in Seq(Frame) /\ stack[1] = Top /\ Top \in Frame
    <3>1. stack \in Seq(Frame)
      BY DEF AgInv, AgTypeOK
    <3>2. Top = stack[1]
      BY DEF Top
    <3>3. 1 \in 1 .. Len(stack)
      OBVIOUS
    <3>4. stack[1] \in Frame
      BY <3>1, <3>3, ElementOfSeq
    <3> QED  BY <3>1, <3>2, <3>4
  <2>2. Resolvable(Top.name)
    BY <1>1 DEF WalkOf, StackOK, Top
  <2>3. vulns[Top.name].via \in Seq(Via)
    BY <1>1, <2>2, ViaOfResolvable
  <2>4. ASSUME NEW q \in visited, NEW j \in Indices(q), NEW i \in 1 .. Len(stack),
               stack[i].name = q
        PROVE  j < stack[i].at
    <3>1. i = 1 /\ stack[i] = Top /\ q = Top.name
      BY <2>1, <2>4
    <3>2. j \in 1 .. Len(vulns[Top.name].via)
      BY <2>2, <2>4, <3>1 DEF Indices
    <3> QED  BY <2>1, <2>3, <3>1, <3>2 DEF Frame
  <2> QED  BY <2>4 DEF Scanned
<1>3. Passed <=> Top.ok
  BY DEF AgInv, AgTypeOK, Passed, Top
<1>4. CASE ~Top.ok
  <2>1. PICK q \in visited : ~Resolvable(q) \/ \E j \in Indices(q) : Blocks(vulns[q].via[j])
    BY <1>1, <1>3, <1>4 DEF WalkOf, NothingBlocks
  <2>2. Resolvable(q) => \E v \in Elements(q) : Blocks(v)
    BY <2>1 DEF Indices, Elements
  <2> QED  BY <1>1, <1>4, <2>1, <2>2 DEF WalkOf, ChainIsExcepted
<1>5. CASE Top.ok
  <2>1. \A q \in visited : Resolvable(q) /\ \A j \in Indices(q) : ~Blocks(vulns[q].via[j])
    BY <1>1, <1>2, <1>3, <1>5 DEF WalkOf, NothingBlocks
  <2>2. ASSUME NEW q \in visited
        PROVE  NamesOf(q) \subseteq visited
    <3> SUFFICES ASSUME NEW name \in NamesOf(q)
                 PROVE  name \in visited
      OBVIOUS
    <3>1. name \in Package
      BY DEF NamesOf
    <3>2. PICK j \in Indices(q) : vulns[q].via[j] = PackageVia(name)
      BY <2>1, <3>1, NamedInVia
    <3> QED  BY <1>1, <1>2, <3>1, <3>2 DEF WalkOf, Followed
  <2>3. Chain(r) = visited
    BY <1>1, <2>2, ChainIsLeast DEF WalkOf
  <2>4. usedNow # {} <=> \E q \in visited : \E j \in Indices(q) : IsExcepted(vulns[q].via[j])
    BY <1>1, <1>2 DEF WalkOf, SomethingExcepted
  <2>5. ASSUME NEW q \in visited
        PROVE  Elements(q) = {vulns[q].via[j] : j \in Indices(q)}
    BY <2>1 DEF Elements, Indices
  <2> QED  BY <1>1, <1>5, <2>1, <2>3, <2>4, <2>5 DEF WalkOf, ChainIsExcepted
<1> QED  BY <1>1, <1>4, <1>5 DEF WalkOf

-----------------------------------------------------------------------------
(* The steps outside the walk.                                              *)

LEMMA AgInitHolds ==
    AgInit => AgInv
<1> SUFFICES ASSUME AgInit PROVE AgInv
  OBVIOUS
<1>1. AgTypeOK
  <2>1. IsInput(input)
    BY GateAssumption DEF AgInit
  <2>2. stack \in Seq(Frame)
    BY DEF AgInit
  <2> QED  BY <2>1, <2>2 DEF AgInit, AgTypeOK, NoExit
<1> QED  BY <1>1 DEF AgInit, AgInv, NoExit, EXIT_CLEAN, FindingsAreJustified, CleanIsJustified

LEMMA ReadStep ==
    AgInv /\ ReadInput => AgInv'
<1> SUFFICES ASSUME AgInv, ReadInput PROVE AgInv'
  OBVIOUS
<1>1. /\ agPhase = "read" /\ input' = input
      /\ UNCHANGED <<root, stack, visited, usedNow, findings, used>>
  BY DEF ReadInput, walkVars
<1>2. /\ agPhase' \in {"evaluate", "done"} /\ exitCode' \in NoExit .. 3
      /\ exitCode' # EXIT_CLEAN
      /\ agPhase' # "done" => exitCode' = NoExit
      /\ toWalk' \in {toWalk, DOMAIN vulns}
  BY <1>1 DEF ReadInput, Exit, AgInv, AgTypeOK, NoExit, EXIT_CLEAN, EXIT_FINDINGS, EXIT_OUTAGE,
              EXIT_UNCLASSIFIED
<1>3. agPhase' = "evaluate" => ReportIsTrusted /\ toWalk' = DOMAIN vulns
  BY <1>1 DEF ReadInput, Exit, ReportIsTrusted
<1>4. DOMAIN vulns \subseteq Package
  BY DEF AgInv, AgTypeOK, IsInput, vulns
<1>5. AgTypeOK'
  BY <1>1, <1>2, <1>4, InputStays DEF AgInv, AgTypeOK
<1>6. FindingsAreJustified'
  BY <1>1, InputStays DEF AgInv, FindingsAreJustified
<1>7. CleanIsJustified'
  BY <1>2 DEF CleanIsJustified, EXIT_CLEAN
<1> QED  BY <1>1, <1>2, <1>3, <1>5, <1>6, <1>7, InputStays DEF AgInv

LEMMA EvaluateStep ==
    ASSUME NEW p \in Package, AgInv, EvaluatePackage(p)
    PROVE  AgInv'
<1>1. /\ agPhase = "evaluate" /\ p \in toWalk /\ toWalk' = toWalk \ {p}
      /\ input' = input /\ used' = used /\ exitCode' = exitCode /\ exitCode = NoExit
  BY DEF EvaluatePackage, AgInv
<1>2. /\ AgTypeOK /\ ReportIsTrusted /\ IsInput(input)
      /\ \A q \in DOMAIN vulns : q \in toWalk \/ IsSettled(q)
      /\ toWalk \subseteq DOMAIN vulns /\ FindingsAreJustified
  BY <1>1 DEF AgInv, AgTypeOK
<1>3. CleanIsJustified'
  BY <1>1 DEF CleanIsJustified, NoExit, EXIT_CLEAN
<1>4. CASE MustBeWalked(p) /\ vulns[p].list
  <2>1. /\ agPhase' = "walk" /\ root' = p /\ visited' = {p} /\ usedNow' = {}
        /\ stack' = <<[name |-> p, at |-> 1, ok |-> TRUE]>> /\ findings' = findings
    BY <1>4 DEF EvaluatePackage
  <2>2. stack' \in Seq(Frame) /\ Len(stack') = 1 /\ stack'[1] = [name |-> p, at |-> 1, ok |-> TRUE]
    BY <2>1 DEF Frame
  <2>3. AgTypeOK'
    BY <1>1, <1>2, <2>1, <2>2, InputStays DEF AgTypeOK
  <2>4. Resolvable(p)
    BY <1>1, <1>2, <1>4 DEF Resolvable, MustBeWalked
  <2>5. stack' # <<>> /\ \A i \in 1 .. Len(stack') :
           i = 1 /\ stack'[i].name = p /\ stack'[i].at = 1 /\ stack'[i].ok
    <3>1. stack' # <<>> /\ \A i \in 1 .. Len(stack') : i = 1
      <4>1. stack' # <<>>
        BY <2>1
      <4>2. \A i \in 1 .. Len(stack') : i = 1
        BY <2>2
      <4> QED  BY <4>1, <4>2
    <3>2. stack'[1].name = p /\ stack'[1].at = 1 /\ stack'[1].ok
      BY <2>2
    <3> QED  BY <3>1, <3>2
  <2>6. \A j \in Indices(p) : ~(j < 1)
    BY <2>4, ViaOfResolvable, <1>2 DEF Indices
  <2>7. \A j \in Indices(p) : ~Scanned(p, j)'
    <3>1. 1 \in 1 .. Len(stack')
      BY <2>2
    <3>2. stack'[1].name = p /\ stack'[1].at = 1
      BY <2>5, <3>1
    <3> QED  BY <2>6, <3>1, <3>2 DEF Scanned
  <2>8. /\ StackOK' /\ Followed'
        /\ Passed' /\ NothingBlocks' /\ ~SomethingExcepted'
    <3>1. Passed'
      BY <2>5 DEF Passed
    <3>2. StackOK'
      BY <1>1, <2>1, <2>4, <2>5, InputStays DEF StackOK
    <3>3. Followed'
      BY <1>1, <2>1, <2>7, InputStays DEF Followed
    <3>4. NothingBlocks'
      BY <1>1, <2>1, <2>4, <2>7, InputStays DEF NothingBlocks
    <3>5. ~SomethingExcepted'
      BY <1>1, <2>1, <2>7, InputStays DEF SomethingExcepted
    <3> QED  BY <3>1, <3>2, <3>3, <3>4, <3>5
  <2>9. WalkOf(p)'
    <3>1. p \in DOMAIN vulns /\ p \in Chain(p)
      BY <1>1, <1>2, ChainIsClosed
    <3> QED  BY <1>1, <1>4, <2>1, <2>8, <3>1, InputStays DEF WalkOf
  <2>10. FindingsAreJustified'
    BY <1>1, <1>2, <2>1, InputStays DEF FindingsAreJustified
  <2>11. \A q \in DOMAIN vulns : q \in toWalk' \/ q = p \/ IsSettled(q)'
    BY <1>1, <1>2, <2>1, InputStays DEF IsSettled
  <2> QED  BY <1>1, <1>2, <1>3, <2>1, <2>3, <2>9, <2>10, <2>11, InputStays DEF AgInv
<1>5. CASE ~(MustBeWalked(p) /\ vulns[p].list)
  <2>1. /\ agPhase' = "evaluate" /\ UNCHANGED <<root, stack, visited, usedNow>>
        /\ findings' = IF ~vulns[p].record \/ MustBeWalked(p) THEN findings \cup {p} ELSE findings
    BY <1>1, <1>5 DEF EvaluatePackage, walkVars
  <2>2. AgTypeOK'
    BY <1>1, <1>2, <2>1, InputStays DEF AgTypeOK
  <2>3. MustBeWalked(p) => ~ChainIsExcepted(p)
    BY <1>5, ChainIsClosed DEF ChainIsExcepted, Resolvable
  <2>4. FindingsAreJustified'
    BY <1>1, <1>2, <2>1, <2>3, InputStays DEF FindingsAreJustified
  <2>5. \A q \in DOMAIN vulns : q \in toWalk' \/ IsSettled(q)'
    <3>1. \A q \in DOMAIN vulns : q # p => q \in toWalk' \/ IsSettled(q)'
      BY <1>1, <1>2, <2>1, InputStays DEF IsSettled
    <3>2. IsSettled(p)'
      <4>1. CASE ~vulns[p].record \/ MustBeWalked(p)
        BY <2>1, <4>1 DEF IsSettled
      <4>2. CASE vulns[p].record /\ ~MustBeWalked(p)
        BY <1>1, <4>2, InputStays DEF IsSettled
      <4> QED  BY <4>1, <4>2
    <3> QED  BY <3>1, <3>2
  <2> QED  BY <1>1, <1>2, <1>3, <2>1, <2>2, <2>4, <2>5, InputStays DEF AgInv
<1> QED  BY <1>4, <1>5

LEMMA VerdictStep ==
    AgInv /\ Verdict => AgInv'
<1> SUFFICES ASSUME AgInv, Verdict PROVE AgInv'
  OBVIOUS
<1>1. /\ agPhase = "evaluate" /\ toWalk = {} /\ agPhase' = "done"
      /\ UNCHANGED <<input, toWalk, root, stack, visited, usedNow, findings, used>>
      /\ exitCode' \in NoExit .. 3
      /\ exitCode' = EXIT_CLEAN => findings = {} /\ ~Expired
  BY DEF Verdict, Exit, walkVars, NoExit, EXIT_CLEAN, EXIT_FINDINGS, EXIT_UNCLASSIFIED
<1>2. AgTypeOK'
  BY <1>1, InputStays DEF AgInv, AgTypeOK
<1>3. FindingsAreJustified'
  BY <1>1, InputStays DEF AgInv, FindingsAreJustified
<1>4. CleanIsJustified'
  BY <1>1, InputStays DEF AgInv, CleanIsJustified, IsSettled
<1> QED  BY <1>1, <1>2, <1>3, <1>4, InputStays DEF AgInv

-----------------------------------------------------------------------------
(* The steps of the walk.                                                   *)

(* The stack when the call on top moves on, calls, or returns.              *)
LEMMA TopAndCallers ==
    ASSUME stack \in Seq(Frame), stack # <<>>
    PROVE  /\ Len(stack) \in Nat \ {0} /\ Top \in Frame /\ Top = stack[Len(stack)]
           /\ Callers \in Seq(Frame) /\ Len(Callers) = Len(stack) - 1
           /\ \A i \in 1 .. Len(stack) - 1 : Callers[i] = stack[i]
<1> DEFINE n == Len(stack)
<1>1. n \in Nat \ {0} /\ Top = stack[n]
  BY DEF Top
<1>2. Top \in Frame
  <2>1. n \in 1 .. Len(stack)
    BY <1>1
  <2> QED  BY <1>1, <2>1, ElementOfSeq
<1> HIDE DEF n
<1>3. /\ Callers \in Seq(Frame) /\ Len(Callers) = n - 1
      /\ \A i \in 1 .. n - 1 : Callers[i] = stack[i]
  <2>1. \A i \in 1 .. n - 1 : stack[i] \in Frame
    BY <1>1, ElementOfSeq DEF n
  <2>2. n - 1 \in Int /\ n - 1 - 1 + 1 = n - 1
    BY <1>1
  <2>3. /\ Callers \in Seq(Frame)
        /\ Len(Callers) = IF 1 <= n - 1 THEN n - 1 - 1 + 1 ELSE 0
        /\ \A i \in 1 .. n - 1 - 1 + 1 : Callers[i] = stack[1 + i - 1]
    BY <2>1, <2>2, SubSeqProperties DEF Callers, n
  <2>4. Len(Callers) = n - 1
    <3>1. (IF 1 <= n - 1 THEN n - 1 - 1 + 1 ELSE 0) = n - 1
      BY <1>1
    <3>2. Len(Callers) = IF 1 <= n - 1 THEN n - 1 - 1 + 1 ELSE 0
      BY <2>3
    <3> QED  BY <3>1, <3>2
  <2>5. ASSUME NEW i \in 1 .. n - 1
        PROVE  Callers[i] = stack[i]
    <3>1. 1 + i - 1 = i /\ i \in 1 .. n - 1 - 1 + 1
      BY <1>1
    <3> QED  BY <2>3, <3>1
  <2> QED  BY <2>3, <2>4, <2>5
<1> QED  BY <1>1, <1>2, <1>3 DEF n

(* The top frame is replaced by f; and g is put above it.                   *)
TopReplaced(f) == Append(Callers, f)
TopCalls(f, g) == Callers \o <<f, g>>

LEMMA StackAdvances ==
    ASSUME stack \in Seq(Frame), stack # <<>>, NEW f \in Frame
    PROVE  /\ TopReplaced(f) \in Seq(Frame) /\ Len(TopReplaced(f)) = Len(stack)
           /\ \A i \in 1 .. Len(stack) :
                TopReplaced(f)[i] = IF i = Len(stack) THEN f ELSE stack[i]
BY TopAndCallers DEF TopReplaced

LEMMA StackGrows ==
    ASSUME stack \in Seq(Frame), stack # <<>>, NEW f \in Frame, NEW g \in Frame
    PROVE  /\ TopCalls(f, g) \in Seq(Frame) /\ Len(TopCalls(f, g)) = Len(stack) + 1
           /\ TopCalls(f, g)[Len(stack) + 1] = g
           /\ \A i \in 1 .. Len(stack) :
                TopCalls(f, g)[i] = IF i = Len(stack) THEN f ELSE stack[i]
<1> DEFINE n == Len(stack)
<1>0. /\ n \in Nat \ {0} /\ Callers \in Seq(Frame) /\ Len(Callers) = n - 1
        /\ \A i \in 1 .. n - 1 : Callers[i] = stack[i]
  BY TopAndCallers
<1> HIDE DEF n
<1> DEFINE pair == <<f, g>>
<1>1. pair \in Seq(Frame) /\ Len(pair) = 2 /\ pair[1] = f /\ pair[2] = g
  OBVIOUS
<1> HIDE DEF pair
<1>2. /\ Callers \o pair \in Seq(Frame)
      /\ Len(Callers \o pair) = Len(Callers) + Len(pair)
      /\ \A i \in 1 .. Len(Callers) + Len(pair) : (Callers \o pair)[i] =
            IF i <= Len(Callers) THEN Callers[i] ELSE pair[i - Len(Callers)]
  BY <1>0, <1>1, ConcatProperties, Zenon
<1>3. ASSUME NEW i \in 1 .. n
      PROVE  (Callers \o pair)[i] = IF i = n THEN f ELSE stack[i]
  <2>1. CASE i = n
    <3>1. i \in 1 .. Len(Callers) + Len(pair) /\ ~(i <= Len(Callers)) /\ i - Len(Callers) = 1
      BY <1>0, <1>1, <2>1
    <3> QED  BY <1>1, <1>2, <2>1, <3>1
  <2>2. CASE i # n
    <3>1. i \in 1 .. Len(Callers) + Len(pair) /\ i <= Len(Callers) /\ i \in 1 .. n - 1
      BY <1>0, <1>1, <2>2
    <3> QED  BY <1>0, <1>2, <2>2, <3>1
  <2> QED  BY <2>1, <2>2
<1>4. ASSUME NEW i, i = n + 1
      PROVE  (Callers \o pair)[i] = g
  <2>1. /\ i \in 1 .. Len(Callers) + Len(pair) /\ ~(i <= Len(Callers))
        /\ i - Len(Callers) = 2
    BY <1>0, <1>1, <1>4
  <2> QED  BY <1>1, <1>2, <2>1
<1>5. Len(Callers) + Len(pair) = n + 1
  BY <1>0, <1>1
<1> QED  BY <1>2, <1>3, <1>4, <1>5 DEF n, pair, TopCalls

(* One more element is scanned, and a package it names is visited.          *)
LEMMA ScanStep ==
    ASSUME NEW r \in Package, WalkOf(r), IsInput(input), input' = input, visited \subseteq Package,
           NEW t \in visited, Resolvable(t), NEW k \in Indices(t),
           visited \subseteq visited', visited' \subseteq Package,
           \A q \in visited : \A j \in Indices(q) :
              Scanned(q, j)' <=> Scanned(q, j) \/ (q = t /\ j = k),
           \A q \in visited' \ visited :
              vulns[t].via[k] = PackageVia(q) /\ \A j \in Indices(q) : ~Scanned(q, j)',
           \A q \in Package : vulns[t].via[k] = PackageVia(q) => q \in visited',
           Passed' <=> /\ Passed /\ ~Blocks(vulns[t].via[k])
                       /\ \A q \in visited' \ visited : Resolvable(q),
           usedNow' # {} <=> usedNow # {} \/ IsExcepted(vulns[t].via[k]),
           StackOK'
    PROVE  WalkOf(r)'
<1>1. /\ r \in DOMAIN vulns /\ r \in visited /\ MustBeWalked(r)
      /\ visited \subseteq Chain(r) /\ Followed
      /\ Passed <=> NothingBlocks
      /\ usedNow # {} <=> SomethingExcepted
  BY DEF WalkOf
<1>2. visited' \subseteq Chain(r)
  <2> SUFFICES ASSUME NEW q \in visited' \ visited
               PROVE  q \in Chain(r)
    BY <1>1
  <2>1. q \in Package /\ q \in NamesOf(t)
    BY NamedInVia
  <2> QED  BY <1>1, <2>1, ChainIsClosed
<1>3. Followed'
  <2> SUFFICES ASSUME NEW q \in visited', NEW j \in Indices(q), NEW name \in Package,
                      Scanned(q, j)', vulns[q].via[j] = PackageVia(name)
               PROVE  name \in visited'
    BY InputStays DEF Followed
  <2>1. q \in visited /\ (Scanned(q, j) \/ (q = t /\ j = k))
    OBVIOUS
  <2> QED  BY <1>1, <2>1 DEF Followed
<1>4. Passed' <=> NothingBlocks'
  <2>1. NothingBlocks' <=>
          \A q \in visited' :
             /\ Resolvable(q)
             /\ \A j \in Indices(q) : Scanned(q, j)' => ~Blocks(vulns[q].via[j])
    BY InputStays DEF NothingBlocks
  <2>2. NothingBlocks' <=>
          /\ NothingBlocks /\ ~Blocks(vulns[t].via[k])
          /\ \A q \in visited' \ visited : Resolvable(q)
    BY <2>1 DEF NothingBlocks
  <2> QED  BY <1>1, <2>2
<1>5. usedNow' # {} <=> SomethingExcepted'
  <2>1. SomethingExcepted' <=>
          \E q \in visited' : \E j \in Indices(q) :
             Scanned(q, j)' /\ IsExcepted(vulns[q].via[j])
    BY InputStays DEF SomethingExcepted
  <2>2. SomethingExcepted' <=> SomethingExcepted \/ IsExcepted(vulns[t].via[k])
    BY <2>1 DEF SomethingExcepted
  <2> QED  BY <1>1, <2>2
<1> QED  BY <1>1, <1>2, <1>3, <1>4, <1>5, InputStays DEF WalkOf

(* The stack stays in order when the element at its top is scanned.         *)
LEMMA StackStaysOK ==
    ASSUME stack \in Seq(Frame), StackOK, input' = input, NEW f \in Frame,
           f.name = Top.name, visited \subseteq visited',
           \/ stack' = TopReplaced(f)
           \/ \E g \in Frame : /\ stack' = TopCalls(f, g)
                               /\ g.name \in visited' \ visited /\ Resolvable(g.name)
    PROVE  StackOK'
<1>1. /\ stack # <<>> /\ Top = stack[Len(stack)] /\ Len(stack) \in Nat \ {0}
      /\ \A i \in 1 .. Len(stack) : stack[i].name \in visited /\ Resolvable(stack[i].name)
      /\ \A i, j \in 1 .. Len(stack) : stack[i].name = stack[j].name => i = j
  BY TopAndCallers DEF StackOK
<1>2. Len(stack) \in 1 .. Len(stack)
  BY <1>1
<1>3. CASE stack' = TopReplaced(f)
  <2>1. /\ Len(stack') = Len(stack) /\ stack' # <<>>
        /\ \A i \in 1 .. Len(stack) : stack'[i].name = stack[i].name
    <3>1. /\ Len(stack') = Len(stack)
          /\ \A i \in 1 .. Len(stack) : stack'[i] = IF i = Len(stack) THEN f ELSE stack[i]
      BY <1>1, <1>3, StackAdvances
    <3>2. stack' # <<>>
      BY <1>1, <3>1
    <3> QED  BY <1>1, <3>1, <3>2
  <2> QED  BY <1>1, <2>1, InputStays DEF StackOK
<1>4. ASSUME NEW g \in Frame, stack' = TopCalls(f, g),
             g.name \in visited' \ visited, Resolvable(g.name)
      PROVE  StackOK'
  <2>1. /\ Len(stack') = Len(stack) + 1 /\ stack'[Len(stack) + 1] = g
        /\ \A i \in 1 .. Len(stack) : stack'[i] = IF i = Len(stack) THEN f ELSE stack[i]
    <3>1. stack # <<>>
      BY <1>1
    <3>2. /\ Len(TopCalls(f, g)) = Len(stack) + 1 /\ TopCalls(f, g)[Len(stack) + 1] = g
          /\ \A i \in 1 .. Len(stack) : TopCalls(f, g)[i] = IF i = Len(stack) THEN f ELSE stack[i]
      BY <3>1, StackGrows
    <3> QED  BY <1>4, <3>2
  <2>2. \A i \in 1 .. Len(stack) : stack'[i].name = stack[i].name
    BY <1>1, <2>1
  <2>3. stack' # <<>>
    BY <1>1, <2>1
  <2>4. \A i \in 1 .. Len(stack') : i \in 1 .. Len(stack) \/ i = Len(stack) + 1
    BY <1>1, <2>1
  <2>5. \A i \in 1 .. Len(stack') : stack'[i].name \in visited' /\ Resolvable(stack'[i].name)
    BY <1>1, <1>4, <2>1, <2>2, <2>4
  <2>6. \A i, j \in 1 .. Len(stack') : stack'[i].name = stack'[j].name => i = j
    <3> SUFFICES ASSUME NEW i \in 1 .. Len(stack'), NEW j \in 1 .. Len(stack'),
                        stack'[i].name = stack'[j].name
                 PROVE  i = j
      OBVIOUS
    <3>1. \A k \in 1 .. Len(stack) : stack'[k].name # g.name
      BY <1>1, <1>4, <2>2
    <3>2. CASE i = Len(stack) + 1
      BY <2>1, <2>4, <3>1, <3>2
    <3>3. CASE j = Len(stack) + 1
      BY <2>1, <2>4, <3>1, <3>3
    <3>4. CASE i \in 1 .. Len(stack) /\ j \in 1 .. Len(stack)
      BY <1>1, <2>2, <3>4
    <3> QED  BY <2>4, <3>2, <3>3, <3>4
  <2> QED  BY <2>3, <2>5, <2>6, InputStays DEF StackOK
<1> QED  BY <1>3, <1>4

LEMMA WalkContinues ==
    ASSUME AgInv, agPhase = "walk", agPhase' = "walk",
           UNCHANGED <<input, toWalk, root, findings, used, exitCode>>,
           stack' \in Seq(Frame), visited' \subseteq Package, usedNow' \subseteq Advisory,
           \A r \in Package : r = root => WalkOf(r)'
    PROVE  AgInv'
<1>1. AgTypeOK'
  BY InputStays DEF AgInv, AgTypeOK
<1>2. FindingsAreJustified' /\ CleanIsJustified'
  BY InputStays DEF AgInv, FindingsAreJustified, CleanIsJustified
<1>3. \A p \in DOMAIN vulns : IsSettled(p)' <=> IsSettled(p)
  BY InputStays DEF IsSettled
<1> QED  BY <1>1, <1>2, <1>3, InputStays DEF AgInv

LEMMA WalkViaStep ==
    AgInv /\ WalkVia => AgInv'
<1> SUFFICES ASSUME AgInv, WalkVia PROVE AgInv'
  OBVIOUS
<1> DEFINE t == Top.name
           k == Top.at
           v == vulns[t].via[k]
           n == Len(stack)
<1>1. /\ agPhase = "walk" /\ agPhase' = "walk" /\ k <= Len(vulns[t].via)
      /\ UNCHANGED <<input, toWalk, root, findings, used, exitCode>>
  BY DEF WalkVia
<1>2. /\ AgTypeOK /\ IsInput(input) /\ visited \subseteq Package /\ stack \in Seq(Frame)
      /\ root \in Package /\ WalkOf(root) /\ exitCode = NoExit
  BY <1>1 DEF AgInv, AgTypeOK
<1>3. StackOK /\ stack # <<>>
  BY <1>2 DEF WalkOf, StackOK
<1>4. n \in Nat \ {0} /\ Top = stack[n] /\ Top \in Frame /\ n \in 1 .. n
  BY <1>2, <1>3, TopAndCallers
<1>5. t \in visited /\ Resolvable(t) /\ t \in Package /\ k \in Nat \ {0}
  BY <1>2, <1>3, <1>4 DEF StackOK, Frame
<1>6. vulns[t].via \in Seq(Via) /\ k \in Indices(t) /\ v \in Via
  <2>1. vulns[t].via \in Seq(Via)
    BY <1>2, <1>5, ViaOfResolvable
  <2>2. k \in 1 .. Len(vulns[t].via)
    BY <1>1, <1>5, <2>1
  <2> QED  BY <1>5, <2>1, <2>2, ElementOfSeq DEF Indices
<1> HIDE DEF t, k, v, n
<1> SUFFICES ASSUME NEW r \in Package, r = root
             PROVE  /\ stack' \in Seq(Frame) /\ visited' \subseteq Package
                    /\ usedNow' \subseteq Advisory /\ WalkOf(r)'
  BY <1>1, <1>2, WalkContinues
<1>7. \A ok \in BOOLEAN :
        /\ Advanced(ok) \in Frame /\ Advanced(ok).name = t /\ Advanced(ok).at = k + 1
        /\ Advanced(ok).ok <=> stack[n].ok /\ ok
  BY <1>4 DEF Advanced, Frame, t, k
<1>8. ASSUME NEW ok \in BOOLEAN,
             stack' \in Seq(Frame) /\ Len(stack') >= n,
             \A i \in 1 .. n : stack'[i] = IF i = n THEN Advanced(ok) ELSE stack[i],
             NEW q \in visited, NEW j \in Indices(q),
             \A i \in 1 .. Len(stack') : i \in 1 .. n \/ stack'[i].name \notin visited
      PROVE  Scanned(q, j)' <=> Scanned(q, j) \/ (q = t /\ j = k)
  <2>1. j \in Nat /\ \A i \in 1 .. n : stack[i].at \in Nat
    <3>1. j \in Nat
      BY <1>8 DEF Indices
    <3>2. \A i \in 1 .. n : stack[i] \in Frame
      BY <1>2, ElementOfSeq DEF n
    <3> QED  BY <3>1, <3>2 DEF Frame
  <2>2. Scanned(q, j)' <=>
          \A i \in 1 .. n : stack[i].name = q => j < (IF i = n THEN k + 1 ELSE stack[i].at)
    <3>1. \A i \in 1 .. n : /\ stack'[i].name = stack[i].name
                            /\ stack'[i].at = IF i = n THEN k + 1 ELSE stack[i].at
      BY <1>4, <1>7, <1>8 DEF t
    <3>2. 1 .. n \subseteq 1 .. Len(stack')
      BY <1>4, <1>8
    <3> QED  BY <1>8, <3>1, <3>2 DEF Scanned
  <2>3. Scanned(q, j) <=>
          \A i \in 1 .. n : stack[i].name = q => j < (IF i = n THEN k ELSE stack[i].at)
    BY <1>4 DEF Scanned, n, k
  <2>4. \A i \in 1 .. n : stack[i].name = t => i = n
    BY <1>3, <1>4 DEF StackOK, n, t
  <2>5. CASE q = t
    <3>1. Scanned(q, j)' <=> j < k + 1
      BY <1>4, <2>2, <2>4, <2>5 DEF t
    <3>2. Scanned(q, j) <=> j < k
      BY <1>4, <2>3, <2>4, <2>5 DEF t
    <3> QED  BY <1>5, <2>1, <2>5, <3>1, <3>2
  <2>6. CASE q # t
    BY <1>4, <2>2, <2>3, <2>6 DEF t
  <2> QED  BY <2>5, <2>6
<1>9. CASE v.kind = "package" /\ v.name \notin visited /\ Resolvable(v.name)
  <2> DEFINE new == [name |-> v.name, at |-> 1, ok |-> TRUE]
  <2>1. /\ visited' = visited \cup {v.name} /\ usedNow' = usedNow
        /\ stack' = TopCalls(Advanced(TRUE), new)
    BY <1>9 DEF WalkVia, TopReplaced, TopCalls, v, t, k
  <2>2. v.name \in Package /\ v = PackageVia(v.name) /\ ~Blocks(v) /\ ~IsExcepted(v)
    BY <1>2, <1>6, <1>9, ElementKinds
  <2>3. new \in Frame /\ new.name = v.name /\ new.at = 1 /\ new.ok
    BY <2>2 DEF Frame
  <2> HIDE DEF new
  <2>4. /\ stack' \in Seq(Frame) /\ Len(stack') = n + 1 /\ stack'[n + 1] = new
        /\ \A i \in 1 .. n : stack'[i] = IF i = n THEN Advanced(TRUE) ELSE stack[i]
    <3>1. Advanced(TRUE) \in Frame
      BY <1>7
    <3>2. ASSUME NEW top \in Frame, stack' = TopCalls(top, new)
          PROVE  /\ stack' \in Seq(Frame) /\ Len(stack') = n + 1 /\ stack'[n + 1] = new
                 /\ \A i \in 1 .. n : stack'[i] = IF i = n THEN top ELSE stack[i]
      <4>1. /\ TopCalls(top, new) \in Seq(Frame) /\ Len(TopCalls(top, new)) = n + 1
            /\ TopCalls(top, new)[n + 1] = new
            /\ \A i \in 1 .. n : TopCalls(top, new)[i] = IF i = n THEN top ELSE stack[i]
        BY <1>2, <1>3, <2>3, StackGrows DEF n
      <4> QED  BY <3>2, <4>1
    <3> QED  BY <2>1, <3>1, <3>2
  <2>5. \A i \in 1 .. Len(stack') : i \in 1 .. n \/ i = n + 1
    BY <1>4, <2>4
  <2>6. n + 1 \in 1 .. Len(stack') /\ 1 .. n \subseteq 1 .. Len(stack') /\ Len(stack') >= n
    BY <1>4, <2>4
  <2>7. \A q \in visited : \A j \in Indices(q) :
          Scanned(q, j)' <=> Scanned(q, j) \/ (q = t /\ j = k)
    BY <1>8, <1>9, <2>3, <2>4, <2>5, <2>6
  <2>8. \A q : q = v.name => \A j \in Indices(q) : ~Scanned(q, j)'
    <3> SUFFICES ASSUME NEW q, q = v.name, NEW j \in Indices(q), Scanned(q, j)'
                 PROVE  FALSE
      OBVIOUS
    <3>1. stack'[n + 1].name = q /\ stack'[n + 1].at = 1
      BY <2>3, <2>4
    <3>2. j < 1
      BY <2>6, <3>1 DEF Scanned
    <3>3. j \in 1 .. Len(vulns[q].via)
      BY <1>9 DEF Indices
    <3> QED  BY <3>2, <3>3
  <2>9. Passed' <=> Passed
    <3>1. \A i \in 1 .. n : stack'[i].ok <=> stack[i].ok
      BY <1>7, <2>4
    <3> QED  BY <2>3, <2>4, <2>5, <2>6, <3>1 DEF Passed, n
  <2>10. StackOK'
    BY <1>1, <1>2, <1>3, <1>7, <1>9, <2>1, <2>3, StackStaysOK DEF t
  <2>11. \A q \in Package : v = PackageVia(q) => q = v.name
    BY <1>2, <1>6, ElementKinds
  <2>12. \A q \in visited' \ visited : q = v.name
    BY <2>1
  <2>13. WalkOf(r) /\ input' = input /\ visited \subseteq visited' /\ visited' \subseteq Package
    BY <1>1, <1>2, <2>1, <2>2
  <2>14. WalkOf(r)'
    <3>1. \A q \in visited' \ visited : v = PackageVia(q) /\ \A j \in Indices(q) : ~Scanned(q, j)'
      BY <2>2, <2>8, <2>12
    <3>2. \A q \in Package : v = PackageVia(q) => q \in visited'
      BY <2>1, <2>11
    <3>3. Passed' <=> Passed /\ ~Blocks(v) /\ \A q \in visited' \ visited : Resolvable(q)
      BY <1>9, <2>2, <2>9, <2>12
    <3>4. usedNow' # {} <=> usedNow # {} \/ IsExcepted(v)
      BY <2>1, <2>2
    <3> QED  BY <1>2, <1>5, <1>6, <2>7, <2>10, <2>13, <3>1, <3>2, <3>3, <3>4, ScanStep DEF v
  <2> QED  BY <1>2, <2>1, <2>4, <2>13, <2>14 DEF AgTypeOK
<1>10. CASE v.kind = "package" /\ v.name \notin visited /\ ~Resolvable(v.name)
  <2>1. /\ visited' = visited \cup {v.name} /\ usedNow' = usedNow
        /\ stack' = TopReplaced(Advanced(FALSE))
    BY <1>10 DEF WalkVia, TopReplaced, TopCalls, v, t, k
  <2>2. v.name \in Package /\ v = PackageVia(v.name) /\ ~Blocks(v) /\ ~IsExcepted(v)
    BY <1>2, <1>6, <1>10, ElementKinds
  <2>3. /\ stack' \in Seq(Frame) /\ Len(stack') = n
        /\ \A i \in 1 .. n : stack'[i] = IF i = n THEN Advanced(FALSE) ELSE stack[i]
    <3>1. Advanced(FALSE) \in Frame
      BY <1>7
    <3> QED  BY <1>2, <1>3, <2>1, <3>1, StackAdvances DEF n
  <2>4. \A q \in visited : \A j \in Indices(q) :
          Scanned(q, j)' <=> Scanned(q, j) \/ (q = t /\ j = k)
    <3>1. Len(stack') >= n /\ \A i \in 1 .. Len(stack') : i \in 1 .. n
      BY <1>4, <2>3
    <3> QED  BY <1>8, <2>3, <3>1
  <2>5. ~Passed'
    <3>1. n \in 1 .. Len(stack') /\ ~stack'[n].ok
      BY <1>4, <1>7, <2>3
    <3> QED  BY <3>1 DEF Passed
  <2>6. StackOK'
    BY <1>1, <1>2, <1>3, <1>7, <2>1, StackStaysOK DEF t
  <2>7. \A q \in Package : v = PackageVia(q) => q = v.name
    BY <1>2, <1>6, ElementKinds
  <2>8. \A q \in visited' \ visited : q = v.name
    BY <2>1
  <2>9. WalkOf(r) /\ input' = input /\ visited \subseteq visited' /\ visited' \subseteq Package
    BY <1>1, <1>2, <2>1, <2>2
  <2>10. WalkOf(r)'
    <3>1. \A q \in visited' \ visited : v = PackageVia(q) /\ \A j \in Indices(q) : ~Scanned(q, j)'
      BY <1>10, <2>2, <2>8 DEF Indices
    <3>2. \A q \in Package : v = PackageVia(q) => q \in visited'
      BY <2>1, <2>7
    <3>3. Passed' <=> Passed /\ ~Blocks(v) /\ \A q \in visited' \ visited : Resolvable(q)
      BY <1>10, <2>1, <2>5
    <3>4. usedNow' # {} <=> usedNow # {} \/ IsExcepted(v)
      BY <2>1, <2>2
    <3> QED  BY <1>2, <1>5, <1>6, <2>4, <2>6, <2>9, <3>1, <3>2, <3>3, <3>4, ScanStep DEF v
  <2> QED  BY <1>2, <2>1, <2>3, <2>9, <2>10 DEF AgTypeOK
<1>11. CASE ~(v.kind = "package" /\ v.name \notin visited)
  <2> DEFINE ok == IF v.kind = "package" THEN CycleGuard ELSE ~Blocks(v)
  <2>1. /\ visited' = visited /\ stack' = TopReplaced(Advanced(ok))
        /\ usedNow' = IF IsExcepted(v) THEN usedNow \cup {v.id} ELSE usedNow
    BY <1>11 DEF WalkVia, TopReplaced, TopCalls, v, t, k
  <2>2. ok \in BOOLEAN /\ (ok <=> ~Blocks(v)) /\ (IsExcepted(v) => v.id \in Advisory)
    <3>1. v.kind = "package" => ~Blocks(v)
      BY <1>2, <1>6, ElementKinds
    <3>2. Blocks(v) \in BOOLEAN
      BY Zenon DEF Blocks
    <3>3. ok \in BOOLEAN
      BY <3>2 DEF CycleGuard
    <3> QED  BY <1>2, <1>6, <3>1, <3>3, ElementKinds DEF CycleGuard
  <2> HIDE DEF ok
  <2>3. /\ stack' \in Seq(Frame) /\ Len(stack') = n
        /\ \A i \in 1 .. n : stack'[i] = IF i = n THEN Advanced(ok) ELSE stack[i]
    <3>1. Advanced(ok) \in Frame
      BY <1>7, <2>2
    <3> QED  BY <1>2, <1>3, <2>1, <3>1, StackAdvances DEF n
  <2>4. \A q \in visited : \A j \in Indices(q) :
          Scanned(q, j)' <=> Scanned(q, j) \/ (q = t /\ j = k)
    BY <1>4, <1>8, <2>2, <2>3
  <2>5. Passed' <=> Passed /\ ~Blocks(v)
    <3>1. \A i \in 1 .. n : i # n => (stack'[i].ok <=> stack[i].ok)
      BY <2>3
    <3>2. stack'[n].ok <=> stack[n].ok /\ ~Blocks(v)
      BY <1>4, <1>7, <2>2, <2>3
    <3> QED  BY <1>4, <2>3, <3>1, <3>2 DEF Passed, n
  <2>6. StackOK'
    BY <1>1, <1>2, <1>3, <1>7, <2>1, <2>2, StackStaysOK DEF t
  <2>7. \A q \in Package : v = PackageVia(q) => q \in visited'
    BY <1>2, <1>6, <1>11, <2>1, ElementKinds
  <2>8. usedNow' # {} <=> usedNow # {} \/ IsExcepted(v)
    BY <2>1
  <2>9. WalkOf(r) /\ input' = input /\ visited \subseteq visited' /\ visited' \subseteq Package
        /\ visited' \ visited = {}
    BY <1>1, <1>2, <2>1
  <2>10. WalkOf(r)'
    <3>1. \A q \in visited' \ visited : v = PackageVia(q) /\ \A j \in Indices(q) : ~Scanned(q, j)'
      BY <2>9
    <3>2. Passed' <=> Passed /\ ~Blocks(v) /\ \A q \in visited' \ visited : Resolvable(q)
      BY <2>5, <2>9
    <3> QED  BY <1>2, <1>5, <1>6, <2>4, <2>6, <2>7, <2>8, <2>9, <3>1, <3>2, ScanStep DEF v
  <2>11. usedNow' \subseteq Advisory
    BY <1>2, <2>1, <2>2 DEF AgTypeOK
  <2> QED  BY <2>3, <2>9, <2>10, <2>11
<1> QED  BY <1>9, <1>10, <1>11

(* A call returns to its caller: nothing more is scanned, and whether the   *)
(* calls passed is the same.                                                *)
LEMMA CallReturnsStep ==
    ASSUME AgInv, WalkReturns, Len(stack) > 1
    PROVE  AgInv'
<1> DEFINE t == Top.name
           n == Len(stack)
<1>1. /\ agPhase = "walk" /\ agPhase' = "walk" /\ Top.at > Len(vulns[t].via)
      /\ stack' = [Callers EXCEPT ![n - 1] =
                     [name |-> @.name, at |-> @.at, ok |-> @.ok /\ Top.ok]]
      /\ UNCHANGED <<input, toWalk, root, visited, usedNow, findings, used, exitCode>>
  BY DEF WalkReturns
<1>2. /\ IsInput(input) /\ visited \subseteq Package /\ stack \in Seq(Frame)
      /\ root \in Package /\ WalkOf(root) /\ usedNow \subseteq Advisory
  BY <1>1 DEF AgInv, AgTypeOK
<1>3. StackOK /\ stack # <<>>
  BY <1>2 DEF WalkOf, StackOK
<1>4. /\ n \in Nat \ {0} /\ n - 1 \in 1 .. n /\ Top = stack[n] /\ Top \in Frame /\ n \in 1 .. n
      /\ Callers \in Seq(Frame) /\ Len(Callers) = n - 1
      /\ \A i \in 1 .. n - 1 : Callers[i] = stack[i]
  BY <1>2, <1>3, TopAndCallers
<1>5. Resolvable(t) /\ vulns[t].via \in Seq(Via)
  <2>1. Resolvable(t)
    BY <1>3, <1>4 DEF StackOK
  <2> QED  BY <1>2, <2>1, ViaOfResolvable
<1> HIDE DEF t, n
<1> DEFINE f == [name |-> Callers[n - 1].name, at |-> Callers[n - 1].at,
                 ok |-> Callers[n - 1].ok /\ Top.ok]
<1>6. /\ n - 1 \in 1 .. Len(Callers) /\ Callers[n - 1] = stack[n - 1] /\ Callers[n - 1] \in Frame
  <2>1. n - 1 \in 1 .. Len(Callers)
    BY <1>1, <1>4 DEF n
  <2> QED  BY <1>4, <2>1, ElementOfSeq
<1>7. /\ f \in Frame /\ f.name = stack[n - 1].name /\ f.at = stack[n - 1].at
      /\ f.ok <=> stack[n - 1].ok /\ stack[n].ok
  BY <1>4, <1>6 DEF Frame
<1>8. stack' = [Callers EXCEPT ![n - 1] = f]
  BY <1>1
<1> HIDE DEF f
<1>9. /\ stack' \in Seq(Frame) /\ Len(stack') = n - 1
      /\ \A i \in 1 .. n - 1 : stack'[i] = IF i = n - 1 THEN f ELSE stack[i]
  BY <1>4, <1>6, <1>7, <1>8, ExceptSeq
<1>10. /\ \A i \in 1 .. n - 1 : stack'[i].name = stack[i].name /\ stack'[i].at = stack[i].at
       /\ stack' # <<>>
       /\ 1 .. n - 1 \subseteq 1 .. n
       /\ \A i \in 1 .. n : i \in 1 .. n - 1 \/ i = n
       /\ \A i \in 1 .. n - 1 : i # n
  <2>1. stack' # <<>>
    BY <1>4, <1>6, <1>9
  <2>2. \A i \in 1 .. n - 1 : stack'[i].name = stack[i].name /\ stack'[i].at = stack[i].at
    BY <1>7, <1>9
  <2> QED  BY <1>4, <2>1, <2>2
<1>11. StackOK'
  <2>1. /\ \A i \in 1 .. n : stack[i].name \in visited /\ Resolvable(stack[i].name)
        /\ \A i, j \in 1 .. n : stack[i].name = stack[j].name => i = j
    BY <1>3 DEF StackOK, n
  <2> QED  BY <1>1, <1>9, <1>10, <2>1, InputStays DEF StackOK
<1>12. ASSUME NEW q \in visited, NEW j \in Indices(q)
       PROVE  Scanned(q, j)' <=> Scanned(q, j)
  <2>1. Scanned(q, j)' <=> \A i \in 1 .. n - 1 : stack[i].name = q => j < stack[i].at
    BY <1>9, <1>10 DEF Scanned
  <2>2. stack[n].name = q => j < stack[n].at
    <3> SUFFICES ASSUME q = t
                 PROVE  j < Top.at
      BY <1>4 DEF t
    <3>1. j \in 1 .. Len(vulns[t].via) /\ Top.at \in Nat
      BY <1>4, <1>5 DEF Indices, Frame
    <3> QED  BY <1>1, <1>5, <3>1
  <2> QED  BY <1>4, <1>10, <2>1, <2>2 DEF Scanned, n
<1>13. Passed' <=> Passed
  <2>1. Passed' <=> \A i \in 1 .. n : stack[i].ok
    <3>1. Passed' <=> \A i \in 1 .. n - 1 : stack'[i].ok
      BY <1>9 DEF Passed
    <3>2. \A i \in 1 .. n - 1 : i # n - 1 => (stack'[i].ok <=> stack[i].ok)
      BY <1>9
    <3>3. stack'[n - 1].ok <=> stack[n - 1].ok /\ stack[n].ok
      BY <1>4, <1>6, <1>7, <1>9
    <3>4. n - 1 \in 1 .. n - 1
      BY <1>4, <1>6
    <3> QED  BY <1>4, <1>10, <3>1, <3>2, <3>3, <3>4
  <2> QED  BY <2>1 DEF Passed, n
<1>14. ASSUME NEW r \in Package, r = root
       PROVE  WalkOf(r)'
  <2>1. WalkOf(r)
    BY <1>2, <1>14
  <2>2. Followed'
    BY <1>1, <1>12, <2>1, InputStays DEF WalkOf, Followed
  <2>3. NothingBlocks' <=> NothingBlocks
    BY <1>1, <1>12, InputStays DEF NothingBlocks
  <2>4. SomethingExcepted' <=> SomethingExcepted
    BY <1>1, <1>12, InputStays DEF SomethingExcepted
  <2> QED  BY <1>1, <1>11, <1>13, <2>1, <2>2, <2>3, <2>4, InputStays DEF WalkOf
<1> QED  BY <1>1, <1>2, <1>9, <1>14, WalkContinues

(* The walk returns to evaluateReport, and what it found is the truth.      *)
LEMMA WalkEndsStep ==
    ASSUME AgInv, WalkReturns, ~(Len(stack) > 1)
    PROVE  AgInv'
<1>1. /\ agPhase = "walk" /\ agPhase' = "evaluate" /\ Top.at > Len(vulns[Top.name].via)
      /\ stack' = <<>> /\ UNCHANGED <<input, toWalk, root, visited, usedNow, exitCode>>
      /\ IF Top.ok /\ usedNow # {}
         THEN used' = used \cup usedNow /\ findings' = findings
         ELSE findings' = findings \cup {root} /\ used' = used
  BY DEF WalkReturns
<1>2. /\ AgTypeOK /\ root \in Package /\ WalkOf(root) /\ FindingsAreJustified /\ CleanIsJustified
      /\ ReportIsTrusted /\ toWalk \subseteq DOMAIN vulns /\ exitCode = NoExit
      /\ \A p \in DOMAIN vulns : p \in toWalk \/ p = root \/ IsSettled(p)
  BY <1>1 DEF AgInv
<1>3. Len(stack) = 1
  <2>1. stack \in Seq(Frame) /\ stack # <<>>
    BY <1>2 DEF AgTypeOK, WalkOf, StackOK
  <2> QED  BY <2>1, TopAndCallers
<1>4. ASSUME NEW r \in Package, r = root
      PROVE  MustBeWalked(r) /\ (ChainIsExcepted(r) <=> Top.ok /\ usedNow # {})
  BY <1>1, <1>3, <1>4, FinishedWalk
<1>5. AgTypeOK'
  <2>1. stack' \in Seq(Frame)
    BY <1>1
  <2> QED  BY <1>1, <1>2, <2>1, InputStays DEF AgTypeOK
<1>6. FindingsAreJustified'
  BY <1>1, <1>2, <1>4, InputStays DEF FindingsAreJustified
<1>7. CleanIsJustified'
  BY <1>1, <1>2 DEF CleanIsJustified, NoExit, EXIT_CLEAN
<1>8. \A p \in DOMAIN vulns : p \in toWalk' \/ IsSettled(p)'
  <2>1. \A p \in DOMAIN vulns : p # root => p \in toWalk' \/ IsSettled(p)'
    BY <1>1, <1>2, InputStays DEF IsSettled
  <2>2. ASSUME NEW p \in DOMAIN vulns, p = root
        PROVE  IsSettled(p)'
    <3>1. vulns[p].record
      BY <1>2, <1>4, <2>2 DEF MustBeWalked
    <3> QED  BY <1>1, <1>2, <1>4, <2>2, <3>1, InputStays DEF IsSettled
  <2> QED  BY <2>1, <2>2
<1> QED  BY <1>1, <1>2, <1>5, <1>6, <1>7, <1>8, InputStays DEF AgInv

-----------------------------------------------------------------------------
LEMMA AgInvariant ==
    AgSpec => []AgInv
<1>1. AgInv /\ [AgNext]_agVars => AgInv'
  <2> SUFFICES ASSUME AgInv, [AgNext]_agVars PROVE AgInv'
    OBVIOUS
  <2>1. CASE ReadInput
    BY <2>1, ReadStep
  <2>2. CASE \E p \in Package : EvaluatePackage(p)
    BY <2>2, EvaluateStep
  <2>3. CASE WalkVia
    BY <2>3, WalkViaStep
  <2>4. CASE WalkReturns
    BY <2>4, CallReturnsStep, WalkEndsStep
  <2>5. CASE Verdict
    BY <2>5, VerdictStep
  <2>6. CASE UNCHANGED agVars
    <3>1. /\ UNCHANGED <<input, agPhase, toWalk, root, stack, visited, usedNow>>
          /\ UNCHANGED <<findings, used, exitCode>>
      BY <2>6 DEF agVars
    <3>2. AgTypeOK'
      BY <3>1, InputStays DEF AgInv, AgTypeOK
    <3>3. FindingsAreJustified' /\ CleanIsJustified'
      BY <3>1, InputStays DEF AgInv, FindingsAreJustified, CleanIsJustified
    <3>4. \A p \in DOMAIN vulns : IsSettled(p)' <=> IsSettled(p)
      BY <3>1, InputStays DEF IsSettled
    <3>5. \A r \in Package : WalkOf(r) => WalkOf(r)'
      <4>1. \A q, j : Scanned(q, j)' <=> Scanned(q, j)
        BY <3>1 DEF Scanned
      <4>2. (Passed' <=> Passed) /\ (StackOK' <=> StackOK)
        BY <3>1, InputStays DEF Passed, StackOK
      <4>3. (Followed' <=> Followed) /\ (NothingBlocks' <=> NothingBlocks)
        BY <3>1, <4>1, InputStays DEF Followed, NothingBlocks
      <4>4. SomethingExcepted' <=> SomethingExcepted
        BY <3>1, <4>1, InputStays DEF SomethingExcepted
      <4> QED  BY <3>1, <4>2, <4>3, <4>4, InputStays DEF WalkOf
    <3> QED  BY <3>1, <3>2, <3>3, <3>4, <3>5, InputStays DEF AgInv
  <2> QED  BY <2>1, <2>2, <2>3, <2>4, <2>5, <2>6 DEF AgNext
<1> QED  BY AgInitHolds, <1>1, PTL DEF AgSpec

(* The gate's state is of its type, whatever it is given (audit-gate.mjs).  *)
THEOREM AuditTypeCorrect == AgSpec => []AgTypeOK
<1>1. AgInv => AgTypeOK
  BY DEF AgInv
<1> QED  BY AgInvariant, <1>1, PTL

(* The verdict of audit-gate.mjs is justified for every report: it passes   *)
(* only what the allowlist covers along the whole chain, and it reports     *)
(* only what it does not cover, with any sharing and any cycles.            *)
THEOREM AuditVerdictIsJustified == AgSpec => []VerdictIsJustified
<1>1. AgInv => VerdictIsJustified
  BY DEF AgInv, VerdictIsJustified, FindingsAreJustified, CleanIsJustified, ReportIsTrusted
<1> QED  BY AgInvariant, <1>1, PTL
=============================================================================
