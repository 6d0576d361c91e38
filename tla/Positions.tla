------------------------------ MODULE Positions -----------------------------
(* What the array methods filter and indexOf do, said of the positions of   *)
(* the elements and without recursion, for modules with theorems.           *)
EXTENDS Naturals, Sequences, FiniteSets, Functions

(* The elements of s at the positions of I, in their order.                 *)
SubsequenceAt(s, I) ==
    [n \in 1 .. Cardinality(I) |->
        s[CHOOSE i \in I : Cardinality({j \in I : j <= i}) = n]]

Without(s, e) == SubsequenceAt(s, {i \in DOMAIN s : s[i] # e})

(* The first position of e in s, 0 when there is none.                      *)
IndexOf(s, e) ==
    IF \A i \in DOMAIN s : s[i] # e THEN 0
    ELSE CHOOSE i \in DOMAIN s : s[i] = e /\ \A j \in DOMAIN s : s[j] = e => i <= j
=============================================================================
