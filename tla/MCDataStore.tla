---------------------------- MODULE MCDataStore -----------------------------
(* A small instance of DataStore for TLC.                                   *)
EXTENDS DataStore, TLC

Symmetry == Permutations(Value) \cup Permutations(TempName)
=============================================================================
