------------------------- MODULE MCLoginRateLimiter -------------------------
(* Small instances of LoginRateLimiter for TLC.                             *)
EXTENDS LoginRateLimiter, TLC

CONSTANTS
    home, mob, bot,     \* two /64s of one /48, and an IPv4 address
    k1, k2, k3,         \* their keys
    p                   \* the /48

MCKeyOf == home :> k1 @@ mob :> k2 @@ bot :> k3
MCParentOf == home :> p @@ mob :> p @@ bot :> NoParent

(* The three /64s of one /48.                                               *)
MCSameParent == home :> p @@ mob :> p @@ bot :> p
=============================================================================
