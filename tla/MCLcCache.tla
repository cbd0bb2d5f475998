----------------------------- MODULE MCLcCache ------------------------------
(***************************************************************************)
(* Instances of LcCache for TLC: two builds of a module of two functions   *)
(* share a cache of one entry, so every build that stores must evict.  The *)
(* builds are interchangeable.                                             *)
(***************************************************************************)
EXTENDS LcCache, TLC

Builds == Permutations(Build)
=============================================================================
