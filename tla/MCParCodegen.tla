---------------------------- MODULE MCParCodegen ----------------------------
(***************************************************************************)
(* Instances of ParCodegen for TLC.  Every module of up to MaxFuncs        *)
(* functions and every -j up to MaxAsked is an initial state, so the       *)
(* sequential path, more workers than functions, and more functions than   *)
(* workers are all there.                                                  *)
(***************************************************************************)
EXTENDS ParCodegen
=============================================================================
