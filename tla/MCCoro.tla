------------------------------- MODULE MCCoro -------------------------------
(* Instance of Coro for TLC.  Coroutines are interchangeable; the main     *)
(* thread is not.                                                          *)
EXTENDS Coro, TLC

Perms == Permutations(Coro)
=============================================================================
