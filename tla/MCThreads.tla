----------------------------- MODULE MCThreads ------------------------------
(* Instance of Threads for TLC: a main thread and two workers race for two *)
(* indexes, so that one thread can find no index left.                     *)
EXTENDS Threads

CONSTANTS main, w1, w2

AllThreads == {main, w1, w2}
=============================================================================
