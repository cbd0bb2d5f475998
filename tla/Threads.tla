------------------------------ MODULE Threads -------------------------------
(***************************************************************************)
(* The threads of a program together: native workers (ThreadWorker) come   *)
(* up, run and end while they and the threads that were there before race  *)
(* the first use of a thread-local slot (TlsSlot).  A worker stores under  *)
(* a slot only while user code runs in it: in its function, where the      *)
(* trampoline (jit/dispatch.c) sets the frame of the fault handler and a   *)
(* resume the current coroutine, and in the finalizers of lua_close.  It   *)
(* is never in the middle of CluaTls_Ensure when the function returns.     *)
(***************************************************************************)
EXTENDS ThreadWorker, TlsSlot

ASSUME ThreadsAssumption == Worker \subseteq Thread

threadsVars == <<vars, tlsVars>>

ThreadsInit == Init /\ TlsInit

(* A setter of the execution state, called by native code.                 *)
SetsState(t) ==
  /\ t \in Worker => pc[t] \in {"run", "close"}
  /\ TlsStep(t)
  /\ UNCHANGED vars

(* The next step of a worker's bootstrap.                                  *)
Proceeds(w) == step[w] = "idle" /\ Bootstrap(w) /\ UNCHANGED tlsVars

(* The threads that hold handles, and the collector of w's state.          *)
Around(w) == (Spawn(w) \/ Join(w) \/ Collect(w)) /\ UNCHANGED tlsVars

ThreadsNext ==
  \/ \E t \in Thread : SetsState(t)
  \/ \E w \in Worker : Proceeds(w) \/ Around(w)

ThreadsSpec == ThreadsInit /\ [][ThreadsNext]_threadsVars

(* The operating system runs every thread; a worker's function, and its    *)
(* finalizers, call finitely many setters and return.                      *)
ThreadsFairSpec ==
  /\ ThreadsSpec
  /\ \A w \in Worker : WF_threadsVars(SetsState(w)) /\ SF_threadsVars(Proceeds(w))
=============================================================================
