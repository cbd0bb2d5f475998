---------------------------- MODULE ThreadWorker ----------------------------
(***************************************************************************)
(* Native worker threads (runtime/aot_entry.c): spawn_native hands a       *)
(* context to a new OS thread, Clua_ThreadBootstrap builds a Lua universe  *)
(* of its own for it under the bring-up lock and runs the user's function  *)
(* outside of it, join_native collects the result and frees the context.   *)
(*                                                                         *)
(* Each worker has one context.  The dispatch cache is abstracted to whose *)
(* it is, the Proto tree to whether it is built, rooted and intact, and a  *)
(* payload to what it holds.  Any code that holds a handle may join it;    *)
(* it is joined successfully once (the contract of join_native).           *)
(***************************************************************************)
EXTENDS Naturals

CONSTANTS Worker,   \* contexts, one thread each
          Nil       \* nobody holds the lock

ASSUME ThreadAssumption == Nil \notin Worker

VARIABLES
  ctx,      \* "none", "live", "freed"
  pc,       \* where Clua_ThreadBootstrap is
  lock,     \* the owner of g_BringupCs
  cache,    \* the thread's dispatch cache: "none" (the global one) or "own"
  shared,   \* a worker has registered Protos in the global cache
  state,    \* the worker's lua_State: "none", "open", "closed"
  gc,       \* the collector of that state may run
  protos,   \* "none", "built", "rooted", "swept"
  outcome,  \* what the worker's function did: "none", "value", "error"
  status,   \* Result.Status
  payload,  \* Result.Payload: "null", "value", "message"
  joined    \* what join_native returned: "no", "ok", "failed"

vars == <<ctx, pc, lock, cache, shared, state, gc, protos, outcome, status,
          payload, joined>>

Steps == {"absent", "begin", "lock", "newstate", "stopgc", "build", "anchor",
          "resolve", "run", "capture", "close", "cacheend", "signal", "exited"}

TypeOK ==
  /\ ctx \in [Worker -> {"none", "live", "freed"}]
  /\ pc \in [Worker -> Steps]
  /\ lock \in Worker \cup {Nil}
  /\ cache \in [Worker -> {"none", "own"}]
  /\ shared \in BOOLEAN
  /\ state \in [Worker -> {"none", "open", "closed"}]
  /\ gc \in [Worker -> BOOLEAN]
  /\ protos \in [Worker -> {"none", "built", "rooted", "swept"}]
  /\ outcome \in [Worker -> {"none", "value", "error"}]
  /\ status \in [Worker -> 0..2]
  /\ payload \in [Worker -> {"null", "value", "message"}]
  /\ joined \in [Worker -> {"no", "ok", "failed"}]

Init ==
  /\ ctx = [w \in Worker |-> "none"]
  /\ pc = [w \in Worker |-> "absent"]
  /\ lock = Nil
  /\ cache = [w \in Worker |-> "none"]
  /\ shared = FALSE
  /\ state = [w \in Worker |-> "none"]
  /\ gc = [w \in Worker |-> FALSE]
  /\ protos = [w \in Worker |-> "none"]
  /\ outcome = [w \in Worker |-> "none"]
  /\ status = [w \in Worker |-> 0]
  /\ payload = [w \in Worker |-> "null"]
  /\ joined = [w \in Worker |-> "no"]

Goes(w, from, to) == pc[w] = from /\ pc' = [pc EXCEPT ![w] = to]

(* Mutant: the error that the failed call left is stored as the status.    *)
SetsErrorErrno(w) ==
  /\ status' = [status EXCEPT ![w] = 12]
  /\ payload' = [payload EXCEPT ![w] = "message"]

(* ThrSetError: the message is lost if it cannot be copied.                *)
SetsError(w) ==
  /\ status' = [status EXCEPT ![w] = 2]
  /\ \/ payload' = [payload EXCEPT ![w] = "message"]
     \/ UNCHANGED payload

-----------------------------------------------------------------------------
(* The threads that hold handles.                                          *)

(* Clua_SpawnNative: the context, its event and its thread, or nothing.    *)
Spawn(w) ==
  /\ ctx[w] = "none"
  /\ ctx' = [ctx EXCEPT ![w] = "live"]
  /\ Goes(w, "absent", "begin")
  /\ UNCHANGED <<lock, cache, shared, state, gc, protos, outcome, status, payload, joined>>

(* Mutant: the wait's result is not looked at.                             *)
JoinAnyway(w) ==
  /\ ctx[w] = "live"
  /\ joined' = [joined EXCEPT ![w] = IF status[w] = 1 THEN "ok" ELSE "failed"]
  /\ ctx' = [ctx EXCEPT ![w] = "freed"]
  /\ UNCHANGED <<pc, lock, cache, shared, state, gc, protos, outcome, status, payload>>

(* Clua_JoinNative: the thread has ended; the context is freed.  A wait    *)
(* that times out changes nothing.                                         *)
Join(w) ==
  /\ ctx[w] = "live"
  /\ pc[w] = "exited"
  /\ joined' = [joined EXCEPT ![w] = IF status[w] = 1 THEN "ok" ELSE "failed"]
  /\ ctx' = [ctx EXCEPT ![w] = "freed"]
  /\ UNCHANGED <<pc, lock, cache, shared, state, gc, protos, outcome, status, payload>>

-----------------------------------------------------------------------------
(* Clua_ThreadBootstrap.                                                   *)

(* Mutant: a worker without a cache of its own goes on.                    *)
CacheBeginUnchecked(w) ==
  /\ Goes(w, "begin", "lock")
  /\ \/ cache' = [cache EXCEPT ![w] = "own"]
     \/ UNCHANGED cache
  /\ UNCHANGED <<ctx, lock, shared, state, gc, protos, outcome, status, payload, joined>>

(* Jit_WorkerCacheBegin: without a cache of its own the worker refuses.    *)
CacheBegin(w) ==
  /\ \/ /\ Goes(w, "begin", "lock")
        /\ cache' = [cache EXCEPT ![w] = "own"]
        /\ UNCHANGED <<status, payload>>
     \/ /\ Goes(w, "begin", "exited")
        /\ SetsError(w)
        /\ UNCHANGED cache
  /\ UNCHANGED <<ctx, lock, shared, state, gc, protos, outcome, joined>>

Lock(w) ==
  /\ Goes(w, "lock", "newstate")
  /\ lock = Nil
  /\ lock' = w
  /\ UNCHANGED <<ctx, cache, shared, state, gc, protos, outcome, status, payload, joined>>

(* Mutant: the early return forgets the lock.                              *)
NewStateFailsLocked(w) ==
  /\ Goes(w, "newstate", "cacheend")
  /\ SetsError(w)
  /\ UNCHANGED <<ctx, lock, cache, shared, state, gc, protos, outcome, joined>>

(* luaL_newstate fails: unlock, report, signal, release the cache.         *)
NewStateFails(w) ==
  /\ Goes(w, "newstate", "cacheend")
  /\ lock' = Nil
  /\ SetsError(w)
  /\ UNCHANGED <<ctx, cache, shared, state, gc, protos, outcome, joined>>

(* luaL_newstate and the libraries; the collector runs from here on ...    *)
NewState(w) ==
  /\ Goes(w, "newstate", "stopgc")
  /\ state' = [state EXCEPT ![w] = "open"]
  /\ gc' = [gc EXCEPT ![w] = TRUE]
  /\ UNCHANGED <<ctx, lock, cache, shared, protos, outcome, status, payload, joined>>

(* Mutant: the collector is not stopped while the tree has no root.        *)
StopGcSkipped(w) ==
  /\ Goes(w, "stopgc", "build")
  /\ UNCHANGED <<ctx, lock, cache, shared, state, gc, protos, outcome, status, payload, joined>>

(* ... until LUA_GCSTOP.                                                   *)
StopGc(w) ==
  /\ Goes(w, "stopgc", "build")
  /\ gc' = [gc EXCEPT ![w] = FALSE]
  /\ UNCHANGED <<ctx, lock, cache, shared, state, protos, outcome, status, payload, joined>>

(* LuacProgram_BuildEntry builds every Proto, with no root, and registers  *)
(* it in the cache of the current thread.                                  *)
Build(w) ==
  /\ Goes(w, "build", "anchor")
  /\ protos' = [protos EXCEPT ![w] = "built"]
  /\ shared' = (shared \/ cache[w] # "own")
  /\ UNCHANGED <<ctx, lock, cache, state, gc, outcome, status, payload, joined>>

(* The error path after a failed build or an unresolved trampoline; the    *)
(* collector is restarted, the lock released, the state closed.            *)
Abandons(w, from) ==
  /\ Goes(w, from, "cacheend")
  /\ lock' = Nil
  /\ gc' = [gc EXCEPT ![w] = FALSE]
  /\ state' = [state EXCEPT ![w] = "closed"]
  /\ protos' = [protos EXCEPT ![w] = "none"]
  /\ SetsError(w)

BuildFails(w) ==
  /\ Abandons(w, "build")
  /\ UNCHANGED <<ctx, cache, shared, outcome, joined>>

(* A closure over the entry Proto in the registry pins the whole tree.     *)
Anchor(w) ==
  /\ Goes(w, "anchor", "resolve")
  /\ protos' = [protos EXCEPT ![w] = IF @ = "built" THEN "rooted" ELSE @]
  /\ UNCHANGED <<ctx, lock, cache, shared, state, gc, outcome, status, payload, joined>>

(* Jit_ResolveFuncId finds the trampoline; the collector is restarted and  *)
(* the lock released.                                                      *)
Resolve(w) ==
  /\ Goes(w, "resolve", "run")
  /\ lock' = Nil
  /\ gc' = [gc EXCEPT ![w] = TRUE]
  /\ UNCHANGED <<ctx, cache, shared, state, protos, outcome, status, payload, joined>>

ResolveFails(w) ==
  /\ Abandons(w, "resolve")
  /\ UNCHANGED <<ctx, cache, shared, outcome, joined>>

(* The user's function, under lua_pcall.                                   *)
Run(w) ==
  /\ Goes(w, "run", "capture")
  /\ \E o \in {"value", "error"} : outcome' = [outcome EXCEPT ![w] = o]
  /\ UNCHANGED <<ctx, lock, cache, shared, state, gc, protos, status, payload, joined>>

(* Mutant: whatever lua_pcall leaves on the stack is the result.           *)
CaptureUnchecked(w) ==
  /\ Goes(w, "capture", "close")
  /\ payload' = [payload EXCEPT ![w] = "value"]
  /\ status' = [status EXCEPT ![w] = 1]
  /\ UNCHANGED <<ctx, lock, cache, shared, state, gc, protos, outcome, joined>>

(* The result is copied out of the state; the status is 1 even if there    *)
(* was no memory for the copy.                                             *)
Capture(w) ==
  /\ Goes(w, "capture", "close")
  /\ IF outcome[w] = "value"
       THEN /\ status' = [status EXCEPT ![w] = 1]
            /\ \/ payload' = [payload EXCEPT ![w] = "value"]
               \/ UNCHANGED payload
       ELSE SetsError(w)
  /\ UNCHANGED <<ctx, lock, cache, shared, state, gc, protos, outcome, joined>>

Close(w) ==
  /\ Goes(w, "close", "cacheend")
  /\ state' = [state EXCEPT ![w] = "closed"]
  /\ gc' = [gc EXCEPT ![w] = FALSE]
  /\ protos' = [protos EXCEPT ![w] = "none"]
  /\ UNCHANGED <<ctx, lock, cache, shared, outcome, status, payload, joined>>

(* Jit_WorkerCacheEnd and SetEvent, in either order; then the return.      *)
CacheEnd(w) ==
  /\ Goes(w, "cacheend", "signal")
  /\ cache' = [cache EXCEPT ![w] = "none"]
  /\ UNCHANGED <<ctx, lock, shared, state, gc, protos, outcome, status, payload, joined>>

Signal(w) ==
  /\ Goes(w, "signal", "exited")
  /\ UNCHANGED <<ctx, lock, cache, shared, state, gc, protos, outcome, status, payload, joined>>

(* A collection, at any allocation while the collector may run, sweeps a   *)
(* tree that nothing roots.                                                *)
Collect(w) ==
  /\ state[w] = "open" /\ gc[w]
  /\ protos' = [protos EXCEPT ![w] = IF @ = "built" THEN "swept" ELSE @]
  /\ UNCHANGED <<ctx, pc, lock, cache, shared, state, gc, outcome, status, payload, joined>>

Bootstrap(w) ==
  \/ CacheBegin(w) \/ Lock(w) \/ NewState(w) \/ NewStateFails(w) \/ StopGc(w)
  \/ Build(w) \/ BuildFails(w) \/ Anchor(w) \/ Resolve(w) \/ ResolveFails(w)
  \/ Run(w) \/ Capture(w) \/ Close(w) \/ CacheEnd(w) \/ Signal(w)

Next == \E w \in Worker : Spawn(w) \/ Join(w) \/ Collect(w) \/ Bootstrap(w)

Spec == Init /\ [][Next]_vars

(* The operating system runs every thread, and the user's function returns.*)
(* A worker takes the lock once, so nobody is kept from it for ever.       *)
FairSpec ==
  /\ Spec
  /\ \A w \in Worker : WF_vars(Bootstrap(w))

-----------------------------------------------------------------------------
(* Properties.                                                             *)

(* Every started thread returns, so that join_native with no timeout does. *)
(* No path through the bring-up, the failing ones included, keeps the lock *)
(* from the next worker.                                                   *)
EveryWorkerEnds == \A w \in Worker : ctx[w] = "live" ~> pc[w] = "exited"

(* No collection sweeps the tree that the worker is to resolve its         *)
(* function in: between BuildEntry and the registry reference the collector*)
(* is stopped (AOT-MULTIMOD-001).                                          *)
NothingSwept == \A w \in Worker : protos[w] # "swept"

(* The context, its event and its arguments outlive the thread that reads  *)
(* them and writes its result in them.                                     *)
CtxOutlivesThread ==
  \A w \in Worker : pc[w] \notin {"absent", "exited"} => ctx[w] = "live"

(* A worker's Protos never enter the cache the other threads read without  *)
(* a lock, and as long as its state is open, finalizers of lua_close       *)
(* included, the worker has its own cache to dispatch with.                *)
OwnCacheWhileOpen ==
  /\ ~shared
  /\ \A w \in Worker : state[w] = "open" => cache[w] = "own"

(* join_native says true exactly for the worker whose function returned.   *)
JoinTellsOutcome ==
  \A w \in Worker : joined[w] # "no" => (joined[w] = "ok" <=> outcome[w] = "value")
=============================================================================
