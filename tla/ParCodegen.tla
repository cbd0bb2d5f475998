----------------------------- MODULE ParCodegen -----------------------------
(***************************************************************************)
(* lc_codegen (codegen/codegen.c) and its worker pool (parallel.c).  Every *)
(* function of the module is compiled into its own slot of cm->funcs,      *)
(* either in a loop on the calling thread or by workers that draw the      *)
(* indexes from one interlocked counter.  The pool record lives in the     *)
(* frame of LcCg_RunParallel; lc_codegen frees cm when the pool fails.     *)
(* Function i of the code is i \in 0..nfuncs-1 here.                       *)
(***************************************************************************)
EXTENDS Integers

CONSTANTS MaxFuncs,  \* bound: functions of a module
          MaxAsked,  \* bound: -j, CLUA_JOBS or the number of processors
          MaxJobs    \* LC_CG_MAX_JOBS

ASSUME ParAssumption ==
  /\ MaxFuncs \in Nat
  /\ MaxAsked \in Nat \ {0}
  /\ MaxJobs \in Nat \ {0}

Worker == 1..MaxJobs
None == -1           \* a worker that holds no index

VARIABLES nfuncs,    \* cm->nfuncs
          jobs,      \* the clamped number of workers
          nextIdx,   \* pool.next_idx
          failFlag,  \* pool.fail_flag
          wpc,       \* where each worker is
          held,      \* the index a worker drew (the local i)
          nStarted,  \* n_started
          ok,        \* the local ok of LcCg_RunParallel
          mpc,       \* where the calling thread is
          done,      \* the slots of cm->funcs that are populated
          seqI       \* the loop counter of the sequential path

poolVars == <<nfuncs, jobs, nextIdx, failFlag, wpc, held, nStarted, ok, mpc,
              done, seqI>>

Lesser(a, b) == IF a < b THEN a ELSE b
AtLeastOne(n) == IF n < 1 THEN 1 ELSE n

(* lc_codegen_pick_jobs, and the clamps LcCg_RunParallel applies again.    *)
PickJobs(asked, n) == AtLeastOne(Lesser(asked, n))

(* Mutant: the pool does not clamp to the size of its array of handles.    *)
PoolJobsUnclamped(picked, n) == AtLeastOne(Lesser(picked, n))

PoolJobs(picked, n) == AtLeastOne(Lesser(Lesser(picked, MaxJobs), n))

PoolTypeOK ==
  /\ nfuncs \in 0..MaxFuncs
  /\ jobs \in Worker
  /\ nextIdx \in Nat
  /\ failFlag \in Nat
  /\ wpc \in [Worker -> {"absent", "pull", "check", "compile", "done"}]
  /\ held \in [Worker -> Nat \cup {None}]
  /\ nStarted \in 0..MaxJobs
  /\ ok \in BOOLEAN
  /\ mpc \in {"sequential", "spawn", "wait", "result", "module", "null"}
  /\ done \subseteq 0..(nfuncs - 1)
  /\ seqI \in 0..nfuncs

PoolInit ==
  /\ nfuncs \in 0..MaxFuncs
  /\ \E asked \in 1..MaxAsked :
       LET picked == PickJobs(asked, nfuncs) IN
       /\ jobs = PoolJobs(picked, nfuncs)
       /\ mpc = IF nfuncs = 0 THEN "module"
                ELSE IF picked > 1 THEN "spawn" ELSE "sequential"
  /\ nextIdx = 0 /\ failFlag = 0 /\ nStarted = 0 /\ seqI = 0
  /\ wpc = [w \in Worker |-> "absent"]
  /\ held = [w \in Worker |-> None]
  /\ ok = TRUE
  /\ done = {}

-----------------------------------------------------------------------------
(* The calling thread.                                                     *)

(* One turn of the sequential loop: LcCg_CompileFunctionBody or failure.   *)
SequentialCompile ==
  /\ mpc = "sequential"
  /\ seqI < nfuncs
  /\ \/ /\ done' = done \cup {seqI}
        /\ seqI' = seqI + 1
        /\ UNCHANGED mpc
     \/ /\ mpc' = "null"
        /\ UNCHANGED <<done, seqI>>
  /\ UNCHANGED <<nfuncs, jobs, nextIdx, failFlag, wpc, held, nStarted, ok>>

SequentialEnd ==
  /\ mpc = "sequential"
  /\ seqI = nfuncs
  /\ mpc' = "module"
  /\ UNCHANGED <<nfuncs, jobs, nextIdx, failFlag, wpc, held, nStarted, ok, done, seqI>>

(* _beginthreadex succeeds: the worker runs from here on. *)
Spawn ==
  /\ mpc = "spawn"
  /\ nStarted < jobs
  /\ nStarted' = nStarted + 1
  /\ wpc' = [wpc EXCEPT ![nStarted + 1] = "pull"]
  /\ UNCHANGED <<nfuncs, jobs, nextIdx, failFlag, held, ok, mpc, done, seqI>>

(* _beginthreadex fails: the pool is doomed and no more workers start.     *)
SpawnFails ==
  /\ mpc = "spawn"
  /\ nStarted < jobs
  /\ failFlag' = failFlag + 1
  /\ ok' = FALSE
  /\ mpc' = IF nStarted > 0 THEN "wait" ELSE "result"
  /\ UNCHANGED <<nfuncs, jobs, nextIdx, wpc, held, nStarted, done, seqI>>

SpawnEnd ==
  /\ mpc = "spawn"
  /\ nStarted = jobs
  /\ mpc' = "wait"
  /\ UNCHANGED <<nfuncs, jobs, nextIdx, failFlag, wpc, held, nStarted, ok, done, seqI>>

Started == 1..nStarted
AllDone == \A w \in Started : wpc[w] = "done"

(* WaitForMultipleObjects returns because every started worker ended.      *)
Join ==
  /\ mpc = "wait"
  /\ AllDone
  /\ mpc' = "result"
  /\ UNCHANGED <<nfuncs, jobs, nextIdx, failFlag, wpc, held, nStarted, ok, done, seqI>>

(* Mutant: an INFINITE wait.                                               *)
WaitForever == FALSE /\ UNCHANGED poolVars

(* It returns WAIT_TIMEOUT or WAIT_FAILED: the handles are closed, the     *)
(* workers that have not ended run on.                                     *)
WaitGivesUp ==
  /\ mpc = "wait"
  /\ ~AllDone
  /\ ok' = FALSE
  /\ mpc' = "result"
  /\ UNCHANGED <<nfuncs, jobs, nextIdx, failFlag, wpc, held, nStarted, done, seqI>>

(* The last look at fail_flag; on failure lc_codegen frees cm.             *)
Return ==
  /\ mpc = "result"
  /\ mpc' = IF ok /\ failFlag = 0 THEN "module" ELSE "null"
  /\ UNCHANGED <<nfuncs, jobs, nextIdx, failFlag, wpc, held, nStarted, ok, done, seqI>>

-----------------------------------------------------------------------------
(* LcCg_ParWorker.                                                         *)

(* Mutant: next_idx++ instead of InterlockedIncrement may lose an update.  *)
PullRacy(w) ==
  /\ wpc[w] = "pull"
  /\ nextIdx' \in {nextIdx, nextIdx + 1}
  /\ held' = [held EXCEPT ![w] = nextIdx]
  /\ wpc' = [wpc EXCEPT ![w] = IF nextIdx >= nfuncs THEN "done" ELSE "check"]
  /\ UNCHANGED <<nfuncs, jobs, failFlag, nStarted, ok, mpc, done, seqI>>

(* InterlockedIncrement - 1: the worker owns the index it drew, and ends   *)
(* when there is no such function.                                         *)
Pull(w) ==
  /\ wpc[w] = "pull"
  /\ nextIdx' = nextIdx + 1
  /\ held' = [held EXCEPT ![w] = nextIdx]
  /\ wpc' = [wpc EXCEPT ![w] = IF nextIdx >= nfuncs THEN "done" ELSE "check"]
  /\ UNCHANGED <<nfuncs, jobs, failFlag, nStarted, ok, mpc, done, seqI>>

(* The early bail: another worker, or the spawn loop, has failed.          *)
CheckFail(w) ==
  /\ wpc[w] = "check"
  /\ wpc' = [wpc EXCEPT ![w] = IF failFlag # 0 THEN "done" ELSE "compile"]
  /\ UNCHANGED <<nfuncs, jobs, nextIdx, failFlag, held, nStarted, ok, mpc, done, seqI>>

CompileSucceeds(w) ==
  /\ wpc[w] = "compile"
  /\ done' = done \cup {held[w]}
  /\ wpc' = [wpc EXCEPT ![w] = "pull"]
  /\ UNCHANGED <<nfuncs, jobs, nextIdx, failFlag, held, nStarted, ok, mpc, seqI>>

(* Mutant: the worker's exit code is the only trace of its failure.        *)
CompileFailsUnseen(w) ==
  /\ wpc[w] = "compile"
  /\ wpc' = [wpc EXCEPT ![w] = "done"]
  /\ UNCHANGED <<nfuncs, jobs, nextIdx, failFlag, held, nStarted, ok, mpc, done, seqI>>

(* LcCg_CompileFunctionBody fails: nothing is written to the slot.         *)
CompileFails(w) ==
  /\ wpc[w] = "compile"
  /\ failFlag' = failFlag + 1
  /\ wpc' = [wpc EXCEPT ![w] = "done"]
  /\ UNCHANGED <<nfuncs, jobs, nextIdx, held, nStarted, ok, mpc, done, seqI>>

Caller ==
  \/ SequentialCompile \/ SequentialEnd
  \/ Spawn \/ SpawnFails \/ SpawnEnd
  \/ Join \/ WaitGivesUp \/ Return

Work(w) == Pull(w) \/ CheckFail(w) \/ CompileSucceeds(w) \/ CompileFails(w)

PoolNext == Caller \/ \E w \in Worker : Work(w)

PoolSpec == PoolInit /\ [][PoolNext]_poolVars

(* The calling thread is scheduled, and its wait has a deadline.  Nothing  *)
(* is assumed of the workers: one may be wedged for ever.                  *)
PoolFairSpec == PoolSpec /\ WF_poolVars(Caller)

-----------------------------------------------------------------------------

Owns(w) == wpc[w] \in {"check", "compile"}
Returned == mpc \in {"module", "null"}

(* No index is ever drawn twice: two workers never compile into the same   *)
(* slot of cm->funcs and a populated slot is not written again, which is   *)
(* why LcCg_CompileFunctionBody needs no lock.                             *)
ClaimedOnce ==
  /\ \A v, w \in Worker : Owns(v) /\ Owns(w) /\ held[v] = held[w] => v = w
  /\ \A w \in Worker : Owns(w) => held[w] \notin done

SuccessMeansComplete == mpc = "module" => done = 0..(nfuncs - 1)
SuccessMeansQuiet == mpc = "module" => \A w \in Worker : wpc[w] \in {"absent", "done"}

(* A module that lc_codegen returns has every function compiled, whatever  *)
(* the number of workers, whichever of them started, failed or bailed out, *)
(* and no worker can still be touching it or the pool.                     *)
SuccessMeansFinished == SuccessMeansComplete /\ SuccessMeansQuiet

(* lc_codegen returns even when a worker never ends.                       *)
CallerReturns == <>Returned

(* The pool lives in the frame of LcCg_RunParallel and, on failure, cm is  *)
(* freed on return: no worker may run on after that (parallel.c: "Lives on *)
(* the main thread's stack across the ... sequence").                      *)
PoolOutlivesWorkers ==
  Returned => \A w \in Worker : wpc[w] \in {"absent", "done"}
=============================================================================
