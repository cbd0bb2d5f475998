---------------------------- MODULE CodegenProofs ---------------------------
(***************************************************************************)
(* Proofs about the two parts of codegen/ that work around the emitter:    *)
(* the pool (ParCodegen), for every number of functions and of workers,    *)
(* and the object cache (LcCache), for any builds, functions, versions and *)
(* capacity.                                                               *)
(***************************************************************************)
EXTENDS ParCodegen, LcCache, FiniteSetTheorems, TLAPS

(***************************************************************************)
(* ParCodegen.                                                             *)
(***************************************************************************)

Index == 0..(nfuncs - 1)

(* The workers that were started are exactly the ones not absent, and the  *)
(* sequential path starts none.                                            *)
StartedOnly ==
  /\ \A w \in Worker : wpc[w] = "absent" <=> w > nStarted
  /\ nStarted <= jobs
  /\ mpc = "sequential" => nStarted = 0 /\ done = 0..(seqI - 1)

(* An index a worker holds was drawn before, is a function, and is the     *)
(* index of nothing else.                                                  *)
Drawn ==
  \A w \in Worker :
    Owns(w) => held[w] \in Index /\ held[w] < nextIdx

(* Every populated slot of the pool was drawn.                             *)
DoneDrawn ==
  mpc = "spawn" \/ nStarted > 0 => \A i \in done : i < nextIdx

(* Until a failure is published, every index drawn is either compiled or   *)
(* in the hands of a worker ...                                            *)
NothingLost ==
  failFlag = 0 =>
    \A i \in Index :
      i < nextIdx /\ (mpc = "spawn" \/ nStarted > 0)
        => i \in done \/ \E w \in Worker : Owns(w) /\ held[w] = i

(* ... and a worker only ends when there is nothing left to draw.          *)
EndsAtTheEnd ==
  failFlag = 0 => \A w \in Worker : wpc[w] = "done" => nextIdx >= nfuncs

(* The calling thread still believes in success only if all the workers it *)
(* meant to start were started and, past the wait, have ended.             *)
Believes ==
  /\ mpc \in {"wait", "result"} /\ ok => nStarted = jobs
  /\ mpc = "result" /\ ok => AllDone

PoolInv ==
  /\ PoolTypeOK
  /\ StartedOnly
  /\ Drawn
  /\ ClaimedOnce
  /\ DoneDrawn
  /\ NothingLost
  /\ EndsAtTheEnd
  /\ Believes
  /\ SuccessMeansComplete
  /\ SuccessMeansQuiet

(* The clamps that bound "jobs" make every started worker's handle fit     *)
(* the array of LC_CG_MAX_JOBS.                                            *)
LEMMA InitPoolTypeOK == PoolInit => PoolTypeOK
  BY ParAssumption
  DEF PoolInit, PoolTypeOK, Worker, None, PickJobs, PoolJobs, AtLeastOne, Lesser

(* One lemma per action: it preserves every part of the invariant.         *)
LEMMA SequentialCompileStep == ASSUME PoolInv, SequentialCompile PROVE PoolInv'
<1> USE ParAssumption DEF PoolInv, PoolTypeOK, Worker, SequentialCompile
<1>1. PoolTypeOK'
  <2>1. CASE done' = done \cup {seqI} /\ seqI' = seqI + 1 /\ UNCHANGED mpc
    BY <2>1 DEF None
  <2>2. CASE mpc' = "null" /\ UNCHANGED <<done, seqI>>
    BY <2>2 DEF None
  <2> QED
    BY <2>1, <2>2
<1>2. StartedOnly'
  <2>1. CASE done' = done \cup {seqI} /\ seqI' = seqI + 1 /\ UNCHANGED mpc
    <3>1. done' = 0..(seqI' - 1)
      BY <2>1 DEF StartedOnly
    <3> QED
      BY <2>1, <3>1 DEF StartedOnly
  <2>2. CASE mpc' = "null" /\ UNCHANGED <<done, seqI>>
    BY <2>2 DEF StartedOnly
  <2> QED
    BY <2>1, <2>2
<1>3. Drawn'
  BY DEF Drawn, Owns, Index
<1>4. ClaimedOnce'
  BY DEF ClaimedOnce, Owns, Drawn, Index, DoneDrawn, StartedOnly
<1>5. DoneDrawn'
  BY DEF DoneDrawn, Owns, Drawn, Index, StartedOnly
<1>6. NothingLost'
  BY DEF NothingLost, Owns, Drawn, Index, DoneDrawn, StartedOnly
<1>7. EndsAtTheEnd'
  BY DEF EndsAtTheEnd
<1>8. Believes'
  BY DEF Believes, AllDone, Started, StartedOnly
<1>9. SuccessMeansComplete'
  BY DEF SuccessMeansComplete
<1>10. SuccessMeansQuiet'
  BY DEF SuccessMeansQuiet
<1> QED
  BY <1>1, <1>2, <1>3, <1>4, <1>5, <1>6, <1>7, <1>8, <1>9, <1>10

(* The sequential path reports.                                            *)
LEMMA SequentialEndStep == ASSUME PoolInv, SequentialEnd PROVE PoolInv'
<1> USE ParAssumption DEF PoolInv, PoolTypeOK, Worker, SequentialEnd
<1>1. PoolTypeOK'
  BY DEF None
<1>2. StartedOnly'
  BY DEF StartedOnly
<1>3. Drawn'
  BY DEF Drawn, Owns, Index
<1>4. ClaimedOnce'
  BY DEF ClaimedOnce, Owns, Drawn, Index, DoneDrawn, StartedOnly
<1>5. DoneDrawn'
  BY DEF DoneDrawn, Owns, Drawn, Index, StartedOnly
<1>6. NothingLost'
  BY DEF NothingLost, Owns, Drawn, Index, DoneDrawn, StartedOnly
<1>7. EndsAtTheEnd'
  BY DEF EndsAtTheEnd
<1>8. Believes'
  BY DEF Believes, AllDone, Started, StartedOnly
<1>9. SuccessMeansComplete'
  BY DEF SuccessMeansComplete, StartedOnly
<1>10. SuccessMeansQuiet'
  BY DEF SuccessMeansQuiet, StartedOnly
<1> QED
  BY <1>1, <1>2, <1>3, <1>4, <1>5, <1>6, <1>7, <1>8, <1>9, <1>10

(* A worker thread starts.                                                 *)
LEMMA SpawnStep == ASSUME PoolInv, Spawn PROVE PoolInv'
<1> USE ParAssumption DEF PoolInv, PoolTypeOK, Worker, Spawn
<1>1. PoolTypeOK'
  BY DEF None
<1>2. StartedOnly'
  BY DEF StartedOnly
<1>3. Drawn'
  BY DEF Drawn, Owns, Index
<1>4. ClaimedOnce'
  BY DEF ClaimedOnce, Owns, Drawn, Index, DoneDrawn, StartedOnly
<1>5. DoneDrawn'
  BY DEF DoneDrawn, Owns, Drawn, Index, StartedOnly
<1>6. NothingLost'
  BY DEF NothingLost, Owns, Drawn, Index, DoneDrawn, StartedOnly
<1>7. EndsAtTheEnd'
  BY DEF EndsAtTheEnd
<1>8. Believes'
  BY DEF Believes, AllDone, Started, StartedOnly
<1>9. SuccessMeansComplete'
  BY DEF SuccessMeansComplete
<1>10. SuccessMeansQuiet'
  BY DEF SuccessMeansQuiet
<1> QED
  BY <1>1, <1>2, <1>3, <1>4, <1>5, <1>6, <1>7, <1>8, <1>9, <1>10

(* A thread cannot be created: the fail flag goes up.                      *)
LEMMA SpawnFailsStep == ASSUME PoolInv, SpawnFails PROVE PoolInv'
<1> USE ParAssumption DEF PoolInv, PoolTypeOK, Worker, SpawnFails
<1>1. PoolTypeOK'
  <2>1. failFlag' \in Nat
    OBVIOUS
  <2>2. ok' \in BOOLEAN
    BY Zenon
  <2>3. mpc' \in {"wait", "result"}
    OBVIOUS
  <2>4. /\ UNCHANGED <<nfuncs, jobs, nextIdx, wpc, held, nStarted, done, seqI>>
    OBVIOUS
  <2> HIDE DEF SpawnFails
  <2> QED
    BY <2>1, <2>2, <2>3, <2>4 DEF None
<1>2. StartedOnly'
  BY DEF StartedOnly
<1>3. Drawn'
  BY DEF Drawn, Owns, Index
<1>4. ClaimedOnce'
  BY DEF ClaimedOnce, Owns, Drawn, Index, DoneDrawn, StartedOnly
<1>5. DoneDrawn'
  BY DEF DoneDrawn, Owns, Drawn, Index, StartedOnly
<1>6. NothingLost'
  BY DEF NothingLost, Owns, Drawn, Index, DoneDrawn, StartedOnly
<1>7. EndsAtTheEnd'
  BY DEF EndsAtTheEnd
<1>8. Believes'
  BY DEF Believes, AllDone, Started, StartedOnly
<1>9. SuccessMeansComplete'
  BY DEF SuccessMeansComplete
<1>10. SuccessMeansQuiet'
  BY DEF SuccessMeansQuiet
<1> QED
  BY <1>1, <1>2, <1>3, <1>4, <1>5, <1>6, <1>7, <1>8, <1>9, <1>10

(* The caller begins to wait.                                              *)
LEMMA SpawnEndStep == ASSUME PoolInv, SpawnEnd PROVE PoolInv'
<1> USE ParAssumption DEF PoolInv, PoolTypeOK, Worker, SpawnEnd
<1>1. PoolTypeOK'
  BY DEF None
<1>2. StartedOnly'
  BY DEF StartedOnly
<1>3. Drawn'
  BY DEF Drawn, Owns, Index
<1>4. ClaimedOnce'
  BY DEF ClaimedOnce, Owns, Drawn, Index, DoneDrawn, StartedOnly
<1>5. DoneDrawn'
  BY DEF DoneDrawn, Owns, Drawn, Index, StartedOnly
<1>6. NothingLost'
  BY DEF NothingLost, Owns, Drawn, Index, DoneDrawn, StartedOnly
<1>7. EndsAtTheEnd'
  BY DEF EndsAtTheEnd
<1>8. Believes'
  BY DEF Believes, AllDone, Started, StartedOnly
<1>9. SuccessMeansComplete'
  BY DEF SuccessMeansComplete
<1>10. SuccessMeansQuiet'
  BY DEF SuccessMeansQuiet
<1> QED
  BY <1>1, <1>2, <1>3, <1>4, <1>5, <1>6, <1>7, <1>8, <1>9, <1>10

(* All workers have ended.                                                 *)
LEMMA JoinStep == ASSUME PoolInv, Join PROVE PoolInv'
<1> USE ParAssumption DEF PoolInv, PoolTypeOK, Worker, Join
<1>1. PoolTypeOK'
  BY DEF None
<1>2. StartedOnly'
  BY DEF StartedOnly
<1>3. Drawn'
  BY DEF Drawn, Owns, Index
<1>4. ClaimedOnce'
  BY DEF ClaimedOnce, Owns, Drawn, Index, DoneDrawn, StartedOnly
<1>5. DoneDrawn'
  BY DEF DoneDrawn, Owns, Drawn, Index, StartedOnly
<1>6. NothingLost'
  BY DEF NothingLost, Owns, Drawn, Index, DoneDrawn, StartedOnly
<1>7. EndsAtTheEnd'
  BY DEF EndsAtTheEnd
<1>8. Believes'
  BY DEF Believes, AllDone, Started, StartedOnly
<1>9. SuccessMeansComplete'
  BY DEF SuccessMeansComplete
<1>10. SuccessMeansQuiet'
  BY DEF SuccessMeansQuiet
<1> QED
  BY <1>1, <1>2, <1>3, <1>4, <1>5, <1>6, <1>7, <1>8, <1>9, <1>10

(* The wait runs out.                                                      *)
LEMMA WaitGivesUpStep == ASSUME PoolInv, WaitGivesUp PROVE PoolInv'
<1> USE ParAssumption DEF PoolInv, PoolTypeOK, Worker, WaitGivesUp
<1>1. PoolTypeOK'
  BY DEF None
<1>2. StartedOnly'
  BY DEF StartedOnly
<1>3. Drawn'
  BY DEF Drawn, Owns, Index
<1>4. ClaimedOnce'
  BY DEF ClaimedOnce, Owns, Drawn, Index, DoneDrawn, StartedOnly
<1>5. DoneDrawn'
  BY DEF DoneDrawn, Owns, Drawn, Index, StartedOnly
<1>6. NothingLost'
  BY DEF NothingLost, Owns, Drawn, Index, DoneDrawn, StartedOnly
<1>7. EndsAtTheEnd'
  BY DEF EndsAtTheEnd
<1>8. Believes'
  BY DEF Believes, AllDone, Started, StartedOnly
<1>9. SuccessMeansComplete'
  BY DEF SuccessMeansComplete
<1>10. SuccessMeansQuiet'
  BY DEF SuccessMeansQuiet
<1> QED
  BY <1>1, <1>2, <1>3, <1>4, <1>5, <1>6, <1>7, <1>8, <1>9, <1>10

(* lc_codegen looks at the flag a last time and returns.                   *)
LEMMA ReturnStep == ASSUME PoolInv, Return PROVE PoolInv'
<1> USE ParAssumption DEF PoolInv, PoolTypeOK, Worker, Return
<1>1. PoolTypeOK'
  BY DEF None
<1>2. StartedOnly'
  BY DEF StartedOnly
<1>3. Drawn'
  BY DEF Drawn, Owns, Index
<1>4. ClaimedOnce'
  BY DEF ClaimedOnce, Owns, Drawn, Index, DoneDrawn, StartedOnly
<1>5. DoneDrawn'
  BY DEF DoneDrawn, Owns, Drawn, Index, StartedOnly
<1>6. NothingLost'
  BY DEF NothingLost, Owns, Drawn, Index, DoneDrawn, StartedOnly
<1>7. EndsAtTheEnd'
  BY DEF EndsAtTheEnd
<1>8. Believes'
  BY DEF Believes, AllDone, Started, StartedOnly
<1>9. SuccessMeansComplete'
  <2> SUFFICES ASSUME mpc' = "module" PROVE done = Index
    BY DEF SuccessMeansComplete, Index
  <2>1. ok /\ failFlag = 0 /\ nStarted = jobs /\ AllDone
    BY DEF Believes
  <2>2. wpc[1] = "done" /\ nStarted > 0
    BY <2>1 DEF AllDone, Started
  <2>3. nextIdx >= nfuncs
    BY <2>1, <2>2 DEF EndsAtTheEnd
  <2>4. \A w \in Worker : ~Owns(w)
    BY <2>1 DEF AllDone, Started, Owns, StartedOnly
  <2>5. \A i \in Index : i \in done
    BY <2>1, <2>2, <2>3, <2>4 DEF NothingLost, Index
  <2> QED
    BY <2>5 DEF Index
<1>10. SuccessMeansQuiet'
  <2> SUFFICES ASSUME mpc' = "module", NEW w \in Worker
               PROVE  wpc[w] \in {"absent", "done"}
    BY DEF SuccessMeansQuiet
  <2>1. nStarted = jobs /\ AllDone
    BY DEF Believes
  <2> QED
    BY <2>1 DEF AllDone, Started, StartedOnly
<1> QED
  BY <1>1, <1>2, <1>3, <1>4, <1>5, <1>6, <1>7, <1>8, <1>9, <1>10

(* A worker draws an index.                                                *)
LEMMA PullStep == ASSUME PoolInv, NEW w \in Worker, Pull(w) PROVE PoolInv'
<1> USE ParAssumption DEF PoolInv, PoolTypeOK, Worker, Pull
<1>1. PoolTypeOK'
  BY DEF None
<1>2. StartedOnly'
  BY DEF StartedOnly
<1>3. Drawn'
  BY DEF Drawn, Owns, Index
<1>4. ClaimedOnce'
  BY DEF ClaimedOnce, Owns, Drawn, Index, DoneDrawn, StartedOnly
<1>5. DoneDrawn'
  BY DEF DoneDrawn, Owns, Drawn, Index, StartedOnly
<1>6. NothingLost'
  BY DEF NothingLost, Owns, Drawn, Index, DoneDrawn, StartedOnly
<1>7. EndsAtTheEnd'
  BY DEF EndsAtTheEnd
<1>8. Believes'
  BY DEF Believes, AllDone, Started, StartedOnly
<1>9. SuccessMeansComplete'
  BY DEF SuccessMeansComplete
<1>10. SuccessMeansQuiet'
  BY DEF SuccessMeansQuiet
<1> QED
  BY <1>1, <1>2, <1>3, <1>4, <1>5, <1>6, <1>7, <1>8, <1>9, <1>10

(* It stops if somebody failed.                                            *)
LEMMA CheckFailStep == ASSUME PoolInv, NEW w \in Worker, CheckFail(w) PROVE PoolInv'
<1> USE ParAssumption DEF PoolInv, PoolTypeOK, Worker, CheckFail
<1>1. PoolTypeOK'
  BY DEF None
<1>2. StartedOnly'
  BY DEF StartedOnly
<1>3. Drawn'
  BY DEF Drawn, Owns, Index
<1>4. ClaimedOnce'
  BY DEF ClaimedOnce, Owns, Drawn, Index, DoneDrawn, StartedOnly
<1>5. DoneDrawn'
  BY DEF DoneDrawn, Owns, Drawn, Index, StartedOnly
<1>6. NothingLost'
  BY DEF NothingLost, Owns, Drawn, Index, DoneDrawn, StartedOnly
<1>7. EndsAtTheEnd'
  BY DEF EndsAtTheEnd
<1>8. Believes'
  BY DEF Believes, AllDone, Started, StartedOnly
<1>9. SuccessMeansComplete'
  BY DEF SuccessMeansComplete
<1>10. SuccessMeansQuiet'
  BY DEF SuccessMeansQuiet
<1> QED
  BY <1>1, <1>2, <1>3, <1>4, <1>5, <1>6, <1>7, <1>8, <1>9, <1>10

(* It fills its slot.                                                      *)
LEMMA CompileSucceedsStep == ASSUME PoolInv, NEW w \in Worker, CompileSucceeds(w) PROVE PoolInv'
<1> USE ParAssumption DEF PoolInv, PoolTypeOK, Worker, CompileSucceeds
<1>1. PoolTypeOK'
  BY DEF Drawn, Owns, Index, None
<1>2. StartedOnly'
  BY DEF StartedOnly
<1>3. Drawn'
  BY DEF Drawn, Owns, Index
<1>4. ClaimedOnce'
  BY DEF ClaimedOnce, Owns, Drawn, Index, DoneDrawn, StartedOnly
<1>5. DoneDrawn'
  BY DEF DoneDrawn, Owns, Drawn, Index, StartedOnly
<1>6. NothingLost'
  BY DEF NothingLost, Owns, Drawn, Index, DoneDrawn, StartedOnly
<1>7. EndsAtTheEnd'
  BY DEF EndsAtTheEnd
<1>8. Believes'
  BY DEF Believes, AllDone, Started, StartedOnly
<1>9. SuccessMeansComplete'
  BY DEF SuccessMeansComplete, SuccessMeansQuiet
<1>10. SuccessMeansQuiet'
  BY DEF SuccessMeansQuiet
<1> QED
  BY <1>1, <1>2, <1>3, <1>4, <1>5, <1>6, <1>7, <1>8, <1>9, <1>10

(* It raises the flag.                                                     *)
LEMMA CompileFailsStep == ASSUME PoolInv, NEW w \in Worker, CompileFails(w) PROVE PoolInv'
<1> USE ParAssumption DEF PoolInv, PoolTypeOK, Worker, CompileFails
<1>1. PoolTypeOK'
  BY DEF None
<1>2. StartedOnly'
  BY DEF StartedOnly
<1>3. Drawn'
  BY DEF Drawn, Owns, Index
<1>4. ClaimedOnce'
  BY DEF ClaimedOnce, Owns, Drawn, Index, DoneDrawn, StartedOnly
<1>5. DoneDrawn'
  BY DEF DoneDrawn, Owns, Drawn, Index, StartedOnly
<1>6. NothingLost'
  BY DEF NothingLost, Owns, Drawn, Index, DoneDrawn, StartedOnly
<1>7. EndsAtTheEnd'
  BY DEF EndsAtTheEnd
<1>8. Believes'
  BY DEF Believes, AllDone, Started, StartedOnly
<1>9. SuccessMeansComplete'
  BY DEF SuccessMeansComplete
<1>10. SuccessMeansQuiet'
  BY DEF SuccessMeansQuiet
<1> QED
  BY <1>1, <1>2, <1>3, <1>4, <1>5, <1>6, <1>7, <1>8, <1>9, <1>10

(* The invariant holds at first.                                           *)
LEMMA InitPoolInv == PoolInit => PoolInv
<1> SUFFICES ASSUME PoolInit PROVE PoolInv
  OBVIOUS
<1> USE ParAssumption DEF PoolInit
<1>1. PoolTypeOK
  BY InitPoolTypeOK
<1>2. PICK asked \in 1..MaxAsked :
        mpc = IF nfuncs = 0 THEN "module"
              ELSE IF PickJobs(asked, nfuncs) > 1 THEN "spawn" ELSE "sequential"
  OBVIOUS
<1>3. mpc \in {"module", "spawn", "sequential"} /\ (mpc = "module" => nfuncs = 0)
  BY <1>2
<1>4. StartedOnly /\ Drawn /\ ClaimedOnce /\ DoneDrawn
  BY <1>1, <1>3 DEF StartedOnly, Drawn, ClaimedOnce, DoneDrawn, Owns, Worker, PoolTypeOK
<1>5. NothingLost /\ EndsAtTheEnd /\ Believes
  BY <1>1, <1>3 DEF NothingLost, EndsAtTheEnd, Believes, Index, PoolTypeOK
<1>6. SuccessMeansComplete /\ SuccessMeansQuiet
  BY <1>3 DEF SuccessMeansComplete, SuccessMeansQuiet
<1> QED
  BY <1>1, <1>4, <1>5, <1>6 DEF PoolInv

(* Every step keeps it.                                                    *)
LEMMA NextStep == PoolInv /\ [PoolNext]_poolVars => PoolInv'
<1> SUFFICES ASSUME PoolInv, [PoolNext]_poolVars PROVE PoolInv'
  OBVIOUS
<1>1. CASE UNCHANGED poolVars
  BY <1>1 DEF poolVars, PoolInv, PoolTypeOK, StartedOnly, Drawn, ClaimedOnce, DoneDrawn,
     NothingLost, EndsAtTheEnd, Believes, SuccessMeansComplete,
     SuccessMeansQuiet, Owns, Index, AllDone, Started
<1>2. CASE Caller
  BY <1>2, SequentialCompileStep, SequentialEndStep, SpawnStep, SpawnFailsStep,
     SpawnEndStep, JoinStep, WaitGivesUpStep, ReturnStep DEF Caller
<1>3. ASSUME NEW w \in Worker, Work(w) PROVE PoolInv'
  BY <1>3, PullStep, CheckFailStep, CompileSucceedsStep, CompileFailsStep DEF Work
<1> QED
  BY <1>1, <1>2, <1>3 DEF PoolNext

(* It holds always.                                                        *)
LEMMA SpecPoolInv == PoolSpec => []PoolInv
  BY InitPoolInv, NextStep, PTL DEF PoolSpec

(* Type correctness of the driver loop, the pool and its workers: a worker *)
(* never holds a handle slot beyond LC_CG_MAX_JOBS (LcCg_RunParallel).     *)
THEOREM SpecPoolTypeOK == PoolSpec => []PoolTypeOK
  BY SpecPoolInv, PTL DEF PoolInv

(* For any number of functions and workers, two workers never compile into *)
(* one slot of cm->funcs (LcCg_ParWorker's interlocked counter).           *)
THEOREM SpecClaimedOnce == PoolSpec => []ClaimedOnce
  BY SpecPoolInv, PTL DEF PoolInv

(* A module returned by lc_codegen is complete, whatever failed, and no    *)
(* worker is left running.                                                 *)
THEOREM SpecSuccessMeansFinished == PoolSpec => []SuccessMeansFinished
  BY SpecPoolInv, PTL DEF PoolInv, SuccessMeansFinished

(***************************************************************************)
(* LcCache.                                                                *)
(***************************************************************************)

(* What a job has compiled or restored, and staged, is its own; it has a   *)
(* stage file exactly while it stores.                                     *)
Own(b, f) ==
  /\ pc[b][f] \in {"store", "write", "rename", "done"} => result[b][f].inputs = <<f, version[b][f]>>
  /\ IF pc[b][f] \in {"write", "rename"}
       THEN stage[<<b, f>>].inputs = <<f, version[b][f]>>
       ELSE stage[<<b, f>>] = NoFile
JobsOwn == \A b \in Build, f \in Func : Own(b, f)

(* An entry was compiled from what its name says.                          *)
EntriesOwn == \A k \in Present : entry[k].inputs = <<k[1], k[2]>>

(* A build evicts only after its last function.                            *)
EvictsLast ==
  \A b \in Build : bpc[b] \in {"evict", "ended"} => \A f \in Func : pc[b][f] = "done"

(* Only finitely many entries were ever stored.                            *)
FiniteEntries == IsFiniteSet(Present)

IndInv == TypeOK /\ JobsOwn /\ EntriesOwn /\ EvictsLast /\ FiniteEntries

-----------------------------------------------------------------------------
(* Data                                                                    *)

(* No file of a build is the missing one.                                  *)
LEMMA FileNotMissing ==
  /\ \A x \in File : x # NoFile
  /\ \A x \in File \cup {NoFile} : x.whole => x \in File
  /\ \A x \in File \cup {NoFile} : \A f, v : x.inputs = <<f, v>> => x \in File
<1>1. ASSUME NEW x \in File PROVE x # NoFile
  <2>1. x.inputs \in Func \X Version
    BY DEF File
  <2>2. NoFile.inputs = <<>>
    BY DEF NoFile
  <2> QED
    BY <2>1, <2>2
<1>2. NoFile.whole = FALSE /\ NoFile.inputs = <<>>
  BY DEF NoFile
<1>3. \A f, v : <<f, v>> # <<>>
  OBVIOUS
<1> HIDE DEF NoFile, File
<1> QED
  BY <1>1, <1>2, <1>3

(* A job's place is a place, and moves alone.                              *)
LEMMA Moves ==
  ASSUME TypeOK, NEW b \in Build, NEW f \in Func,
         NEW w \in {"open", "read", "compile", "store", "write", "rename", "done"}, Goes(b, f, w)
  PROVE  /\ pc' \in [Build -> [Func -> {"open", "read", "compile", "store", "write", "rename", "done"}]]
         /\ pc'[b][f] = w
         /\ \A c \in Build, g \in Func : c # b \/ g # f => pc'[c][g] = pc[c][g]
  BY DEF TypeOK, Goes

(* So is its result.                                                       *)
LEMMA Results ==
  ASSUME TypeOK, NEW b \in Build, NEW f \in Func,
         NEW r \in [inputs : Func \X Version, lines : BOOLEAN], result' = [result EXCEPT ![b][f] = r]
  PROVE  /\ result' \in [Build -> [Func -> [inputs : Func \X Version, lines : BOOLEAN] \cup {NotYet}]]
         /\ result'[b][f] = r
         /\ \A c \in Build, g \in Func : c # b \/ g # f => result'[c][g] = result[c][g]
  BY DEF TypeOK

(* And its stage file.                                                     *)
LEMMA StageFiles ==
  ASSUME TypeOK, NEW b \in Build, NEW f \in Func,
         NEW x \in File \cup {NoFile}, stage' = [stage EXCEPT ![<<b, f>>] = x]
  PROVE  /\ stage' \in [Job -> File \cup {NoFile}]
         /\ stage'[<<b, f>>] = x
         /\ \A c \in Build, g \in Func : c # b \/ g # f => stage'[<<c, g>>] = stage[<<c, g>>]
  BY DEF TypeOK, Job

(* A compiled or restored function's key and inputs are well-formed.       *)
LEMMA JobTypes ==
  ASSUME TypeOK, NEW b \in Build, NEW f \in Func
  PROVE  /\ KeyOf(b, f) \in Key /\ <<f, version[b][f]>> \in Func \X Version
         /\ pc[b][f] \in {"open", "read", "compile", "store", "write", "rename", "done"}
         /\ debug[b] \in BOOLEAN /\ <<b, f>> \in Job /\ stage[<<b, f>>] \in File \cup {NoFile}
         /\ entry[KeyOf(b, f)] \in File \cup {NoFile}
<1>1. debug[b] \in BOOLEAN /\ version[b][f] \in Version
  BY LcCacheAssumption DEF TypeOK
<1>2. KeyOf(b, f) \in Key /\ <<b, f>> \in Job
  BY <1>1 DEF KeyOf, Key, Job
<1>3. pc[b][f] \in {"open", "read", "compile", "store", "write", "rename", "done"}
  BY DEF TypeOK
<1> QED
  BY <1>1, <1>2, <1>3 DEF TypeOK
-----------------------------------------------------------------------------
(* Steps of a job                                                          *)

(* A step of one job concerns no other, and comes before the eviction.     *)
LEMMA OthersKeep ==
  ASSUME IndInv, NEW b \in Build, NEW f \in Func, bpc[b] = "codegen",
         UNCHANGED <<version, bpc>>,
         \A c \in Build, g \in Func : c # b \/ g # f =>
           pc'[c][g] = pc[c][g] /\ result'[c][g] = result[c][g] /\ stage'[<<c, g>>] = stage[<<c, g>>],
         Own(b, f)'
  PROVE  JobsOwn' /\ EvictsLast'
<1>1. ASSUME NEW c \in Build, NEW g \in Func, c # b \/ g # f PROVE Own(c, g)'
  <2>1. pc'[c][g] = pc[c][g] /\ result'[c][g] = result[c][g] /\ stage'[<<c, g>>] = stage[<<c, g>>]
    BY <1>1
  <2>2. Own(c, g)
    BY DEF IndInv, JobsOwn
  <2>3. version' = version
    OBVIOUS
  <2>4. pc'[c][g] \in {"store", "write", "rename", "done"} => result'[c][g].inputs = <<g, version'[c][g]>>
    BY <2>1, <2>2, <2>3 DEF Own
  <2>5. IF pc'[c][g] \in {"write", "rename"}
          THEN stage'[<<c, g>>].inputs = <<g, version'[c][g]>>
          ELSE stage'[<<c, g>>] = NoFile
    BY <2>1, <2>2, <2>3 DEF Own
  <2>6. NoFile' = NoFile
    BY DEF NoFile
  <2> QED
    BY ONLY <2>4, <2>5, <2>6 DEF Own
<1>2. JobsOwn'
  BY <1>1 DEF JobsOwn
<1>3. ASSUME NEW c \in Build, bpc'[c] \in {"evict", "ended"}, NEW g \in Func PROVE pc'[c][g] = "done"
  <2>1. c # b /\ bpc[c] \in {"evict", "ended"}
    BY <1>3
  <2>2. pc[c][g] = "done"
    BY <2>1 DEF IndInv, EvictsLast
  <2> QED
    BY <2>1, <2>2
<1>4. EvictsLast'
  BY <1>3 DEF EvictsLast
<1> QED
  BY <1>2, <1>4

(* As long as no entry changes.                                            *)
LEMMA EntriesKeep == ASSUME IndInv, UNCHANGED entry PROVE EntriesOwn' /\ FiniteEntries'
<1>1. Present' = Present
  BY DEF Present, Key
<1> QED
  BY <1>1 DEF IndInv, EntriesOwn, FiniteEntries

(* LcCache_TryLoad opens an entry or finds none.                           *)
LEMMA OpenKeeps ==
  ASSUME IndInv, NEW b \in Build, NEW f \in Func, Open(b, f) PROVE IndInv'
<1>1. PICK w \in {"compile", "read"} : Goes(b, f, w)
  BY DEF Open
<1>2. /\ pc' \in [Build -> [Func -> {"open", "read", "compile", "store", "write", "rename", "done"}]]
      /\ pc'[b][f] = w
      /\ \A c \in Build, g \in Func : c # b \/ g # f => pc'[c][g] = pc[c][g]
  BY <1>1, Moves DEF IndInv
<1>3. UNCHANGED <<version, debug, result, entry, stage, clock, bpc, victims, total>>
  BY DEF Open
<1>4. TypeOK'
  BY <1>2, <1>3 DEF IndInv, TypeOK, Key, Job, File, NoFile, NotYet
<1>5. Own(b, f)'
  BY <1>2, <1>3 DEF IndInv, JobsOwn, Own, Open, At
<1>6. JobsOwn' /\ EvictsLast'
  BY <1>2, <1>3, <1>5, OthersKeep DEF Open, At
<1> QED
  BY <1>3, <1>4, <1>6, EntriesKeep DEF IndInv

(* It restores a whole entry, whose inputs are those in its name, and      *)
(* takes a truncated one for a miss.                                       *)
LEMMA LoadKeeps ==
  ASSUME IndInv, NEW b \in Build, NEW f \in Func, Load(b, f) PROVE IndInv'
<1> DEFINE e == entry[KeyOf(b, f)]
<1>0. UNCHANGED <<version, debug, entry, stage, clock, bpc, victims, total>> /\ At(b, f, "read")
  BY DEF Load
<1>1. CASE e.whole
  <2>1. Goes(b, f, "done") /\ result' = [result EXCEPT ![b][f] = [inputs |-> e.inputs, lines |-> FALSE]]
    BY <1>1 DEF Load
  <2>2. /\ pc' \in [Build -> [Func -> {"open", "read", "compile", "store", "write", "rename", "done"}]]
        /\ pc'[b][f] = "done"
        /\ \A c \in Build, g \in Func : c # b \/ g # f => pc'[c][g] = pc[c][g]
    BY <2>1, Moves DEF IndInv
  <2>3. e \in File
    BY <1>1, JobTypes, FileNotMissing DEF IndInv
  <2>4. [inputs |-> e.inputs, lines |-> FALSE] \in [inputs : Func \X Version, lines : BOOLEAN]
    BY <2>3 DEF File
  <2>5. /\ result' \in [Build -> [Func -> [inputs : Func \X Version, lines : BOOLEAN] \cup {NotYet}]]
        /\ result'[b][f].inputs = e.inputs
        /\ \A c \in Build, g \in Func : c # b \/ g # f => result'[c][g] = result[c][g]
    <3> DEFINE r == [inputs |-> e.inputs, lines |-> FALSE]
               R == [inputs : Func \X Version, lines : BOOLEAN]
    <3>1. r \in R /\ r.inputs = e.inputs
      BY <2>4
    <3>2. result' = [result EXCEPT ![b][f] = r]
      BY <2>1
    <3>3. result \in [Build -> [Func -> R \cup {NotYet}]] /\ b \in Build /\ f \in Func
      BY DEF IndInv, TypeOK
    <3> HIDE DEF r, e, R
    <3>4. /\ result' \in [Build -> [Func -> R \cup {NotYet}]] /\ result'[b][f] = r
          /\ \A c \in Build, g \in Func : c # b \/ g # f => result'[c][g] = result[c][g]
      BY ONLY <3>1, <3>2, <3>3
    <3> QED
      BY ONLY <3>1, <3>4 DEF R
  <2>6. KeyOf(b, f) \in Present
    BY <2>3, JobTypes, FileNotMissing DEF Present, IndInv
  <2>7. e.inputs = <<f, version[b][f]>>
    BY <2>6 DEF IndInv, EntriesOwn, KeyOf
  <2>8. TypeOK'
    BY <1>0, <2>2, <2>5 DEF IndInv, TypeOK, Key, Job, File, NoFile, NotYet
  <2>9. Own(b, f)'
    <3> HIDE DEF e
    <3>1. result'[b][f].inputs = <<f, version[b][f]>>
      BY <2>5, <2>7
    <3>2. stage[<<b, f>>] = NoFile
      BY <1>0 DEF IndInv, JobsOwn, Own, At
    <3> QED
      BY <1>0, <2>2, <3>1, <3>2 DEF Own, NoFile
  <2>10. JobsOwn' /\ EvictsLast'
    BY <1>0, <2>2, <2>5, <2>9, OthersKeep DEF At
  <2> QED
    BY <1>0, <2>8, <2>10, EntriesKeep DEF IndInv
<1>2. CASE ~e.whole
  <2>1. Goes(b, f, "compile") /\ result' = result
    BY <1>2 DEF Load
  <2>2. /\ pc' \in [Build -> [Func -> {"open", "read", "compile", "store", "write", "rename", "done"}]]
        /\ pc'[b][f] = "compile"
        /\ \A c \in Build, g \in Func : c # b \/ g # f => pc'[c][g] = pc[c][g]
    BY <2>1, Moves DEF IndInv
  <2>3. TypeOK'
    BY <1>0, <2>1, <2>2 DEF IndInv, TypeOK, Key, Job, File, NoFile, NotYet
  <2>4. Own(b, f)'
    BY <1>0, <2>2 DEF IndInv, JobsOwn, Own, At
  <2>5. JobsOwn' /\ EvictsLast'
    BY <1>0, <2>1, <2>2, <2>4, OthersKeep DEF At
  <2> QED
    BY <1>0, <2>3, <2>5, EntriesKeep DEF IndInv
<1> QED
  BY <1>1, <1>2

(* The emitter compiles the build's own version.                           *)
LEMMA CompileKeeps ==
  ASSUME IndInv, NEW b \in Build, NEW f \in Func, Compile(b, f) PROVE IndInv'
<1>0. UNCHANGED <<version, debug, entry, stage, clock, bpc, victims, total>> /\ At(b, f, "compile")
  BY DEF Compile
<1>1. PICK w \in {"done", "store"} : Goes(b, f, w)
  BY DEF Compile
<1>2. /\ pc' \in [Build -> [Func -> {"open", "read", "compile", "store", "write", "rename", "done"}]]
      /\ pc'[b][f] = w
      /\ \A c \in Build, g \in Func : c # b \/ g # f => pc'[c][g] = pc[c][g]
  BY <1>1, Moves DEF IndInv
<1>3. Fresh(b, f) \in [inputs : Func \X Version, lines : BOOLEAN]
      /\ Fresh(b, f).inputs = <<f, version[b][f]>>
  BY JobTypes DEF Fresh, IndInv
<1>4. /\ result' \in [Build -> [Func -> [inputs : Func \X Version, lines : BOOLEAN] \cup {NotYet}]]
      /\ result'[b][f] = Fresh(b, f)
      /\ \A c \in Build, g \in Func : c # b \/ g # f => result'[c][g] = result[c][g]
  BY <1>3, Results DEF IndInv, Compile
<1>5. TypeOK'
  BY <1>0, <1>2, <1>4 DEF IndInv, TypeOK, Key, Job, File, NoFile, NotYet
<1>6. Own(b, f)'
  BY <1>0, <1>2, <1>3, <1>4 DEF IndInv, JobsOwn, Own, At
<1>7. JobsOwn' /\ EvictsLast'
  BY <1>0, <1>2, <1>4, <1>6, OthersKeep DEF At
<1> QED
  BY <1>0, <1>5, <1>7, EntriesKeep DEF IndInv
(* A stage file has its job's inputs.                                      *)
LEMMA StagedOwn ==
  ASSUME IndInv, NEW b \in Build, NEW f \in Func, pc[b][f] \in {"store", "write"}, NEW whole \in BOOLEAN
  PROVE  Staged(b, f, whole) \in File /\ Staged(b, f, whole).inputs = <<f, version[b][f]>>
<1>1. result[b][f].inputs = <<f, version[b][f]>>
  BY DEF IndInv, JobsOwn, Own
<1>2. <<f, version[b][f]>> \in Func \X Version /\ clock \in Nat
  BY JobTypes DEF IndInv, TypeOK
<1> QED
  BY <1>1, <1>2 DEF Staged, File

(* LcCache_Store creates the stage file, or gives up.                      *)
LEMMA OpenStageKeeps ==
  ASSUME IndInv, NEW b \in Build, NEW f \in Func, OpenStage(b, f) PROVE IndInv'
<1>0. UNCHANGED <<version, debug, result, entry, clock, bpc, victims, total>> /\ At(b, f, "store")
  BY DEF OpenStage
<1>a. stage[<<b, f>>] = NoFile /\ result[b][f].inputs = <<f, version[b][f]>>
  BY <1>0 DEF IndInv, JobsOwn, Own, At
<1>1. PICK w \in {"write", "done"}, x \in File \cup {NoFile} :
        /\ Goes(b, f, w) /\ stage' = [stage EXCEPT ![<<b, f>>] = x]
        /\ IF w = "write" THEN x.inputs = <<f, version[b][f]>> ELSE x = NoFile
  <2>1. CASE Goes(b, f, "write") /\ stage' = [stage EXCEPT ![<<b, f>>] = Staged(b, f, FALSE)]
    BY <1>0, <2>1, StagedOwn DEF At
  <2>2. CASE Goes(b, f, "done") /\ UNCHANGED stage
    <3>1. stage' = [stage EXCEPT ![<<b, f>>] = NoFile]
      BY <1>a, <2>2 DEF IndInv, TypeOK
    <3> QED
      BY <2>2, <3>1
  <2> QED
    BY <2>1, <2>2 DEF OpenStage
<1>2. /\ pc' \in [Build -> [Func -> {"open", "read", "compile", "store", "write", "rename", "done"}]]
      /\ pc'[b][f] = w
      /\ \A c \in Build, g \in Func : c # b \/ g # f => pc'[c][g] = pc[c][g]
  BY <1>1, Moves DEF IndInv
<1>3. /\ stage' \in [Job -> File \cup {NoFile}]
      /\ stage'[<<b, f>>] = x
      /\ \A c \in Build, g \in Func : c # b \/ g # f => stage'[<<c, g>>] = stage[<<c, g>>]
  <2>1. TypeOK /\ x \in File \cup {NoFile} /\ stage' = [stage EXCEPT ![<<b, f>>] = x]
    BY <1>1 DEF IndInv
  <2> QED
    BY <2>1 DEF TypeOK, Job
<1>4. TypeOK'
  BY <1>0, <1>2, <1>3 DEF IndInv, TypeOK, Key, Job, File, NoFile, NotYet
<1>5. Own(b, f)'
  BY <1>0, <1>a, <1>1, <1>2, <1>3 DEF Own, NoFile
<1>6. JobsOwn' /\ EvictsLast'
  BY <1>0, <1>2, <1>3, <1>5, OthersKeep DEF At
<1> QED
  BY <1>0, <1>4, <1>6, EntriesKeep DEF IndInv

(* It writes all of it, fails and removes it, or only fails to flush.      *)
LEMMA WriteStageKeeps ==
  ASSUME IndInv, NEW b \in Build, NEW f \in Func, WriteStage(b, f) PROVE IndInv'
<1>0. UNCHANGED <<version, debug, result, entry, bpc, victims, total>> /\ At(b, f, "write") /\ clock' = clock + 1
  BY DEF WriteStage
<1>a. stage[<<b, f>>].inputs = <<f, version[b][f]>> /\ result[b][f].inputs = <<f, version[b][f]>>
  BY <1>0 DEF IndInv, JobsOwn, Own, At
<1>1. PICK w \in {"rename", "done"}, x \in File \cup {NoFile} :
        /\ Goes(b, f, w) /\ stage' = [stage EXCEPT ![<<b, f>>] = x]
        /\ IF w = "rename" THEN x.inputs = <<f, version[b][f]>> ELSE x = NoFile
  <2>1. CASE Goes(b, f, "rename") /\ stage' = [stage EXCEPT ![<<b, f>>] = Staged(b, f, TRUE)]
    BY <1>0, <2>1, StagedOwn DEF At
  <2>2. CASE Goes(b, f, "rename") /\ UNCHANGED stage
    <3>1. stage' = [stage EXCEPT ![<<b, f>>] = stage[<<b, f>>]] /\ stage[<<b, f>>] \in File \cup {NoFile}
      BY <2>2, JobTypes DEF IndInv, TypeOK
    <3> QED
      BY <1>a, <2>2, <3>1
  <2>3. CASE Goes(b, f, "done") /\ stage' = [stage EXCEPT ![<<b, f>>] = NoFile]
    BY <2>3
  <2> QED
    BY <2>1, <2>2, <2>3 DEF WriteStage
<1>2. /\ pc' \in [Build -> [Func -> {"open", "read", "compile", "store", "write", "rename", "done"}]]
      /\ pc'[b][f] = w
      /\ \A c \in Build, g \in Func : c # b \/ g # f => pc'[c][g] = pc[c][g]
  BY <1>1, Moves DEF IndInv
<1>3. /\ stage' \in [Job -> File \cup {NoFile}]
      /\ stage'[<<b, f>>] = x
      /\ \A c \in Build, g \in Func : c # b \/ g # f => stage'[<<c, g>>] = stage[<<c, g>>]
  <2>1. TypeOK /\ x \in File \cup {NoFile} /\ stage' = [stage EXCEPT ![<<b, f>>] = x]
    BY <1>1 DEF IndInv
  <2> QED
    BY <2>1 DEF TypeOK, Job
<1>4. TypeOK'
  <2>1. clock' \in Nat
    BY <1>0 DEF IndInv, TypeOK
  <2> QED
    BY <1>0, <1>2, <1>3, <2>1 DEF IndInv, TypeOK, Key, Job, File, NoFile, NotYet
<1>5. Own(b, f)'
  BY <1>0, <1>a, <1>1, <1>2, <1>3 DEF Own, NoFile
<1>6. JobsOwn' /\ EvictsLast'
  BY <1>0, <1>2, <1>3, <1>5, OthersKeep DEF At
<1> QED
  BY <1>0, <1>4, <1>6, EntriesKeep DEF IndInv

(* It renames the stage file over the entry of its key, or gives up.       *)
LEMMA RenameKeeps ==
  ASSUME IndInv, NEW b \in Build, NEW f \in Func, Rename(b, f) PROVE IndInv'
<1> DEFINE k == KeyOf(b, f)
           x == stage[<<b, f>>]
<1>0. UNCHANGED <<version, debug, result, clock, bpc, victims, total>> /\ At(b, f, "rename")
  BY DEF Rename
<1>a. x.inputs = <<f, version[b][f]>> /\ result[b][f].inputs = <<f, version[b][f]>>
  BY <1>0 DEF IndInv, JobsOwn, Own, At
<1>b. x \in File /\ k \in Key /\ k[1] = f /\ k[2] = version[b][f]
  <2>1. x \in File \cup {NoFile} /\ k \in Key
    BY JobTypes DEF IndInv
  <2>2. x \in File
    <3> HIDE DEF x
    <3> QED BY <1>a, <2>1, FileNotMissing
  <2> QED
    BY <2>1, <2>2 DEF KeyOf
<1>2. /\ pc' \in [Build -> [Func -> {"open", "read", "compile", "store", "write", "rename", "done"}]]
      /\ pc'[b][f] = "done"
      /\ \A c \in Build, g \in Func : c # b \/ g # f => pc'[c][g] = pc[c][g]
  BY Moves DEF IndInv, Rename
<1>3. /\ stage' \in [Job -> File \cup {NoFile}]
      /\ stage'[<<b, f>>] = NoFile
      /\ \A c \in Build, g \in Func : c # b \/ g # f => stage'[<<c, g>>] = stage[<<c, g>>]
  BY StageFiles DEF IndInv, Rename
<1>4. Own(b, f)'
  BY <1>0, <1>a, <1>2, <1>3 DEF Own, NoFile
<1>5. JobsOwn' /\ EvictsLast'
  BY <1>0, <1>2, <1>3, <1>4, OthersKeep DEF At
<1>6. CASE entry' = [entry EXCEPT ![k] = x]
  <2> HIDE DEF k, x
  <2>1. entry' \in [Key -> File \cup {NoFile}] /\ entry'[k] = x /\ \A l \in Key \ {k} : entry'[l] = entry[l]
    BY <1>b, <1>6 DEF IndInv, TypeOK
  <2>2. TypeOK'
    BY <1>0, <1>2, <1>3, <2>1 DEF IndInv, TypeOK, Key, Job, File, NoFile, NotYet
  <2>3. Present' = Present \cup {k}
    <3>1. Present' = {l \in Key : entry'[l] # NoFile}
      BY DEF Present, Key, NoFile
    <3>2. x # NoFile
      BY <1>b, FileNotMissing
    <3> QED
      BY <1>b, <2>1, <3>1, <3>2 DEF Present
  <2>4. EntriesOwn'
    <3>1. ASSUME NEW l \in Present' PROVE entry'[l].inputs = <<l[1], l[2]>>
      BY <1>a, <1>b, <2>1, <2>3 DEF IndInv, EntriesOwn, Present
    <3> QED
      BY <3>1 DEF EntriesOwn
  <2>5. FiniteEntries'
    BY <2>3, FS_AddElement DEF IndInv, FiniteEntries
  <2> QED
    BY <1>5, <2>2, <2>4, <2>5 DEF IndInv
<1>7. CASE UNCHANGED entry
  <2>1. TypeOK'
    BY <1>0, <1>2, <1>3, <1>7 DEF IndInv, TypeOK, Key, Job, File, NoFile, NotYet
  <2> QED
    BY <1>5, <1>7, <2>1, EntriesKeep DEF IndInv
<1> QED
  BY <1>6, <1>7 DEF Rename

-----------------------------------------------------------------------------
(* Steps of a build                                                        *)

(* A build that ends, evicts or crashes leaves its jobs as they are.       *)
LEMMA JobsKeep ==
  ASSUME IndInv, UNCHANGED <<version, pc, result, stage>>
  PROVE  JobsOwn'
  BY DEF IndInv, JobsOwn, Own, NoFile

(* The snapshot of LcCache_Evict lists entries.                            *)
LEMMA ScanKeeps ==
  ASSUME IndInv, NEW b \in Build, Scan(b) PROVE IndInv'
<1>0. UNCHANGED <<version, debug, pc, result, entry, stage, clock>> /\ \A f \in Func : pc[b][f] = "done"
  BY DEF Scan
<1>1. Cardinality(Present) \in Nat
  BY FS_CardinalityType DEF IndInv, FiniteEntries
<1>2. total' \in [Build -> Nat]
  BY <1>1 DEF Scan, IndInv, TypeOK
<1>3. victims' \in [Build -> Seq(Key)] /\ bpc' \in [Build -> {"codegen", "evict", "ended", "crashed"}]
      /\ \A c \in Build \ {b} : bpc'[c] = bpc[c]
  <2>1. \A s \in OldestFirst(Present) : s \in Seq(Key)
    <3>1. \A s \in OldestFirst(Present) : s \in [1..Cardinality(Present) -> Key]
      BY DEF OldestFirst, Present
    <3> QED
      BY <1>1, <3>1
  <2> QED
    BY <2>1 DEF Scan, IndInv, TypeOK
<1>4. TypeOK'
  BY <1>0, <1>2, <1>3 DEF IndInv, TypeOK, Key, Job, File, NoFile, NotYet
<1>5. EvictsLast'
  BY <1>0, <1>3 DEF IndInv, EvictsLast
<1> QED
  BY <1>0, <1>4, <1>5, JobsKeep, EntriesKeep DEF IndInv

(* Evicting an entry leaves the others' contents alone.                    *)
LEMMA EvictOneKeeps ==
  ASSUME IndInv, NEW b \in Build, EvictOne(b) PROVE IndInv'
<1> DEFINE k == Head(victims[b])
<1>0. UNCHANGED <<version, debug, pc, result, stage, clock, bpc>> /\ total[b] > Cap /\ victims[b] # <<>>
  BY DEF EvictOne
<1>1. victims[b] \in Seq(Key) /\ total[b] \in Nat /\ total[b] - 1 \in Nat
  BY <1>0, LcCacheAssumption DEF IndInv, TypeOK
<1>2. k \in Key /\ Tail(victims[b]) \in Seq(Key)
  BY <1>0, <1>1
<1>3. victims' \in [Build -> Seq(Key)]
  BY <1>2 DEF EvictOne, IndInv, TypeOK
<1>4. total' \in [Build -> Nat]
  <2>1. total \in [Build -> Nat]
    BY DEF IndInv, TypeOK
  <2>2. total' = total \/ total' = [total EXCEPT ![b] = total[b] - 1]
    BY DEF EvictOne
  <2> QED
    BY ONLY <1>1, <2>1, <2>2
<1>5. /\ entry' \in [Key -> File \cup {NoFile}]
      /\ \A l \in Key : entry'[l] = entry[l] \/ entry'[l] = NoFile
  BY <1>2 DEF EvictOne, IndInv, TypeOK
<1>6. TypeOK'
  BY <1>0, <1>3, <1>4, <1>5 DEF IndInv, TypeOK, Key, Job, File, NoFile, NotYet
<1>7. Present' \subseteq Present
  <2>1. Present' = {l \in Key : entry'[l] # NoFile}
    BY DEF Present, Key, NoFile
  <2> QED
    BY <1>5, <2>1 DEF Present
<1>8. EntriesOwn'
  <2>1. ASSUME NEW l \in Present' PROVE entry'[l].inputs = <<l[1], l[2]>>
    <3>1. l \in Key /\ l \in Present /\ entry'[l] # NoFile
      BY <1>7 DEF Present, Key, NoFile
    <3> QED
      BY <1>5, <3>1 DEF IndInv, EntriesOwn
  <2> QED
    BY <2>1 DEF EntriesOwn
<1>9. FiniteEntries'
  BY <1>7, FS_Subset DEF IndInv, FiniteEntries
<1>10. EvictsLast'
  BY <1>0 DEF IndInv, EvictsLast
<1> QED
  BY <1>0, <1>6, <1>8, <1>9, <1>10, JobsKeep DEF IndInv

(* A build ends after its eviction, or dies anywhere.                      *)
LEMMA BuildEnds ==
  ASSUME IndInv, NEW b \in Build, EvictEnd(b) \/ Crash(b) PROVE IndInv'
<1>0. UNCHANGED <<version, debug, pc, result, entry, stage, clock, victims, total>>
  BY DEF EvictEnd, Crash
<1>1. PICK w \in {"ended", "crashed"} : bpc' = [bpc EXCEPT ![b] = w] /\ (w = "ended" => bpc[b] = "evict")
  BY DEF EvictEnd, Crash
<1>2. TypeOK'
  BY <1>0, <1>1 DEF IndInv, TypeOK, Key, Job, File, NoFile, NotYet
<1>3. EvictsLast'
  BY <1>0, <1>1 DEF IndInv, EvictsLast, TypeOK
<1> QED
  BY <1>0, <1>2, <1>3, JobsKeep, EntriesKeep DEF IndInv

-----------------------------------------------------------------------------
(* The invariant                                                           *)

(* The directory is empty at the start.                                    *)
LEMMA InitIndInv == Init => IndInv
<1> SUFFICES ASSUME Init PROVE IndInv
  OBVIOUS
<1>1. TypeOK
  BY DEF Init, TypeOK
<1>2. JobsOwn /\ EvictsLast
  BY DEF Init, JobsOwn, Own, EvictsLast, Job
<1>3. Present = {}
  BY DEF Init, Present
<1> QED
  BY <1>1, <1>2, <1>3, FS_EmptySet DEF IndInv, EntriesOwn, FiniteEntries

(* No step of a build breaks the invariant.                                *)
LEMMA NextIndInv == IndInv /\ [Next]_vars => IndInv'
<1> SUFFICES ASSUME IndInv, [Next]_vars PROVE IndInv'
  OBVIOUS
<1>1. CASE UNCHANGED vars
  <2>1. UNCHANGED <<version, debug, pc, result, entry, stage, clock, bpc, victims, total>>
    BY <1>1 DEF vars
  <2>2. TypeOK'
    BY <2>1 DEF IndInv, TypeOK, Key, Job, File, NoFile, NotYet
  <2>3. EvictsLast'
    BY <2>1 DEF IndInv, EvictsLast
  <2> QED
    BY <2>1, <2>2, <2>3, JobsKeep, EntriesKeep DEF IndInv
<1> QED
  BY <1>1, OpenKeeps, LoadKeeps, CompileKeeps, OpenStageKeeps, WriteStageKeeps, RenameKeeps,
     ScanKeeps, EvictOneKeeps, BuildEnds DEF Next

(* The invariant holds in every reachable state.                           *)
LEMMA SpecIndInv == Spec => []IndInv
  BY InitIndInv, NextIndInv, PTL DEF Spec

(* Every variable keeps its type.                                          *)
THEOREM SpecTypeOK == Spec => []TypeOK
<1>1. IndInv => TypeOK
  BY DEF IndInv
<1> QED
  BY SpecIndInv, <1>1, PTL

(* A restored function has the code a fresh compilation would have.        *)
THEOREM SpecRestoredIsFresh == Spec => []RestoredIsFresh
<1>1. IndInv => RestoredIsFresh
  BY DEF IndInv, JobsOwn, Own, EntriesOwn, RestoredIsFresh, Fresh
<1> QED
  BY SpecIndInv, <1>1, PTL

(* A build that was not interrupted leaves no stage file.                  *)
THEOREM SpecNoStageLeft == Spec => []NoStageLeft
<1>1. IndInv => NoStageLeft
  BY DEF IndInv, JobsOwn, Own, EvictsLast, NoStageLeft, Job
<1> QED
  BY SpecIndInv, <1>1, PTL
=============================================================================
