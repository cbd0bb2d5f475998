---------------------------- MODULE ThreadProofs ----------------------------
(* Proofs about the native worker threads (ThreadWorker), for any set of   *)
(* workers, about the slot that threads race to publish (TlsSlot), for any *)
(* sets of threads and indexes, and about the two together (Threads).      *)
EXTENDS Threads, TLAPS

(***************************************************************************)
(* TlsSlot.                                                                *)
(***************************************************************************)

(* What makes OneSlot inductive: who owns which allocated index.           *)
Ownership ==
  /\ cell # None => cell \in taken
  /\ \A t \in Thread : step[t] \in {"cas", "free"} <=> spare[t] # None
  /\ \A t \in Thread : spare[t] # None => spare[t] \in taken /\ spare[t] # cell
  /\ \A t, u \in Thread : spare[t] # None /\ spare[t] = spare[u] => t = u

TlsIndInv == TlsTypeOK /\ Ownership /\ NoLeakedSlot /\ ReturnsPublished /\ ValuesUnderPublished

(* The invariant holds at first.                                           *)
LEMMA TlsInitIndInv == TlsInit => TlsIndInv
  BY TlsAssumption DEF TlsInit, TlsIndInv, TlsTypeOK, Ownership, NoLeakedSlot, ReturnsPublished,
                       ValuesUnderPublished

(* Every step keeps the types.                                             *)
LEMMA TlsNextTypeOK == TlsTypeOK /\ [TlsNext]_tlsVars => TlsTypeOK'
<1> SUFFICES ASSUME TlsTypeOK, [TlsNext]_tlsVars PROVE TlsTypeOK'
  OBVIOUS
<1> USE DEF TlsTypeOK
<1>1. ASSUME NEW t \in Thread, Load(t) PROVE TlsTypeOK'
  <2>1. CASE cell = None
    BY <1>1, <2>1 DEF Load
  <2>2. CASE cell # None
    BY <1>1, <2>2 DEF Load
  <2> QED
    BY <2>1, <2>2
<1>2. ASSUME NEW t \in Thread, Alloc(t) PROVE TlsTypeOK'
  BY <1>2 DEF Alloc
<1>3. ASSUME NEW t \in Thread, AllocFails(t) PROVE TlsTypeOK'
  BY <1>3 DEF AllocFails
<1>4. ASSUME NEW t \in Thread, Exchange(t) PROVE TlsTypeOK'
  <2>1. CASE cell = None
    BY <1>4, <2>1 DEF Exchange
  <2>2. CASE cell # None
    BY <1>4, <2>2 DEF Exchange
  <2> QED
    BY <2>1, <2>2
<1>5. ASSUME NEW t \in Thread, FreeSpare(t) PROVE TlsTypeOK'
  BY <1>5 DEF FreeSpare
<1>6. ASSUME NEW t \in Thread, Store(t) PROVE TlsTypeOK'
  <2>1. PICK v \in {t, None} : value' = [value EXCEPT ![t][slot[t]] = v]
    BY <1>6 DEF Store
  <2>2. [value[t] EXCEPT ![slot[t]] = v] \in [Slot -> Thread \cup {None}]
    OBVIOUS
  <2>3. value' = [value EXCEPT ![t] = [value[t] EXCEPT ![slot[t]] = v]]
    BY <2>1
  <2>4. value' \in [Thread -> [Slot -> Thread \cup {None}]]
    BY <2>2, <2>3
  <2> QED
    BY <1>6, <2>4 DEF Store
<1>7. CASE UNCHANGED tlsVars
  BY <1>7 DEF tlsVars
<1> QED
  BY <1>1, <1>2, <1>3, <1>4, <1>5, <1>6, <1>7 DEF TlsNext, TlsStep

(* Each step of a thread keeps the ownership of the indexes.               *)
LEMMA TlsNextIndInv == TlsIndInv /\ [TlsNext]_tlsVars => TlsIndInv'
<1> SUFFICES ASSUME TlsIndInv, [TlsNext]_tlsVars PROVE TlsIndInv'
  OBVIOUS
<1> USE TlsAssumption DEF TlsIndInv, TlsTypeOK, Ownership, NoLeakedSlot, ReturnsPublished,
                          ValuesUnderPublished
<1>1. ASSUME NEW t \in Thread, Load(t) PROVE TlsIndInv'
  <2> USE <1>1 DEF Load
  <2>1. TlsTypeOK'
    BY TlsNextTypeOK
  <2>2. Ownership'
    OBVIOUS
  <2>3. NoLeakedSlot'
    OBVIOUS
  <2>4. ReturnsPublished'
    OBVIOUS
  <2>5. ValuesUnderPublished'
    OBVIOUS
  <2> QED
    BY <2>1, <2>2, <2>3, <2>4, <2>5
<1>2. ASSUME NEW t \in Thread, Alloc(t) PROVE TlsIndInv'
  <2> USE <1>2 DEF Alloc
  <2>1. TlsTypeOK'
    BY TlsNextTypeOK
  <2>2. Ownership'
    OBVIOUS
  <2>3. NoLeakedSlot'
    OBVIOUS
  <2>4. ReturnsPublished'
    OBVIOUS
  <2>5. ValuesUnderPublished'
    OBVIOUS
  <2> QED
    BY <2>1, <2>2, <2>3, <2>4, <2>5
<1>3. ASSUME NEW t \in Thread, AllocFails(t) PROVE TlsIndInv'
  <2> USE <1>3 DEF AllocFails
  <2>1. TlsTypeOK'
    BY TlsNextTypeOK
  <2>2. Ownership'
    OBVIOUS
  <2>3. NoLeakedSlot'
    OBVIOUS
  <2>4. ReturnsPublished'
    OBVIOUS
  <2>5. ValuesUnderPublished'
    OBVIOUS
  <2> QED
    BY <2>1, <2>2, <2>3, <2>4, <2>5
<1>4. ASSUME NEW t \in Thread, Exchange(t) PROVE TlsIndInv'
  <2> USE <1>4 DEF Exchange
  <2>1. TlsTypeOK'
    BY TlsNextTypeOK
  <2> HIDE <1>4 DEF Exchange
  <2>2. Ownership'
    <3>1. CASE cell = None
      <4>1. /\ cell' = spare[t] /\ spare' = [spare EXCEPT ![t] = None]
            /\ taken' = taken /\ step' = [step EXCEPT ![t] = "store"] /\ step[t] = "cas"
        BY <1>4, <3>1 DEF Exchange
      <4> QED
        BY <4>1
    <3>2. CASE cell # None
      <4>1. /\ cell' = cell /\ spare' = spare
            /\ taken' = taken /\ step' = [step EXCEPT ![t] = "free"] /\ step[t] = "cas"
        BY <1>4, <3>2 DEF Exchange
      <4> QED
        BY <4>1
    <3> QED
      BY <3>1, <3>2
  <2> USE <1>4 DEF Exchange
  <2>3. NoLeakedSlot'
    <3>1. CASE cell = None
      <4> SUFFICES ASSUME NEW s \in taken', s # cell' PROVE \E u \in Thread : spare'[u] = s
        OBVIOUS
      <4>1. PICK u \in Thread : spare[u] = s
        BY <3>1
      <4>2. u # t
        BY <3>1, <4>1
      <4> QED
        BY <3>1, <4>1, <4>2
    <3>2. CASE cell # None
      BY <3>2
    <3> QED
      BY <3>1, <3>2
  <2>4. ReturnsPublished'
    OBVIOUS
  <2>5. ValuesUnderPublished'
    OBVIOUS
  <2> QED
    BY <2>1, <2>2, <2>3, <2>4, <2>5
<1>5. ASSUME NEW t \in Thread, FreeSpare(t) PROVE TlsIndInv'
  <2> USE <1>5 DEF FreeSpare
  <2>1. TlsTypeOK'
    BY TlsNextTypeOK
  <2>2. Ownership'
    OBVIOUS
  <2>3. NoLeakedSlot'
    OBVIOUS
  <2>4. ReturnsPublished'
    OBVIOUS
  <2>5. ValuesUnderPublished'
    OBVIOUS
  <2> QED
    BY <2>1, <2>2, <2>3, <2>4, <2>5
<1>6. ASSUME NEW t \in Thread, Store(t) PROVE TlsIndInv'
  <2> USE <1>6 DEF Store
  <2>1. TlsTypeOK'
    BY TlsNextTypeOK
  <2>2. Ownership'
    OBVIOUS
  <2>3. NoLeakedSlot'
    OBVIOUS
  <2>4. ReturnsPublished'
    OBVIOUS
  <2>5. ValuesUnderPublished'
    OBVIOUS
  <2> QED
    BY <2>1, <2>2, <2>3, <2>4, <2>5
<1>7. CASE UNCHANGED tlsVars
  BY <1>7 DEF tlsVars
<1> QED
  BY <1>1, <1>2, <1>3, <1>4, <1>5, <1>6, <1>7 DEF TlsNext, TlsStep

(* The invariant holds always.                                             *)
LEMMA TlsSpecIndInv == TlsSpec => []TlsIndInv
  BY TlsInitIndInv, TlsNextIndInv, PTL DEF TlsSpec

(* All threads store through the one published index, whatever the race.   *)
THEOREM SpecOneSlot == TlsSpec => []OneSlot
<1>1. TlsIndInv => OneSlot
  BY DEF TlsIndInv, OneSlot
<1> QED
  BY <1>1, TlsSpecIndInv, PTL

(* No lost race leaks a TLS index.                                         *)
THEOREM SpecNoLeakedSlot == TlsSpec => []NoLeakedSlot
<1>1. TlsIndInv => NoLeakedSlot
  BY DEF TlsIndInv
<1> QED
  BY <1>1, TlsSpecIndInv, PTL

(***************************************************************************)
(* ThreadWorker.                                                           *)
(***************************************************************************)

(* From the cache's birth to its end; from the state's birth to its end.   *)
Cached == {"lock", "newstate", "stopgc", "build", "anchor", "resolve", "run", "capture",
           "close", "cacheend"}
Opened == {"stopgc", "build", "anchor", "resolve", "run", "capture", "close"}

(* What makes OwnCacheWhileOpen inductive.                                 *)
OwnCache ==
  /\ ~shared
  /\ \A w \in Worker : pc[w] \in Cached => cache[w] = "own"
  /\ \A w \in Worker : state[w] = "open" => pc[w] \in Opened

(* What makes NothingSwept inductive: a tree without a root exists only    *)
(* while the collector is stopped.                                         *)
RootInTime ==
  /\ \A w \in Worker : protos[w] # "swept"
  /\ \A w \in Worker : protos[w] = "built" => pc[w] = "anchor"
  /\ \A w \in Worker : pc[w] \in {"build", "anchor"} => ~gc[w]

(* What makes JoinTellsOutcome inductive: when the function has an outcome,*)
(* when the status tells it, and that a joined worker has ended.           *)
OutcomeKnown ==
  /\ \A w \in Worker : pc[w] \in Steps \ {"capture", "close", "cacheend", "signal", "exited"}
                         => outcome[w] = "none"
  /\ \A w \in Worker : pc[w] \in {"close", "cacheend", "signal", "exited"}
                         => (status[w] = 1 <=> outcome[w] = "value")
  /\ \A w \in Worker : joined[w] # "no" => pc[w] = "exited"
  /\ JoinTellsOutcome

IndInv == TypeOK /\ CtxOutlivesThread /\ OwnCache /\ RootInTime /\ OutcomeKnown

(* The invariant holds at first.                                           *)
LEMMA InitIndInv == Init => IndInv
<1> SUFFICES ASSUME Init PROVE IndInv
  OBVIOUS
<1> USE DEF Init
<1>1. TypeOK
  <2>1. /\ ctx \in [Worker -> {"none", "live", "freed"}] /\ pc \in [Worker -> Steps]
        /\ lock \in Worker \cup {Nil} /\ cache \in [Worker -> {"none", "own"}]
    BY DEF Steps
  <2>2. shared \in BOOLEAN /\ gc \in [Worker -> BOOLEAN]
    OBVIOUS
  <2>3. /\ state \in [Worker -> {"none", "open", "closed"}]
        /\ protos \in [Worker -> {"none", "built", "rooted", "swept"}]
        /\ outcome \in [Worker -> {"none", "value", "error"}]
    OBVIOUS
  <2>4. /\ status \in [Worker -> 0..2] /\ payload \in [Worker -> {"null", "value", "message"}]
        /\ joined \in [Worker -> {"no", "ok", "failed"}]
    OBVIOUS
  <2> QED
    BY <2>1, <2>2, <2>3, <2>4 DEF TypeOK
<1>2. CtxOutlivesThread
  BY DEF CtxOutlivesThread
<1>3. OwnCache
  BY DEF OwnCache, Cached, Opened
<1>4. RootInTime
  BY DEF RootInTime
<1>5. OutcomeKnown
  BY DEF OutcomeKnown, JoinTellsOutcome, Steps
<1> QED
  BY <1>1, <1>2, <1>3, <1>4, <1>5 DEF IndInv

(* Every step of a worker keeps the types.                                  *)
LEMMA NextTypeOK ==
  ASSUME IndInv, NEW w \in Worker,
         Spawn(w) \/ Join(w) \/ Collect(w) \/ Bootstrap(w)
  PROVE  TypeOK'
<1> USE ThreadAssumption DEF IndInv, Steps, TypeOK, Goes
<1>1. CASE Spawn(w)
  BY <1>1 DEF Spawn
<1>2. CASE Join(w)
  BY <1>2 DEF Join
<1>3. CASE Collect(w)
  BY <1>3 DEF Collect
<1>4. CASE CacheBegin(w)
  BY <1>4 DEF CacheBegin, SetsError
<1>5. CASE Lock(w)
  BY <1>5 DEF Lock
<1>6. CASE NewState(w)
  BY <1>6 DEF NewState
<1>7. CASE NewStateFails(w)
  BY <1>7 DEF NewStateFails, SetsError
<1>8. CASE StopGc(w)
  BY <1>8 DEF StopGc
<1>9. CASE Build(w)
  BY <1>9 DEF Build
<1>10. CASE BuildFails(w)
  BY <1>10 DEF BuildFails, Abandons, SetsError
<1>11. CASE Anchor(w)
  BY <1>11 DEF Anchor
<1>12. CASE Resolve(w)
  BY <1>12 DEF Resolve
<1>13. CASE ResolveFails(w)
  BY <1>13 DEF ResolveFails, Abandons, SetsError
<1>14. CASE Run(w)
  BY <1>14 DEF Run
<1>15. CASE Capture(w)
  BY <1>15 DEF Capture, SetsError
<1>16. CASE Close(w)
  BY <1>16 DEF Close
<1>17. CASE CacheEnd(w)
  BY <1>17 DEF CacheEnd
<1>18. CASE Signal(w)
  BY <1>18 DEF Signal
<1> QED
  BY <1>1, <1>2, <1>3, <1>4, <1>5, <1>6, <1>7, <1>8, <1>9, <1>10, <1>11, <1>12, <1>13, <1>14, <1>15, <1>16, <1>17, <1>18 DEF Bootstrap

(* A context is freed only under an ended thread.                           *)
LEMMA NextCtxOutlivesThread ==
  ASSUME IndInv, NEW w \in Worker,
         Spawn(w) \/ Join(w) \/ Collect(w) \/ Bootstrap(w)
  PROVE  CtxOutlivesThread'
<1> USE ThreadAssumption DEF IndInv, TypeOK, Steps, CtxOutlivesThread, Goes
<1>1. CASE Spawn(w)
  BY <1>1 DEF Spawn
<1>2. CASE Join(w)
  BY <1>2 DEF Join
<1>3. CASE Collect(w)
  BY <1>3 DEF Collect
<1>4. CASE CacheBegin(w)
  BY <1>4 DEF CacheBegin, SetsError
<1>5. CASE Lock(w)
  BY <1>5 DEF Lock
<1>6. CASE NewState(w)
  BY <1>6 DEF NewState
<1>7. CASE NewStateFails(w)
  BY <1>7 DEF NewStateFails, SetsError
<1>8. CASE StopGc(w)
  BY <1>8 DEF StopGc
<1>9. CASE Build(w)
  BY <1>9 DEF Build
<1>10. CASE BuildFails(w)
  BY <1>10 DEF BuildFails, Abandons, SetsError
<1>11. CASE Anchor(w)
  BY <1>11 DEF Anchor
<1>12. CASE Resolve(w)
  BY <1>12 DEF Resolve
<1>13. CASE ResolveFails(w)
  BY <1>13 DEF ResolveFails, Abandons, SetsError
<1>14. CASE Run(w)
  BY <1>14 DEF Run
<1>15. CASE Capture(w)
  BY <1>15 DEF Capture, SetsError
<1>16. CASE Close(w)
  BY <1>16 DEF Close
<1>17. CASE CacheEnd(w)
  BY <1>17 DEF CacheEnd
<1>18. CASE Signal(w)
  BY <1>18 DEF Signal
<1> QED
  BY <1>1, <1>2, <1>3, <1>4, <1>5, <1>6, <1>7, <1>8, <1>9, <1>10, <1>11, <1>12, <1>13, <1>14, <1>15, <1>16, <1>17, <1>18 DEF Bootstrap

(* A worker has its cache before it has a state, and a state before Protos.  *)
LEMMA NextOwnCache ==
  ASSUME IndInv, NEW w \in Worker,
         Spawn(w) \/ Join(w) \/ Collect(w) \/ Bootstrap(w)
  PROVE  OwnCache'
<1> USE ThreadAssumption DEF IndInv, TypeOK, Steps, OwnCache, Cached, Opened, Goes
<1>1. CASE Spawn(w)
  BY <1>1 DEF Spawn
<1>2. CASE Join(w)
  BY <1>2 DEF Join
<1>3. CASE Collect(w)
  BY <1>3 DEF Collect
<1>4. CASE CacheBegin(w)
  BY <1>4 DEF CacheBegin, SetsError
<1>5. CASE Lock(w)
  BY <1>5 DEF Lock
<1>6. CASE NewState(w)
  BY <1>6 DEF NewState
<1>7. CASE NewStateFails(w)
  BY <1>7 DEF NewStateFails, SetsError
<1>8. CASE StopGc(w)
  BY <1>8 DEF StopGc
<1>9. CASE Build(w)
  BY <1>9 DEF Build
<1>10. CASE BuildFails(w)
  BY <1>10 DEF BuildFails, Abandons, SetsError
<1>11. CASE Anchor(w)
  BY <1>11 DEF Anchor
<1>12. CASE Resolve(w)
  BY <1>12 DEF Resolve
<1>13. CASE ResolveFails(w)
  BY <1>13 DEF ResolveFails, Abandons, SetsError
<1>14. CASE Run(w)
  BY <1>14 DEF Run
<1>15. CASE Capture(w)
  BY <1>15 DEF Capture, SetsError
<1>16. CASE Close(w)
  BY <1>16 DEF Close
<1>17. CASE CacheEnd(w)
  BY <1>17 DEF CacheEnd
<1>18. CASE Signal(w)
  BY <1>18 DEF Signal
<1> QED
  BY <1>1, <1>2, <1>3, <1>4, <1>5, <1>6, <1>7, <1>8, <1>9, <1>10, <1>11, <1>12, <1>13, <1>14, <1>15, <1>16, <1>17, <1>18 DEF Bootstrap

(* The tree is rooted before the collector runs again.                      *)
LEMMA NextRootInTime ==
  ASSUME IndInv, NEW w \in Worker,
         Spawn(w) \/ Join(w) \/ Collect(w) \/ Bootstrap(w)
  PROVE  RootInTime'
<1> USE ThreadAssumption DEF IndInv, TypeOK, Steps, RootInTime, Goes
<1>1. CASE Spawn(w)
  BY <1>1 DEF Spawn
<1>2. CASE Join(w)
  BY <1>2 DEF Join
<1>3. CASE Collect(w)
  BY <1>3 DEF Collect
<1>4. CASE CacheBegin(w)
  BY <1>4 DEF CacheBegin, SetsError
<1>5. CASE Lock(w)
  BY <1>5 DEF Lock
<1>6. CASE NewState(w)
  BY <1>6 DEF NewState
<1>7. CASE NewStateFails(w)
  BY <1>7 DEF NewStateFails, SetsError
<1>8. CASE StopGc(w)
  BY <1>8 DEF StopGc
<1>9. CASE Build(w)
  BY <1>9 DEF Build
<1>10. CASE BuildFails(w)
  BY <1>10 DEF BuildFails, Abandons, SetsError
<1>11. CASE Anchor(w)
  BY <1>11 DEF Anchor
<1>12. CASE Resolve(w)
  BY <1>12 DEF Resolve
<1>13. CASE ResolveFails(w)
  BY <1>13 DEF ResolveFails, Abandons, SetsError
<1>14. CASE Run(w)
  BY <1>14 DEF Run
<1>15. CASE Capture(w)
  BY <1>15 DEF Capture, SetsError
<1>16. CASE Close(w)
  BY <1>16 DEF Close
<1>17. CASE CacheEnd(w)
  BY <1>17 DEF CacheEnd
<1>18. CASE Signal(w)
  BY <1>18 DEF Signal
<1> QED
  BY <1>1, <1>2, <1>3, <1>4, <1>5, <1>6, <1>7, <1>8, <1>9, <1>10, <1>11, <1>12, <1>13, <1>14, <1>15, <1>16, <1>17, <1>18 DEF Bootstrap

(* The status is written after the function's outcome is known.             *)
LEMMA NextOutcomeKnown ==
  ASSUME IndInv, NEW w \in Worker,
         Spawn(w) \/ Join(w) \/ Collect(w) \/ Bootstrap(w)
  PROVE  OutcomeKnown'
<1> USE ThreadAssumption DEF IndInv, TypeOK, Steps, OutcomeKnown, JoinTellsOutcome, Goes
<1>1. CASE Spawn(w)
  BY <1>1 DEF Spawn
<1>2. CASE Join(w)
  BY <1>2 DEF Join
<1>3. CASE Collect(w)
  BY <1>3 DEF Collect
<1>4. CASE CacheBegin(w)
  BY <1>4 DEF CacheBegin, SetsError
<1>5. CASE Lock(w)
  BY <1>5 DEF Lock
<1>6. CASE NewState(w)
  BY <1>6 DEF NewState
<1>7. CASE NewStateFails(w)
  BY <1>7 DEF NewStateFails, SetsError
<1>8. CASE StopGc(w)
  BY <1>8 DEF StopGc
<1>9. CASE Build(w)
  BY <1>9 DEF Build
<1>10. CASE BuildFails(w)
  BY <1>10 DEF BuildFails, Abandons, SetsError
<1>11. CASE Anchor(w)
  BY <1>11 DEF Anchor
<1>12. CASE Resolve(w)
  BY <1>12 DEF Resolve
<1>13. CASE ResolveFails(w)
  BY <1>13 DEF ResolveFails, Abandons, SetsError
<1>14. CASE Run(w)
  BY <1>14 DEF Run
<1>15. CASE Capture(w)
  BY <1>15 DEF Capture, SetsError
<1>16. CASE Close(w)
  BY <1>16 DEF Close
<1>17. CASE CacheEnd(w)
  BY <1>17 DEF CacheEnd
<1>18. CASE Signal(w)
  BY <1>18 DEF Signal
<1> QED
  BY <1>1, <1>2, <1>3, <1>4, <1>5, <1>6, <1>7, <1>8, <1>9, <1>10, <1>11, <1>12, <1>13, <1>14, <1>15, <1>16, <1>17, <1>18 DEF Bootstrap

(* No step of a worker, and no stuttering, breaks the invariant.           *)
LEMMA NextIndInv == IndInv /\ [Next]_vars => IndInv'
<1> SUFFICES ASSUME IndInv, [Next]_vars PROVE IndInv'
  OBVIOUS
<1>1. ASSUME NEW w \in Worker, Spawn(w) \/ Join(w) \/ Collect(w) \/ Bootstrap(w)
      PROVE IndInv'
  BY <1>1, NextTypeOK, NextCtxOutlivesThread, NextOwnCache, NextRootInTime, NextOutcomeKnown DEF IndInv
<1>2. CASE UNCHANGED vars
  BY <1>2 DEF vars, IndInv, TypeOK, CtxOutlivesThread, OwnCache, RootInTime, OutcomeKnown,
              JoinTellsOutcome
<1> QED
  BY <1>1, <1>2 DEF Next

(* The invariant holds in every reachable state.                           *)
LEMMA SpecIndInv == Spec => []IndInv
  BY InitIndInv, NextIndInv, PTL DEF Spec

(* Every worker's progress, state, cache and result keep their types.      *)
THEOREM SpecTypeOK == Spec => []TypeOK
<1>1. IndInv => TypeOK
  BY DEF IndInv
<1> QED
  BY SpecIndInv, <1>1, PTL

(* No collection sweeps the tree a worker resolves its function in.         *)
THEOREM SpecNothingSwept == Spec => []NothingSwept
<1>1. IndInv => NothingSwept
  BY DEF IndInv, NothingSwept, RootInTime
<1> QED
  BY SpecIndInv, <1>1, PTL

(* A worker's context lives as long as its thread runs.                    *)
THEOREM SpecCtxOutlivesThread == Spec => []CtxOutlivesThread
<1>1. IndInv => CtxOutlivesThread
  BY DEF IndInv, CtxOutlivesThread
<1> QED
  BY SpecIndInv, <1>1, PTL

(* No worker registers in a shared cache or dispatches without its own.    *)
THEOREM SpecOwnCacheWhileOpen == Spec => []OwnCacheWhileOpen
<1>1. IndInv => OwnCacheWhileOpen
  BY DEF IndInv, OwnCacheWhileOpen, OwnCache, Cached, Opened
<1> QED
  BY SpecIndInv, <1>1, PTL

(* join_native says true exactly for a worker whose function returned.     *)
THEOREM SpecJoinTellsOutcome == Spec => []JoinTellsOutcome
<1>1. IndInv => JoinTellsOutcome
  BY DEF IndInv, JoinTellsOutcome, OutcomeKnown
<1> QED
  BY SpecIndInv, <1>1, PTL

(***************************************************************************)
(* Threads.                                                                *)
(***************************************************************************)

(* Workers that come and go while threads race for a slot, and the setters *)
(* they call while user code runs, are behaviours of both components: what *)
(* is proved of each above holds of the program's threads together.        *)
THEOREM ThreadsImplementBoth == ThreadsSpec => Spec /\ TlsSpec
<1>1. ThreadsInit => Init /\ TlsInit
  BY DEF ThreadsInit
<1>2. [ThreadsNext]_threadsVars => [Next]_vars /\ [TlsNext]_tlsVars
  <2> SUFFICES ASSUME [ThreadsNext]_threadsVars PROVE [Next]_vars /\ [TlsNext]_tlsVars
    OBVIOUS
  <2>1. ASSUME NEW t \in Thread, SetsState(t) PROVE [Next]_vars /\ [TlsNext]_tlsVars
    BY <2>1 DEF SetsState, TlsNext
  <2>2. ASSUME NEW w \in Worker, Proceeds(w) \/ Around(w) PROVE [Next]_vars /\ [TlsNext]_tlsVars
    BY <2>2 DEF Proceeds, Around, Next
  <2>3. CASE UNCHANGED threadsVars
    BY <2>3 DEF threadsVars
  <2> QED
    BY <2>1, <2>2, <2>3 DEF ThreadsNext
<1> QED
  BY <1>1, <1>2, PTL DEF ThreadsSpec, Spec, TlsSpec

(* In the program's threads together no worker stores its state under a    *)
(* slot that is not the published one, whatever else comes up or ends.     *)
THEOREM ThreadsOneSlot == ThreadsSpec => []OneSlot
  BY ThreadsImplementBoth, SpecOneSlot, PTL

(* ... and none of them puts a Proto into a cache it shares.               *)
THEOREM ThreadsOwnCache == ThreadsSpec => []OwnCacheWhileOpen
  BY ThreadsImplementBoth, SpecOwnCacheWhileOpen, PTL
=============================================================================
