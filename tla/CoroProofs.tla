----------------------------- MODULE CoroProofs -----------------------------
(***************************************************************************)
(* Proofs about Coro for any sets of OS threads and coroutines, when no    *)
(* __close handler enters the coroutine it belongs to.                     *)
(*                                                                         *)
(* The properties are not inductive by themselves: yield trusts that       *)
(* CallerFiber names a fiber that waits for exactly this coroutine.  The   *)
(* argument is local: it links a coroutine to the one fiber waiting for it *)
(* (WaitLinks), says which thread it belongs to (Owned) and what the       *)
(* current-coroutine pointer is while a switch back is under way (Switch); *)
(* it never follows the whole chain.  The second half does: the refinement *)
(* of CoroAbs carries the activation stacks along (Stacked), shows that    *)
(* they are the paths AbsStack chooses, and maps every step.               *)
(***************************************************************************)
EXTENDS Coro, SequenceTheorems, FiniteSetTheorems, TLAPS

OwnerOf(f) == IF f \in Thread THEN f ELSE owner[f]
PrevOf(f) == IF f \in Coro THEN f ELSE Nil
Waits(f) == waiting[f] # NoCall

(* A waiting fiber and the coroutine it resumed know each other.           *)
WaitLinks ==
  \A f \in Fiber : Waits(f) =>
    /\ waiting[f].co \in Coro
    /\ caller[waiting[f].co] = f
    /\ waiting[f].co # f
    /\ waiting[f].prev = PrevOf(f)
    /\ \/ status[waiting[f].co] \in {"running", "normal"}
       \/ active[owner[waiting[f].co]] = f

(* A coroutine is "normal" exactly while its fiber waits for another.      *)
NormalWaits == \A c \in Coro : status[c] = "normal" <=> Waits(c)

(* An entered coroutine is the one its caller waits for.                   *)
CallerLinks ==
  \A c \in Coro : status[c] \in {"running", "normal"} =>
    /\ caller[c] \in Fiber
    /\ waiting[caller[c]].co = c

(* Activations never cross OS threads.                                     *)
Owned ==
  /\ \A t \in Thread : OwnerOf(active[t]) = t
  /\ \A f \in Fiber : Waits(f) => owner[waiting[f].co] = OwnerOf(f)

(* The current coroutine, in user code and while a switch comes back.      *)
Switch ==
  \A t \in Thread :
    /\ Quiet(t) => current[t] = PrevOf(active[t])
    /\ ~Quiet(t) => /\ current[t] = waiting[active[t]].co
                    /\ status[current[t]] \in {"suspended", "dead"}
    /\ \A c \in Coro : owner[c] = t => (status[c] = "running" <=> Quiet(t) /\ c = active[t])

(* Each saved recovery frame is the frame of the fiber it is saved for.    *)
Frames ==
  /\ \A c \in Coro : coFrame[c] \in {Nil, c}
  /\ \A f \in Fiber : Waits(f) => waiting[f].saved \in {Nil, f}
  /\ \A t \in Thread : frame[t] \in {Nil, IF Quiet(t) THEN active[t] ELSE current[t]}

(* Until the state is closed, whoever can be entered is anchored and has a *)
(* fiber.                                                                  *)
Alive ==
  phase = "run" =>
    /\ \A f \in Fiber : Waits(f) => anchored[waiting[f].co]
    /\ \A c \in Coro : anchored[c] /\ status[c] \in {"suspended", "running", "normal"}
                       => fiber[c] = "live"

(* A coroutine whose handlers run stays out of every activation.           *)
Apart ==
  \A f \in Fiber : \A i \in 1..Len(closing[f]) :
    status[closing[f][i]] \notin {"running", "normal"}

IndInv ==
  /\ TypeOK
  /\ WaitLinks /\ NormalWaits /\ CallerLinks
  /\ Owned /\ Switch /\ Frames /\ Alive /\ Apart

(* Frame lemmas on sequences: what popping the last element leaves.        *)
LEMMA PopSeq ==
  ASSUME NEW S, NEW s \in Seq(S), s # <<>>
  PROVE  /\ SubSeq(s, 1, Len(s) - 1) \in Seq(S)
         /\ Len(SubSeq(s, 1, Len(s) - 1)) = Len(s) - 1
         /\ \A i \in 1..(Len(s) - 1) : SubSeq(s, 1, Len(s) - 1)[i] = s[i]
         /\ s[Len(s)] \in S
<1>1. Len(s) \in Nat \ {0}
  OBVIOUS
<1>2. \A i \in 1..(Len(s) - 1) : s[i] \in S
  BY <1>1
<1>3. /\ SubSeq(s, 1, Len(s) - 1) \in Seq(S)
      /\ Len(SubSeq(s, 1, Len(s) - 1)) = (IF 1 <= Len(s) - 1 THEN (Len(s) - 1) - 1 + 1 ELSE 0)
      /\ \A i \in 1..((Len(s) - 1) - 1 + 1) : SubSeq(s, 1, Len(s) - 1)[i] = s[1 + i - 1]
  BY <1>1, <1>2, SubSeqProperties
<1>4. s[Len(s)] \in S
  BY <1>1
<1>5. Len(SubSeq(s, 1, Len(s) - 1)) = Len(s) - 1
  <2> DEFINE n == Len(s)
             k == Len(SubSeq(s, 1, Len(s) - 1))
  <2>1. n \in Nat \ {0} /\ k = (IF 1 <= n - 1 THEN (n - 1) - 1 + 1 ELSE 0)
    BY <1>1, <1>3
  <2> HIDE DEF n, k
  <2>2. k = n - 1
    BY <2>1
  <2> QED
    BY <2>2 DEF n, k
<1>6. \A i \in 1..(Len(s) - 1) : SubSeq(s, 1, Len(s) - 1)[i] = s[i]
  <2> TAKE i \in 1..(Len(s) - 1)
  <2>1. i \in 1..((Len(s) - 1) - 1 + 1) /\ 1 + i - 1 = i
    BY <1>1
  <2> QED
    BY <2>1, <1>3
<1> QED
  BY <1>3, <1>4, <1>5, <1>6

(* A fiber that waits resumed a coroutine that exists.                     *)
LEMMA ResumedExists ==
  ASSUME IndInv, NEW f \in Fiber, Waits(f)
  PROVE  waiting[f].co \in Coro /\ status[waiting[f].co] # "absent"
<1>1. waiting[f].co \in Coro
  BY DEF IndInv, WaitLinks
<1>2. CASE active[owner[waiting[f].co]] = f
  <2> DEFINE u == owner[waiting[f].co]
  <2>1. u \in Thread /\ ~Quiet(u) /\ waiting[active[u]].co = waiting[f].co
    BY <1>1, <1>2 DEF IndInv, TypeOK, Waits, Quiet
  <2> QED
    BY <1>1, <2>1 DEF IndInv, Switch
<1> QED
  BY <1>1, <1>2 DEF IndInv, WaitLinks

(* An active coroutine runs, or waits for one that just switched back.     *)
LEMMA ActiveExists ==
  ASSUME IndInv, NEW t \in Thread, active[t] \in Coro
  PROVE  /\ status[active[t]] \in {"running", "normal"}
         /\ owner[active[t]] = t
  BY CoroAssumption DEF IndInv, TypeOK, NormalWaits, Owned, Switch, Waits, Quiet, Fiber, OwnerOf

(* Whoever executes user code inside a coroutine is the running one, and   *)
(* the fiber to switch back to waits for it, on the same OS thread.        *)
LEMMA CallerOfRunning ==
  ASSUME IndInv, NEW t \in Thread, Quiet(t), active[t] \in Coro
  PROVE  /\ current[t] = active[t]
         /\ status[active[t]] = "running"
         /\ owner[active[t]] = t
         /\ caller[active[t]] \in Fiber
         /\ caller[active[t]] # active[t]
         /\ Waits(caller[active[t]])
         /\ waiting[caller[active[t]]].co = active[t]
         /\ OwnerOf(caller[active[t]]) = t
<1> USE CoroAssumption DEF IndInv, TypeOK, Fiber
<1> DEFINE c == active[t]
<1>1. current[t] = c /\ owner[c] = t /\ status[c] = "running"
  BY DEF Switch, Owned, PrevOf, OwnerOf
<1>2. caller[c] \in Fiber /\ waiting[caller[c]].co = c
  BY <1>1 DEF CallerLinks
<1>3. Waits(caller[c])
  BY <1>2 DEF Waits, NoCall
<1>4. ~Waits(c)
  BY DEF Quiet, Waits
<1> QED
  BY <1>1, <1>2, <1>3, <1>4 DEF Owned

(* An operation that leaves "closing" alone and enters no coroutine whose  *)
(* handlers run keeps Apart.                                               *)
LEMMA ApartKept ==
  ASSUME TypeOK, Apart, closing' = closing,
         \A c \in Coro : status[c] \notin {"running", "normal"} /\ c \in BeingClosed
                         => status'[c] \notin {"running", "normal"}
  PROVE  Apart'
<1> SUFFICES ASSUME NEW f \in Fiber, NEW i \in 1..Len(closing[f])
             PROVE  status'[closing[f][i]] \notin {"running", "normal"}
  BY DEF Apart
<1>1. closing[f] \in Seq(Coro)
  BY DEF TypeOK
<1>2. closing[f][i] \in Coro /\ closing[f][i] \in Range(closing[f])
  BY <1>1 DEF Range
<1>3. closing[f][i] \in BeingClosed
  BY <1>2 DEF BeingClosed
<1>4. status[closing[f][i]] \notin {"running", "normal"}
  BY DEF Apart
<1> QED
  BY <1>2, <1>3, <1>4

(* The rest of LuaFn_Resume, after the switch back.                        *)
LEMMA ResumeReturnsInd ==
  ASSUME IndInv, ~HandlersReenter, NEW t \in Thread, ResumeReturns(t)
  PROVE  IndInv'
<1> USE CoroAssumption DEF IndInv, TypeOK, Fiber, NoCall, Runs, Quiet, Waits, OwnerOf, PrevOf, ResumeReturns
<1>a. /\ active[t] \in Fiber /\ waiting[active[t]] # NoCall
      /\ waiting[active[t]].co = current[t] /\ current[t] \in Coro
      /\ status[current[t]] \in {"suspended", "dead"}
      /\ waiting[active[t]].prev = (IF active[t] \in Coro THEN active[t] ELSE Nil)
      /\ current[t] # active[t]
  BY DEF Switch, WaitLinks
<1>b. active[t] \in Coro => status[active[t]] = "normal"
  BY <1>a DEF NormalWaits
<1>c. \A d \in Coro : status[d] \in {"running", "normal"} => caller[d] # active[t]
  BY <1>a DEF CallerLinks
<1>1. TypeOK'
  OBVIOUS
<1>2. WaitLinks'
  BY DEF WaitLinks
<1>3. NormalWaits'
  BY DEF NormalWaits, WaitLinks
<1>4. CallerLinks'
  <2> SUFFICES ASSUME NEW d \in Coro, status'[d] \in {"running", "normal"}
               PROVE  caller'[d] \in Fiber /\ waiting'[caller'[d]].co = d
    BY DEF CallerLinks
  <2>1. status[d] \in {"running", "normal"}
    BY <1>a, <1>b
  <2>2. caller[d] \in Fiber /\ waiting[caller[d]].co = d /\ caller[d] # active[t]
    BY <2>1, <1>c DEF CallerLinks
  <2> QED
    BY <2>2
<1>5. Owned'
  BY DEF Owned
<1>6. Switch'
  BY DEF Switch, WaitLinks, Owned
<1>7. Frames'
  BY DEF WaitLinks, NormalWaits, CallerLinks, Owned, Switch, Frames, Alive, Apart
<1>8. Alive'
  BY DEF Alive, WaitLinks, NormalWaits
<1>9. Apart'
  BY <1>a, <1>b, ApartKept DEF BeingClosed
<1> QED
  BY <1>1, <1>2, <1>3, <1>4, <1>5, <1>6, <1>7, <1>8, <1>9

(* LuaFn_Yield.                                                            *)
LEMMA YieldInd ==
  ASSUME IndInv, ~HandlersReenter, NEW t \in Thread, Yield(t)
  PROVE  IndInv'
<1> USE CoroAssumption DEF IndInv, TypeOK, Fiber, NoCall, Runs, Quiet, Waits, OwnerOf, PrevOf, Yield
<1>a. active[t] \in Coro /\ current[t] = active[t]
  BY DEF Switch
<1>b. /\ status[active[t]] = "running" /\ owner[active[t]] = t
      /\ caller[active[t]] \in Fiber /\ caller[active[t]] # active[t]
      /\ waiting[caller[active[t]]] # NoCall
      /\ waiting[caller[active[t]]].co = active[t]
      /\ OwnerOf(caller[active[t]]) = t
  BY <1>a, CallerOfRunning DEF Waits
<1>1. TypeOK'
  BY <1>a, <1>b
<1>2. WaitLinks'
  <2>1. waiting' = waiting /\ caller' = caller /\ owner' = owner
    OBVIOUS
  <2>2. \A d \in Coro \ {active[t]} : status'[d] = status[d]
    BY <1>a
  <2>3. active'[t] = caller[active[t]] /\ \A u \in Thread \ {t} : active'[u] = active[u]
    BY <1>a
  <2>4. waiting[active[t]] = NoCall
    OBVIOUS
  <2> SUFFICES ASSUME NEW f \in Fiber, Waits(f)
               PROVE  \/ status'[waiting[f].co] \in {"running", "normal"}
                      \/ active'[owner[waiting[f].co]] = f
    BY <2>1 DEF WaitLinks
  <2>5. waiting[f].co \in Coro /\ caller[waiting[f].co] = f /\ f # active[t]
    BY <2>4 DEF WaitLinks
  <2>6. CASE waiting[f].co = active[t]
    BY <1>b, <2>3, <2>5, <2>6
  <2>7. CASE waiting[f].co # active[t]
    <3>1. owner[waiting[f].co] \in Thread
      BY <2>5
    <3>2. active[owner[waiting[f].co]] = f => active'[owner[waiting[f].co]] = f
      BY <2>3, <2>5, <3>1
    <3> QED
      BY <2>2, <2>5, <2>7, <3>2 DEF WaitLinks
  <2> QED
    BY <2>6, <2>7
<1>3. NormalWaits'
  BY DEF NormalWaits, Switch
<1>4. CallerLinks'
  BY DEF CallerLinks
<1>5. Owned'
  <2>1. \A u \in Thread : u # t => active'[u] = active[u]
    BY <1>a
  <2>2. active'[t] = caller[active[t]]
    BY <1>a
  <2> QED
    BY <2>1, <2>2, <1>b DEF Owned
<1>6. Switch'
  BY DEF WaitLinks, NormalWaits, CallerLinks, Owned, Switch, Frames, Alive, Apart
<1>7. Frames'
  BY DEF WaitLinks, NormalWaits, CallerLinks, Owned, Switch, Frames, Alive, Apart
<1>8. Alive'
  BY DEF WaitLinks, NormalWaits, CallerLinks, Owned, Switch, Frames, Alive, Apart
<1>9. Apart'
  BY <1>a, <1>b, ApartKept
<1> QED
  BY <1>1, <1>2, <1>3, <1>4, <1>5, <1>6, <1>7, <1>8, <1>9

(* The end of Coro_FiberEntry.                                             *)
LEMMA FinishInd ==
  ASSUME IndInv, ~HandlersReenter, NEW t \in Thread, Finish(t)
  PROVE  IndInv'
<1> USE CoroAssumption DEF IndInv, TypeOK, Fiber, NoCall, Runs, Quiet, Waits, OwnerOf, PrevOf, Finish
<1>a. active[t] \in Coro /\ current[t] = active[t]
  BY CallerOfRunning
<1>b. /\ status[active[t]] = "running" /\ owner[active[t]] = t
      /\ caller[active[t]] \in Fiber /\ caller[active[t]] # active[t]
      /\ waiting[caller[active[t]]] # NoCall
      /\ waiting[caller[active[t]]].co = active[t]
      /\ OwnerOf(caller[active[t]]) = t
  BY <1>a, CallerOfRunning DEF Waits
<1>1. TypeOK'
  BY <1>a, <1>b
<1>2. WaitLinks'
  BY DEF WaitLinks, Owned
<1>3. NormalWaits'
  BY DEF NormalWaits
<1>4. CallerLinks'
  BY DEF CallerLinks
<1>5. Owned'
  <2>1. \A u \in Thread : u # t => active'[u] = active[u]
    BY <1>a
  <2>2. active'[t] = caller[active[t]]
    BY <1>a
  <2> QED
    BY <2>1, <2>2, <1>b DEF Owned
<1>6. Switch'
  BY DEF WaitLinks, NormalWaits, CallerLinks, Owned, Switch, Frames, Alive, Apart
<1>7. Frames'
  BY DEF WaitLinks, NormalWaits, CallerLinks, Owned, Switch, Frames, Alive, Apart
<1>8. Alive'
  BY DEF Alive
<1>9. Apart'
  BY <1>a, <1>b, ApartKept
<1> QED
  BY <1>1, <1>2, <1>3, <1>4, <1>5, <1>6, <1>7, <1>8, <1>9

(* LuaFn_Close once the handlers have run.                                 *)
LEMMA CloseEndsInd ==
  ASSUME IndInv, ~HandlersReenter, NEW t \in Thread, CloseEnds(t)
  PROVE  IndInv'
<1> USE CoroAssumption DEF IndInv, TypeOK, Fiber, NoCall, Runs, Quiet, Waits, OwnerOf, PrevOf
<1> DEFINE f == active[t]
           c == closing[f][Len(closing[f])]
<1>a. /\ f \in Fiber /\ closing[f] \in Seq(Coro) /\ closing[f] # <<>>
      /\ closing' = [closing EXCEPT ![f] = SubSeq(@, 1, Len(@) - 1)]
  BY DEF CloseEnds
<1>b. Len(closing[f]) \in 1..Len(closing[f]) /\ c \in Coro
  BY <1>a
<1>c. status[c] \notin {"running", "normal"}
  BY <1>a, <1>b DEF Apart
<1>d. /\ status' = [status EXCEPT ![c] = "dead"]
      /\ fiber' = [fiber EXCEPT ![c] = "deleted"]
      /\ luaSide' = [luaSide EXCEPT ![c] = "reset"]
      /\ UNCHANGED <<owner, caller, anchored, coFrame, current, frame, active, waiting,
                     turn, phase>>
  BY DEF CloseEnds, Destroy
<1> HIDE DEF c, f
<1>1. TypeOK'
  <2>1. SubSeq(closing[f], 1, Len(closing[f]) - 1) \in Seq(Coro)
    BY <1>a, PopSeq
  <2>2. closing' \in [Fiber -> Seq(Coro)]
    BY <1>a, <2>1
  <2> QED
    BY <2>2, <1>b, <1>d
<1>2. WaitLinks'
  BY <1>b, <1>c, <1>d DEF WaitLinks
<1>3. NormalWaits'
  BY <1>b, <1>c, <1>d DEF NormalWaits
<1>4. CallerLinks'
  BY <1>b, <1>c, <1>d DEF CallerLinks
<1>5. Owned'
  BY <1>b, <1>c, <1>d DEF Owned
<1>6. Switch'
  <2>1. \A u \in Thread : ~Quiet(u) => current[u] \in Coro
    BY DEF Switch, WaitLinks
  <2>2. \A d \in Coro : /\ status[d] \in {"suspended", "dead"} => status'[d] \in {"suspended", "dead"}
                        /\ status'[d] = "running" <=> status[d] = "running"
    BY <1>b, <1>c, <1>d
  <2>3. UNCHANGED <<owner, current, active, waiting>>
    BY <1>d
  <2> QED
    BY <2>1, <2>2, <2>3 DEF Switch
<1>7. Frames'
  BY <1>b, <1>c, <1>d DEF Frames
<1>8. Alive'
  BY <1>b, <1>c, <1>d DEF Alive
<1>9. Apart'
  <2> SUFFICES ASSUME NEW g \in Fiber, NEW i \in 1..Len(closing'[g])
               PROVE  status'[closing'[g][i]] \notin {"running", "normal"}
    BY DEF Apart
  <2>1. i \in 1..Len(closing[g]) /\ closing'[g][i] = closing[g][i]
    <3>1. CASE g # f
      BY <3>1, <1>a
    <3>2. CASE g = f
      <4>1. closing'[f] = SubSeq(closing[f], 1, Len(closing[f]) - 1)
        BY <1>a
      <4>2. Len(closing'[f]) = Len(closing[f]) - 1
        BY <1>a, <4>1, PopSeq
      <4>3. i \in 1..(Len(closing[f]) - 1)
        BY <3>2, <4>2
      <4>4. closing'[f][i] = closing[f][i]
        BY <1>a, <4>1, <4>3, PopSeq
      <4> QED
        BY <3>2, <1>a, <4>3, <4>4
    <3> QED
      BY <3>1, <3>2
  <2>2. closing[g][i] \in Coro
    BY <2>1
  <2>3. status[closing[g][i]] \notin {"running", "normal"}
    BY <2>1 DEF Apart
  <2> QED
    BY <2>1, <2>2, <2>3, <1>d
<1> QED
  BY <1>1, <1>2, <1>3, <1>4, <1>5, <1>6, <1>7, <1>8, <1>9

(* The trampoline installs the recovery frame.                             *)
LEMMA JitEnterInd ==
  ASSUME IndInv, ~HandlersReenter, NEW t \in Thread, JitEnter(t)
  PROVE  IndInv'
<1> USE CoroAssumption DEF IndInv, TypeOK, Fiber, NoCall, Runs, Quiet, Waits, OwnerOf, PrevOf, JitEnter
<1>1. TypeOK'
  OBVIOUS
<1>2. WaitLinks'
  BY DEF WaitLinks
<1>3. NormalWaits'
  BY DEF NormalWaits
<1>4. CallerLinks'
  BY DEF CallerLinks
<1>5. Owned'
  BY DEF Owned
<1>6. Switch'
  BY DEF Switch
<1>7. Frames'
  BY DEF Frames
<1>8. Alive'
  BY DEF Alive
<1>9. Apart'
  BY DEF Apart
<1> QED
  BY <1>1, <1>2, <1>3, <1>4, <1>5, <1>6, <1>7, <1>8, <1>9

(* The trampoline removes it.                                              *)
LEMMA JitLeaveInd ==
  ASSUME IndInv, ~HandlersReenter, NEW t \in Thread, JitLeave(t)
  PROVE  IndInv'
<1> USE CoroAssumption DEF IndInv, TypeOK, Fiber, NoCall, Runs, Quiet, Waits, OwnerOf, PrevOf, JitLeave
<1>1. TypeOK'
  OBVIOUS
<1>2. WaitLinks'
  BY DEF WaitLinks
<1>3. NormalWaits'
  BY DEF NormalWaits
<1>4. CallerLinks'
  BY DEF CallerLinks
<1>5. Owned'
  BY DEF Owned
<1>6. Switch'
  BY DEF Switch
<1>7. Frames'
  BY DEF Frames
<1>8. Alive'
  BY DEF Alive
<1>9. Apart'
  BY DEF Apart
<1> QED
  BY <1>1, <1>2, <1>3, <1>4, <1>5, <1>6, <1>7, <1>8, <1>9

(* A callback on a foreign OS thread begins.                               *)
LEMMA EnterInd ==
  ASSUME IndInv, ~HandlersReenter, NEW t \in Thread, Enter(t)
  PROVE  IndInv'
<1> USE CoroAssumption DEF IndInv, TypeOK, Fiber, NoCall, Runs, Quiet, Waits, OwnerOf, PrevOf, Enter
<1>1. TypeOK'
  <2>1. turn' = Append(turn, t) /\ turn \in Seq(Thread)
    OBVIOUS
  <2>2. turn' \in Seq(Thread) /\ Len(turn') = Len(turn) + 1
    BY <2>1
  <2>3. Len(turn') # 0
    BY <2>2
  <2>4. turn' # <<>>
    BY <2>3
  <2> QED
    BY <2>2, <2>4
<1>2. WaitLinks'
  BY DEF WaitLinks
<1>3. NormalWaits'
  BY DEF NormalWaits
<1>4. CallerLinks'
  BY DEF CallerLinks
<1>5. Owned'
  BY DEF Owned
<1>6. Switch'
  BY DEF Switch
<1>7. Frames'
  BY DEF Frames
<1>8. Alive'
  BY DEF Alive
<1>9. Apart'
  BY DEF Apart
<1> QED
  BY <1>1, <1>2, <1>3, <1>4, <1>5, <1>6, <1>7, <1>8, <1>9

(* It returns.                                                             *)
LEMMA LeaveInd ==
  ASSUME IndInv, ~HandlersReenter, NEW t \in Thread, Leave(t)
  PROVE  IndInv'
<1> USE CoroAssumption DEF IndInv, TypeOK, Fiber, NoCall, Runs, Quiet, Waits, OwnerOf, PrevOf, Leave
<1>1. TypeOK'
  <2>1. turn \in Seq(Thread) /\ turn # <<>> /\ Len(turn) > 1
    OBVIOUS
  <2>2. turn' \in Seq(Thread) /\ Len(turn') = Len(turn) - 1
    BY <2>1, PopSeq
  <2>3. Len(turn') # 0
    BY <2>1, <2>2
  <2>4. turn' # <<>>
    BY <2>3
  <2> QED
    BY <2>2, <2>4
<1>2. WaitLinks'
  BY DEF WaitLinks
<1>3. NormalWaits'
  BY DEF NormalWaits
<1>4. CallerLinks'
  BY DEF CallerLinks
<1>5. Owned'
  BY DEF Owned
<1>6. Switch'
  <2>1. UNCHANGED <<status, owner, caller, current, active, waiting>>
    BY ZenonT(30)
  <2> QED
    BY ONLY IndInv, <2>1 DEF IndInv, Switch, Quiet, PrevOf, OwnerOf
<1>7. Frames'
  BY DEF Frames
<1>8. Alive'
  BY DEF Alive
<1>9. Apart'
  BY DEF Apart
<1> QED
  BY <1>1, <1>2, <1>3, <1>4, <1>5, <1>6, <1>7, <1>8, <1>9

(* lua_close.                                                              *)
LEMMA StateCloseInd ==
  ASSUME IndInv, ~HandlersReenter, NEW t \in Thread, StateClose(t)
  PROVE  IndInv'
<1> USE CoroAssumption DEF IndInv, TypeOK, Fiber, NoCall, Runs, Quiet, Waits, OwnerOf, PrevOf, StateClose
<1>1. TypeOK'
  OBVIOUS
<1>2. WaitLinks'
  BY DEF WaitLinks
<1>3. NormalWaits'
  BY DEF NormalWaits
<1>4. CallerLinks'
  BY DEF CallerLinks
<1>5. Owned'
  BY DEF Owned
<1>6. Switch'
  BY DEF Switch
<1>7. Frames'
  BY DEF Frames
<1>8. Alive'
  BY DEF Alive
<1>9. Apart'
  BY DEF Apart
<1> QED
  BY <1>1, <1>2, <1>3, <1>4, <1>5, <1>6, <1>7, <1>8, <1>9

(* LuaFn_Create.                                                           *)
LEMMA CreateInd ==
  ASSUME IndInv, ~HandlersReenter, NEW t \in Thread, NEW c \in Coro, Create(t, c)
  PROVE  IndInv'
<1> USE CoroAssumption DEF IndInv, TypeOK, Fiber, NoCall, Runs, Quiet, Waits, OwnerOf, PrevOf, Create
<1>a. \A f \in Fiber : waiting[f] # NoCall => waiting[f].co # c /\ waiting[f].co \in Coro
  BY ResumedExists DEF Waits
<1>b. \A u \in Thread : active[u] # c
  <2> SUFFICES ASSUME NEW u \in Thread, active[u] = c PROVE FALSE
    OBVIOUS
  <2>1. active[u] \in Coro
    OBVIOUS
  <2>2. status[active[u]] \in {"running", "normal"}
    BY <2>1, ActiveExists
  <2> QED
    BY <2>2
<1>c. waiting[c] = NoCall
  BY DEF NormalWaits
<1>1. TypeOK'
  OBVIOUS
<1>2. WaitLinks'
  BY <1>a, <1>b, <1>c DEF WaitLinks
<1>3. NormalWaits'
  BY <1>a, <1>b, <1>c DEF NormalWaits
<1>4. CallerLinks'
  BY <1>a, <1>b, <1>c DEF CallerLinks
<1>5. Owned'
  BY <1>a, <1>b, <1>c DEF Owned
<1>6. Switch'
  BY <1>a, <1>b, <1>c DEF Switch
<1>7. Frames'
  BY <1>a, <1>b, <1>c DEF Frames
<1>8. Alive'
  BY <1>a, <1>b, <1>c DEF Alive
<1>9. Apart'
  BY ApartKept DEF Switch, BeingClosed
<1> QED
  BY <1>1, <1>2, <1>3, <1>4, <1>5, <1>6, <1>7, <1>8, <1>9

(* LuaFn_Resume up to the switch.                                          *)
LEMMA ResumeInd ==
  ASSUME IndInv, ~HandlersReenter, NEW t \in Thread, NEW c \in Coro, Resume(t, c)
  PROVE  IndInv'
<1> USE CoroAssumption DEF IndInv, TypeOK, Fiber, NoCall, Runs, Quiet, Waits, OwnerOf, PrevOf, Resume, PrevNormal, Resumable, FrameFor, CallerFor, Enterable
<1>a. status[c] = "suspended" /\ owner[c] = t /\ c \notin BeingClosed
  OBVIOUS
<1>b. current[t] = PrevOf(active[t]) /\ active[t] \in Fiber /\ active[t] # c
  BY <1>a DEF Switch
<1>c. active[t] \in Coro => status[active[t]] = "running" /\ owner[active[t]] = t
  BY DEF Switch, Owned
<1>d. status' = [d \in Coro |-> IF d = c THEN "running"
                                ELSE IF d = active[t] THEN "normal" ELSE status[d]]
  <2>1. status' = [PrevNormal(t) EXCEPT ![c] = "running"]
    OBVIOUS
  <2>2. PrevNormal(t) = [d \in Coro |-> IF d = active[t] THEN "normal" ELSE status[d]]
    BY <1>b
  <2>3. c \in Coro
    OBVIOUS
  <2> HIDE DEF PrevNormal
  <2> QED
    BY ONLY <2>1, <2>2, <2>3
<1>e. waiting[c] = NoCall
  BY <1>a DEF NormalWaits
<1>1. TypeOK'
  <2>1. status' \in [Coro -> {"absent", "suspended", "running", "normal", "dead"}]
    BY <1>d
  <2>2. [co |-> c, prev |-> current[t], saved |-> frame[t]]
          \in [co : Coro \cup {Nil}, prev : Coro \cup {Nil}, saved : Fiber \cup {Nil}]
    OBVIOUS
  <2>3. waiting' \in [Fiber -> [co : Coro \cup {Nil}, prev : Coro \cup {Nil},
                               saved : Fiber \cup {Nil}]]
    BY <2>2
  <2> QED
    BY <2>1, <2>3
<1>2. WaitLinks'
  BY DEF WaitLinks, Switch
<1>3. NormalWaits'
  BY DEF NormalWaits, Switch
<1>4. CallerLinks'
  BY DEF WaitLinks, NormalWaits, CallerLinks, Owned, Switch, Frames, Alive, Apart
<1>5. Owned'
  BY DEF Owned
<1>6. Switch'
  <2>1. \A u \in Thread \ {t} : /\ active'[u] = active[u] /\ current'[u] = current[u]
                              /\ waiting'[active[u]] = waiting[active[u]]
    BY <1>b DEF Owned
  <2>2. /\ active'[t] = c /\ current'[t] = c /\ waiting'[c] = NoCall
    BY <1>b, <1>e
  <2>3. \A u \in Thread \ {t} : status'[current[u]] = status[current[u]] \/ Quiet(u)
    BY <1>a, <1>b, <1>c, <1>d DEF Switch, Owned, WaitLinks
  <2>4. \A u \in Thread \ {t} : \A d \in Coro : owner[d] = u => status'[d] = status[d]
    BY <1>a, <1>c, <1>d
  <2>6. \A d \in Coro : owner[d] = t /\ status[d] = "running" => d = active[t]
    BY DEF Switch
  <2>5. \A d \in Coro : owner[d] = t => (status'[d] = "running" <=> d = c)
    BY <1>d, <2>6
  <2>7. owner' = owner
    OBVIOUS
  <2> SUFFICES ASSUME NEW u \in Thread
               PROVE  /\ Quiet(u)' => current'[u] = PrevOf(active'[u])
                      /\ ~Quiet(u)' => /\ current'[u] = waiting'[active'[u]].co
                                       /\ status'[current'[u]] \in {"suspended", "dead"}
                      /\ \A d \in Coro : owner'[d] = u =>
                           (status'[d] = "running" <=> Quiet(u)' /\ d = active'[u])
    BY DEF Switch
  <2>8. CASE u = t
    BY <2>8, <2>2, <2>5, <2>7
  <2>9. CASE u # t
    <3>1. Quiet(u)' <=> Quiet(u)
      BY <2>1, <2>9
    <3>2. active'[u] = active[u] /\ current'[u] = current[u] /\ waiting'[active'[u]] = waiting[active[u]]
      BY <2>1, <2>9
    <3>3. \A d \in Coro : owner[d] = u => status'[d] = status[d]
      BY <2>4, <2>9
    <3> HIDE DEF Resume, Runs, Quiet
    <3> QED
      BY <2>3, <2>7, <2>9, <3>1, <3>2, <3>3 DEF Switch
  <2> QED
    BY <2>8, <2>9
<1>7. Frames'
  BY DEF Frames, Owned
<1>8. Alive'
  BY DEF WaitLinks, NormalWaits, CallerLinks, Owned, Switch, Frames, Alive, Apart
<1>9. Apart'
  <2>1. \A d \in Coro : status[d] \notin {"running", "normal"} /\ d \in BeingClosed
                         => status'[d] \notin {"running", "normal"}
    BY <1>a, <1>c, <1>d
  <2> QED
    BY <2>1, ApartKept
<1> QED
  BY <1>1, <1>2, <1>3, <1>4, <1>5, <1>6, <1>7, <1>8, <1>9

(* LuaFn_Close with nothing pending.                                       *)
LEMMA CloseIdleInd ==
  ASSUME IndInv, ~HandlersReenter, NEW t \in Thread, NEW c \in Coro, CloseIdle(t, c)
  PROVE  IndInv'
<1> USE CoroAssumption DEF IndInv, TypeOK, Fiber, NoCall, Runs, Quiet, Waits, OwnerOf, PrevOf, CloseIdle, Destroy, Closable
<1>1. TypeOK'
  OBVIOUS
<1>2. WaitLinks'
  BY DEF WaitLinks
<1>3. NormalWaits'
  BY DEF NormalWaits
<1>4. CallerLinks'
  BY DEF CallerLinks
<1>5. Owned'
  BY DEF Owned
<1>6. Switch'
  BY DEF Switch
<1>7. Frames'
  BY DEF Frames
<1>8. Alive'
  BY DEF Alive
<1>9. Apart'
  <2>1. c \notin BeingClosed /\ status' = [status EXCEPT ![c] = "dead"] /\ closing' = closing
    BY DEF Enterable
  <2>2. \A d \in Coro : status[d] \notin {"running", "normal"} => status'[d] \notin {"running", "normal"}
    BY <2>1
  <2> QED
    BY <2>1, <2>2, ApartKept
<1> QED
  BY <1>1, <1>2, <1>3, <1>4, <1>5, <1>6, <1>7, <1>8, <1>9

(* LuaFn_Close up to the handlers.                                         *)
LEMMA CloseBeginsInd ==
  ASSUME IndInv, ~HandlersReenter, NEW t \in Thread, NEW c \in Coro, CloseBegins(t, c)
  PROVE  IndInv'
<1> USE CoroAssumption DEF IndInv, TypeOK, Fiber, NoCall, Runs, Quiet, Waits, OwnerOf, PrevOf, CloseBegins, Closable
<1>1. TypeOK'
  <2>1. Append(closing[active[t]], c) \in Seq(Coro)
    OBVIOUS
  <2> QED
    BY <2>1
<1>2. WaitLinks'
  BY DEF WaitLinks
<1>3. NormalWaits'
  BY DEF NormalWaits
<1>4. CallerLinks'
  BY DEF CallerLinks
<1>5. Owned'
  BY DEF Owned
<1>6. Switch'
  BY DEF Switch
<1>7. Frames'
  BY DEF Frames
<1>8. Alive'
  BY DEF Alive
<1>9. Apart'
  <2> SUFFICES ASSUME NEW g \in Fiber, NEW i \in 1..Len(closing'[g])
               PROVE  status[closing'[g][i]] \notin {"running", "normal"}
    BY DEF Apart
  <2>1. CASE g # active[t]
    BY <2>1 DEF Apart
  <2>2. CASE g = active[t]
    <3>1. closing'[g] = Append(closing[g], c) /\ closing[g] \in Seq(Coro)
      BY <2>2
    <3>a. c \in Coro /\ i \in 1..Len(closing'[g])
      OBVIOUS
    <3>b. Len(closing'[g]) = Len(closing[g]) + 1 /\ Len(closing[g]) \in Nat
      BY ONLY <3>1, <3>a
    <3>2. /\ i \in 1..(Len(closing[g]) + 1)
          /\ closing'[g][i] = IF i = Len(closing[g]) + 1 THEN c ELSE closing[g][i]
      BY ONLY <3>1, <3>a, <3>b
    <3>3. i # Len(closing[g]) + 1 => i \in 1..Len(closing[g])
      BY ONLY <3>b, <3>2
    <3> QED
      BY <3>2, <3>3 DEF Apart
  <2> QED
    BY <2>1, <2>2
<1> QED
  BY <1>1, <1>2, <1>3, <1>4, <1>5, <1>6, <1>7, <1>8, <1>9

(* __gc of an unanchored coroutine.                                        *)
LEMMA CollectInd ==
  ASSUME IndInv, ~HandlersReenter, NEW c \in Coro, Collect(c)
  PROVE  IndInv'
<1> USE CoroAssumption DEF IndInv, TypeOK, Fiber, NoCall, Runs, Quiet, Waits, OwnerOf, PrevOf, Collect
<1>a. \A f \in Fiber : waiting[f] # NoCall => waiting[f].co # c /\ waiting[f].co \in Coro
  BY ResumedExists DEF Waits, Alive
<1>b. status[c] \notin {"running", "normal"}
  <2> SUFFICES ASSUME status[c] \in {"running", "normal"} PROVE FALSE
    OBVIOUS
  <2>1. caller[c] \in Fiber /\ waiting[caller[c]].co = c
    BY DEF CallerLinks
  <2> QED
    BY <1>a, <2>1
<1>c. \A u \in Thread : active[u] # c
  <2> SUFFICES ASSUME NEW u \in Thread, active[u] = c PROVE FALSE
    OBVIOUS
  <2>1. IndInv /\ active[u] \in Coro
    OBVIOUS
  <2>2. status[active[u]] \in {"running", "normal"}
    BY ONLY <2>1, ActiveExists, u \in Thread
  <2> QED
    BY <1>b, <2>2
<1>d. waiting[c] = NoCall
  BY <1>b DEF NormalWaits
<1>e. \A u \in Thread : ~Quiet(u) => current[u] # c
  BY <1>a DEF Switch
<1>1. TypeOK'
  OBVIOUS
<1>2. WaitLinks'
  BY <1>a, <1>b, <1>c, <1>d, <1>e DEF WaitLinks
<1>3. NormalWaits'
  BY <1>a, <1>b, <1>c, <1>d, <1>e DEF NormalWaits
<1>4. CallerLinks'
  BY <1>a, <1>b, <1>c, <1>d, <1>e DEF CallerLinks
<1>5. Owned'
  BY <1>a, <1>b, <1>c, <1>d, <1>e DEF Owned
<1>6. Switch'
  BY <1>a, <1>b, <1>c, <1>d, <1>e DEF Switch
<1>7. Frames'
  BY <1>a, <1>b, <1>c, <1>d, <1>e DEF Frames
<1>8. Alive'
  BY <1>a, <1>b, <1>c, <1>d, <1>e DEF Alive
<1>9. Apart'
  BY ApartKept
<1> QED
  BY <1>1, <1>2, <1>3, <1>4, <1>5, <1>6, <1>7, <1>8, <1>9

(* The invariant holds at first.                                           *)
LEMMA InitInd == Init => IndInv
  BY CoroAssumption DEF Init, IndInv, TypeOK, WaitLinks, NormalWaits, CallerLinks, Owned,
     Switch, Frames, Alive, Apart, Fiber, NoCall, Waits, Quiet, OwnerOf, PrevOf

(* A stuttering step keeps it.                                             *)
LEMMA StutterInd == IndInv /\ UNCHANGED vars => IndInv'
  BY DEF vars, IndInv, TypeOK, WaitLinks, NormalWaits, CallerLinks, Owned,
     Switch, Frames, Alive, Apart, Waits, Quiet, OwnerOf, PrevOf

(* Every step keeps it.                                                    *)
LEMMA NextInd == ~HandlersReenter /\ IndInv /\ [Next]_vars => IndInv'
<1> SUFFICES ASSUME ~HandlersReenter, IndInv, [Next]_vars PROVE IndInv'
  OBVIOUS
<1>1. ASSUME NEW t \in Thread, ResumeReturns(t) PROVE IndInv'
  BY <1>1, ResumeReturnsInd
<1>2. ASSUME NEW t \in Thread, Yield(t) PROVE IndInv'
  BY <1>2, YieldInd
<1>3. ASSUME NEW t \in Thread, Finish(t) PROVE IndInv'
  BY <1>3, FinishInd
<1>4. ASSUME NEW t \in Thread, CloseEnds(t) PROVE IndInv'
  BY <1>4, CloseEndsInd
<1>5. ASSUME NEW t \in Thread, JitEnter(t) PROVE IndInv'
  BY <1>5, JitEnterInd
<1>6. ASSUME NEW t \in Thread, JitLeave(t) PROVE IndInv'
  BY <1>6, JitLeaveInd
<1>7. ASSUME NEW t \in Thread, Enter(t) PROVE IndInv'
  BY <1>7, EnterInd
<1>8. ASSUME NEW t \in Thread, Leave(t) PROVE IndInv'
  BY <1>8, LeaveInd
<1>9. ASSUME NEW t \in Thread, StateClose(t) PROVE IndInv'
  BY <1>9, StateCloseInd
<1>10. ASSUME NEW t \in Thread, NEW c \in Coro, Create(t, c) PROVE IndInv'
  BY <1>10, CreateInd
<1>11. ASSUME NEW t \in Thread, NEW c \in Coro, Resume(t, c) PROVE IndInv'
  BY <1>11, ResumeInd
<1>12. ASSUME NEW t \in Thread, NEW c \in Coro, CloseIdle(t, c) PROVE IndInv'
  BY <1>12, CloseIdleInd
<1>13. ASSUME NEW t \in Thread, NEW c \in Coro, CloseBegins(t, c) PROVE IndInv'
  BY <1>13, CloseBeginsInd
<1>14. ASSUME NEW c \in Coro, Collect(c) PROVE IndInv'
  BY <1>14, CollectInd
<1>15. CASE UNCHANGED vars
  BY <1>15, StutterInd
<1> QED
  BY <1>1, <1>2, <1>3, <1>4, <1>5, <1>6, <1>7, <1>8, <1>9, <1>10, <1>11, <1>12, <1>13, <1>14, <1>15 DEF Next

(* With handlers that stay out of their own coroutine, the local invariant *)
(* holds in every reachable state.                                         *)
LEMMA SpecInd == ~HandlersReenter => (Spec => []IndInv)
<1> SUFFICES ASSUME ~HandlersReenter PROVE Spec => []IndInv
  OBVIOUS
<1>1. IndInv /\ [Next]_vars => IndInv'
  BY NextInd
<1> QED
  BY InitInd, <1>1, PTL DEF Spec

(* Type correctness of the library's state.                                *)
THEOREM SpecTypeOK == ~HandlersReenter => (Spec => []TypeOK)
<1>1. IndInv => TypeOK
  BY DEF IndInv
<1> SUFFICES ASSUME ~HandlersReenter PROVE Spec => []TypeOK
  OBVIOUS
<1> QED
  BY <1>1, SpecInd, PTL

(* User code in a coroutine always sees itself as the current, running one. *)
THEOREM SpecCurrentIsRunning == ~HandlersReenter => (Spec => []CurrentIsRunning)
<1>1. IndInv => CurrentIsRunning
  BY CoroAssumption DEF IndInv, CurrentIsRunning, TypeOK, Switch, PrevOf, Quiet
<1> SUFFICES ASSUME ~HandlersReenter PROVE Spec => []CurrentIsRunning
  OBVIOUS
<1> QED
  BY <1>1, SpecInd, PTL

(* A yield, a return or an error always lands in the resume that is waiting for it. *)
THEOREM SpecCallerWaits == ~HandlersReenter => (Spec => []CallerWaits)
<1>1. IndInv => CallerWaits
  BY CoroAssumption DEF IndInv, CallerWaits, WaitLinks, CallerLinks, Waits, NoCall, PrevOf
<1> SUFFICES ASSUME ~HandlersReenter PROVE Spec => []CallerWaits
  OBVIOUS
<1> QED
  BY <1>1, SpecInd, PTL

(* A hardware fault is recovered on the fiber that faulted.                *)
THEOREM SpecFrameOfOwnFiber == ~HandlersReenter => (Spec => []FrameOfOwnFiber)
<1>1. IndInv => FrameOfOwnFiber
  BY DEF IndInv, FrameOfOwnFiber, Frames
<1> SUFFICES ASSUME ~HandlersReenter PROVE Spec => []FrameOfOwnFiber
  OBVIOUS
<1> QED
  BY <1>1, SpecInd, PTL

(* No fiber that runs, or waits for one that runs, is deleted.             *)
THEOREM SpecNoLiveFiberDeleted == ~HandlersReenter => (Spec => []NoLiveFiberDeleted)
<1>1. IndInv => NoLiveFiberDeleted
  BY CoroAssumption DEF IndInv, NoLiveFiberDeleted, TypeOK, Alive, CallerLinks, Waits, NoCall
<1> SUFFICES ASSUME ~HandlersReenter PROVE Spec => []NoLiveFiberDeleted
  OBVIOUS
<1> QED
  BY <1>1, SpecInd, PTL

-----------------------------------------------------------------------------
(* Paths of caller links.  Which fiber a coroutine goes back to is a link; *)
(* the stack of a thread is the path that ends at its active fiber.        *)

(* A non-empty set of small numbers has a least one.                       *)
LEMMA Least ==
  ASSUME NEW n \in Nat, NEW T \in SUBSET (0..n), T # {}
  PROVE  \E x \in T : \A y \in T : x <= y
<1> DEFINE Family == {0..x : x \in T}
<1>1. Family \subseteq FiniteSubsetsOf(0..n) /\ Family # {}
  <2>1. ASSUME NEW x \in T PROVE 0..x \in SUBSET (0..n) /\ IsFiniteSet(0..x)
    <3>1. x \in Nat /\ x <= n
      OBVIOUS
    <3>2. IsFiniteSet(0..x)
      BY <3>1, FS_Interval
    <3> QED
      BY <3>1, <3>2
  <2> QED
    BY <2>1 DEF FiniteSubsetsOf
<1>2. \E D \in Family : \A E \in Family : <<E, D>> \notin StrictSubsetOrdering(0..n)
  <2> HIDE DEF Family
  <2>1. IsWellFoundedOn(StrictSubsetOrdering(0..n), FiniteSubsetsOf(0..n))
    <3>1. IsFiniteSet(0..n)
      BY FS_Interval
    <3> QED
      BY <3>1, FS_StrictSubsetOrderingWellFounded
  <2> QED
    BY <1>1, <2>1, WFMin, Zenon
<1>3. PICK x \in T : \A y \in T : <<0..y, 0..x>> \notin StrictSubsetOrdering(0..n)
  BY <1>2, Zenon
<1>4. ASSUME NEW y \in T, y < x PROVE FALSE
  <2>1. 0..y \subseteq 0..x /\ 0..x \subseteq 0..n /\ x \in 0..x /\ x \notin 0..y
    BY <1>4
  <2>2. 0..y # 0..x /\ 0..y \in SUBSET (0..n) /\ 0..x \in SUBSET (0..n)
    BY <2>1
  <2>3. <<0..y, 0..x>> \in StrictSubsetOrdering(0..n)
    BY <2>1, <2>2 DEF StrictSubsetOrdering
  <2> QED
    BY <1>3, <2>3
<1>5. \A y \in T : x <= y
  BY <1>4
<1> QED
  BY <1>5

(* Following the same links back from the same fiber, two paths agree.     *)
LEMMA PathsAgree ==
  ASSUME NEW f, NEW link, NEW r \in Seq(Coro), NEW s \in Seq(Coro),
         IsPath(r, f, link), IsPath(s, f, link), Len(r) <= Len(s)
  PROVE  \A k \in 0..(Len(r) - 1) : r[Len(r) - k] = s[Len(s) - k]
<1> DEFINE T == {k \in 0..(Len(r) - 1) : r[Len(r) - k] # s[Len(s) - k]}
<1>0. Len(r) \in Nat /\ Len(s) \in Nat
  OBVIOUS
<1> SUFFICES ASSUME T # {} PROVE FALSE
  OBVIOUS
<1>1. PICK k \in T : \A j \in T : k <= j
  <2>1. T \in SUBSET (0..Len(r))
    BY <1>0
  <2> HIDE DEF T
  <2> QED
    BY <1>0, <2>1, Least
<1>2. k \in 0..(Len(r) - 1) /\ r[Len(r) - k] # s[Len(s) - k]
  OBVIOUS
<1>3. r # <<>> /\ s # <<>>
  BY <1>0, <1>2
<1>4. k # 0
  BY <1>0, <1>2, <1>3 DEF IsPath
<1>5. k - 1 \in 0..(Len(r) - 1) /\ ~(k <= k - 1)
  BY <1>0, <1>2, <1>4
<1>6. r[Len(r) - (k - 1)] = s[Len(s) - (k - 1)]
  <2>1. k - 1 \notin T
    <3> HIDE DEF T
    <3> QED
      BY <1>1, <1>5
  <2> QED
    BY <1>5, <2>1
<1> DEFINE i == Len(r) - (k - 1)
           j == Len(s) - (k - 1)
<1>7. i \in 2..Len(r) /\ j \in 2..Len(s) /\ i - 1 = Len(r) - k /\ j - 1 = Len(s) - k
  BY <1>0, <1>2, <1>4
<1>8. r[i - 1] = link[r[i]] /\ s[j - 1] = link[s[j]]
  BY <1>7 DEF IsPath
<1> QED
  BY <1>2, <1>6, <1>7, <1>8

(* So there is at most one path to a fiber.                                *)
LEMMA OnePath ==
  ASSUME NEW f, NEW link, NEW r \in Seq(Coro), NEW s \in Seq(Coro),
         IsPath(r, f, link), IsPath(s, f, link), Len(r) <= Len(s)
  PROVE  r = s
<1>0. Len(r) \in Nat /\ Len(s) \in Nat
  OBVIOUS
<1>1. \A k \in 0..(Len(r) - 1) : r[Len(r) - k] = s[Len(s) - k]
  BY PathsAgree
<1>2. Len(r) = Len(s)
  <2> SUFFICES ASSUME Len(r) < Len(s) PROVE FALSE
    BY <1>0
  <2>1. r # <<>> /\ Len(r) > 0
    <3>1. s # <<>>
      BY <1>0
    <3>2. r # <<>>
      BY <3>1 DEF IsPath
    <3> QED
      BY <3>2
  <2> DEFINE i == Len(s) - Len(r) + 1
  <2>2. i \in 2..Len(s) /\ i - 1 \in 1..Len(s)
    BY <1>0, <2>1
  <2>3. r[1] = s[i]
    <3>1. Len(r) - 1 \in 0..(Len(r) - 1) /\ Len(r) - (Len(r) - 1) = 1 /\ Len(s) - (Len(r) - 1) = i
      BY <1>0, <2>1
    <3> QED
      BY <1>1, <3>1
  <2>4. link[s[i]] = s[i - 1] /\ s[i - 1] \in Coro
    BY <2>2 DEF IsPath
  <2>5. link[r[1]] \notin Coro
    BY <2>1 DEF IsPath
  <2> QED
    BY <2>3, <2>4, <2>5
<1>3. \A i \in 1..Len(r) : r[i] = s[i]
  <2> TAKE i \in 1..Len(r)
  <2>1. Len(r) - i \in 0..(Len(r) - 1) /\ Len(r) - (Len(r) - i) = i
    BY <1>0
  <2> QED
    BY <1>1, <1>2, <2>1
<1> QED
  BY <1>2, <1>3, SeqEqual

(* A path that goes through no coroutine twice is the path to its fiber.   *)
LEMMA PathIs ==
  ASSUME NEW f, NEW link, NEW s \in Seq(Coro), IsPath(s, f, link),
         \A i, j \in 1..Len(s) : s[i] = s[j] => i = j
  PROVE  PathTo(f, link) = s
<1>0. Len(s) \in Nat /\ s \in [1..Len(s) -> Coro]
  OBVIOUS
<1>1. s \in Paths
  <2> DEFINE D == 1..Len(s)
  <2>1. s \in Injection(D, Coro)
    BY <1>0 DEF Injection, IsInjective
  <2>2. IsFiniteSet(D) /\ Cardinality(D) = Len(s)
    BY <1>0, FS_Interval
  <2>3. Cardinality(D) <= Cardinality(Coro) /\ Cardinality(Coro) \in Nat
    <3> HIDE DEF D
    <3> QED
      BY <2>1, <2>2, CoroFinite, FS_Injection, FS_CardinalityType
  <2>4. Len(s) \in 0..Cardinality(Coro)
    BY <1>0, <2>2, <2>3
  <2> QED
    BY <1>0, <2>4 DEF Paths
<1>2. ASSUME NEW r \in Paths, IsPath(r, f, link) PROVE r = s
  <2>1. r \in Seq(Coro) /\ Len(r) \in Nat
    <3>1. Cardinality(Coro) \in Nat
      BY CoroFinite, FS_CardinalityType
    <3>2. PICK n \in 0..Cardinality(Coro) : r \in [1..n -> Coro]
      BY DEF Paths
    <3>3. n \in Nat
      BY <3>1, <3>2
    <3>4. r \in Seq(Coro)
      BY ONLY <3>2, <3>3
    <3> QED
      BY <3>4
  <2>2. Len(r) <= Len(s) \/ Len(s) <= Len(r)
    BY <1>0, <2>1
  <2> QED
    BY <1>2, <2>1, <2>2, OnePath
<1>3. \E r \in Paths : IsPath(r, f, link)
  BY <1>1
<1> QED
  BY <1>2, <1>3 DEF PathTo

-----------------------------------------------------------------------------
(* The activation stacks, and the rest of what the mapping to CoroAbs       *)
(* needs: it does follow the whole chain.                                  *)

(* The activations of thread t: a path of distinct, entered coroutines.    *)
IsStack(s, t) ==
  /\ IsPath(s, active[t], caller)
  /\ \A i, j \in 1..Len(s) : s[i] = s[j] => i = j
  /\ \A i \in 1..Len(s) : status[s[i]] \in {"running", "normal"} /\ owner[s[i]] = t

Stacked == \A t \in Thread : \E s \in Seq(Coro) : IsStack(s, t)

(* The handlers of a coroutine run on one fiber, once.                     *)
ClosedOnce ==
  \A f, g \in Fiber : \A i \in 1..Len(closing[f]), j \in 1..Len(closing[g]) :
    closing[f][i] = closing[g][j] => f = g /\ i = j

(* They run while it is suspended, and still has its fiber.                *)
ClosedSuspended == \A c \in BeingClosed : status[c] = "suspended" /\ fiber[c] # "none"

(* A dead coroutine has nothing left to tear down.                         *)
DeadReset == \A c \in Coro : status[c] = "dead" => luaSide[c] = "reset"

(* A coroutine is anchored as long as it has had a fiber, and only such a  *)
(* one is ever entered or closed.                                          *)
Made ==
  \A c \in Coro :
    /\ fiber[c] = "none" => status[c] \in {"absent", "suspended"}
    /\ status[c] = "absent" => fiber[c] = "none"
    /\ phase = "run" => (anchored[c] <=> fiber[c] # "none")

AbsInd == Stacked /\ ClosedOnce /\ ClosedSuspended /\ DeadReset /\ Made

(* The stack of a thread is what AbsStack computes.                        *)
LEMMA StackIs ==
  ASSUME NEW t \in Thread, NEW s \in Seq(Coro), IsStack(s, t)
  PROVE  AbsStack[t] = s
  BY PathIs DEF IsStack, AbsStack

(* And in the next state.                                                  *)
LEMMA StackBecomes ==
  ASSUME NEW t \in Thread, NEW s \in Seq(Coro), IsStack(s, t)'
  PROVE  AbsStack'[t] = s
<1>1. PathTo(active'[t], caller') = s
  BY PathIs DEF IsStack
<1> QED
  BY <1>1 DEF AbsStack, PathTo, Paths

(* A thread that executes the same fiber keeps its stack when no           *)
(* coroutine on it changes.                                                *)
LEMMA StackKept ==
  ASSUME NEW t \in Thread, NEW s \in Seq(Coro), IsStack(s, t), active'[t] = active[t],
         \A c \in Coro : status[c] \in {"running", "normal"} /\ owner[c] = t =>
           /\ caller'[c] = caller[c] /\ owner'[c] = owner[c]
           /\ status'[c] \in {"running", "normal"}
  PROVE  IsStack(s, t)'
<1>1. Len(s) \in Nat /\ \A i \in 1..Len(s) : s[i] \in Coro
  OBVIOUS
<1>2. \A i \in 1..Len(s) :
        /\ caller'[s[i]] = caller[s[i]]
        /\ status'[s[i]] \in {"running", "normal"} /\ owner'[s[i]] = t
  BY <1>1 DEF IsStack
<1>3. IsPath(s, active'[t], caller')
  <2>1. s # <<>> => 1 \in 1..Len(s)
    BY <1>1
  <2>2. \A i \in 2..Len(s) : i \in 1..Len(s)
    BY <1>1
  <2> QED
    BY <1>2, <2>1, <2>2 DEF IsStack, IsPath
<1> QED
  BY <1>2, <1>3 DEF IsStack

(* All threads do when nothing is switched or entered.                     *)
LEMMA StacksKept ==
  ASSUME Stacked, active' = active,
         \A c \in Coro : status[c] \in {"running", "normal"} =>
           /\ caller'[c] = caller[c] /\ owner'[c] = owner[c]
           /\ status'[c] \in {"running", "normal"}
  PROVE  Stacked' /\ AbsStack' = AbsStack
<1>1. ASSUME NEW t \in Thread
      PROVE  (\E s \in Seq(Coro) : IsStack(s, t)') /\ AbsStack'[t] = AbsStack[t]
  <2>1. PICK s \in Seq(Coro) : IsStack(s, t)
    BY DEF Stacked
  <2>2. IsStack(s, t)'
    BY <2>1, StackKept
  <2> QED
    BY <2>1, <2>2, StackIs, StackBecomes
<1>2. AbsStack = [t \in Thread |-> AbsStack[t]] /\ AbsStack' = [t \in Thread |-> AbsStack'[t]]
  BY DEF AbsStack
<1>3. AbsStack' = AbsStack
  BY <1>1, <1>2
<1> QED
  BY <1>1, <1>3 DEF Stacked

(* A switch back to the caller takes the top activation off.               *)
LEMMA StackPopped ==
  ASSUME NEW t \in Thread, NEW s \in Seq(Coro), IsStack(s, t), active[t] \in Coro,
         active'[t] = caller[active[t]],
         \A c \in Coro \ {active[t]} : status[c] \in {"running", "normal"} /\ owner[c] = t =>
           /\ caller'[c] = caller[c] /\ owner'[c] = owner[c]
           /\ status'[c] \in {"running", "normal"}
  PROVE  /\ s # <<>> /\ s[Len(s)] = active[t]
         /\ SubSeq(s, 1, Len(s) - 1) \in Seq(Coro)
         /\ IsStack(SubSeq(s, 1, Len(s) - 1), t)'
<1>1. s # <<>> /\ s[Len(s)] = active[t]
  BY DEF IsStack, IsPath
<1> DEFINE r == SubSeq(s, 1, Len(s) - 1)
<1>2. /\ r \in Seq(Coro) /\ Len(r) = Len(s) - 1 /\ Len(s) \in Nat \ {0}
      /\ \A i \in 1..(Len(s) - 1) : r[i] = s[i]
  BY <1>1, PopSeq
<1> HIDE DEF r
<1>3. \A i \in 1..Len(r) : i \in 1..Len(s) /\ i # Len(s) /\ r[i] = s[i] /\ s[i] \in Coro
  BY <1>2
<1>4. \A i \in 1..Len(r) : r[i] # active[t]
  <2>1. Len(s) \in 1..Len(s)
    BY <1>2
  <2> QED
    BY <1>1, <1>3, <2>1 DEF IsStack
<1>5. \A i \in 1..Len(r) :
        /\ caller'[r[i]] = caller[r[i]]
        /\ status'[r[i]] \in {"running", "normal"} /\ owner'[r[i]] = t
  BY <1>3, <1>4 DEF IsStack
<1>6. \A i, j \in 1..Len(r) : r[i] = r[j] => i = j
  BY <1>3 DEF IsStack
<1>7. IsPath(r, active'[t], caller')
  <2>1. CASE Len(s) = 1
    <3>1. r = <<>>
      BY <1>2, <2>1
    <3>2. caller[active[t]] \notin Coro
      BY <1>1, <2>1 DEF IsStack, IsPath
    <3> QED
      BY <3>1, <3>2 DEF IsPath
  <2>2. CASE Len(s) # 1
    <3>1. Len(s) \in 2..Len(s) /\ Len(r) \in 1..Len(r) /\ 1 \in 1..Len(r) /\ Len(r) = Len(s) - 1
      BY <1>2, <2>2
    <3>2. caller[active[t]] = s[Len(s) - 1] /\ r[Len(r)] = s[Len(s) - 1] /\ r[Len(r)] \in Coro
      BY <1>1, <1>3, <3>1 DEF IsStack, IsPath
    <3>3. r # <<>>
      BY <3>1
    <3>4. caller'[r[1]] \notin Coro
      BY <1>1, <1>3, <1>5, <3>1 DEF IsStack, IsPath
    <3>5. \A i \in 2..Len(r) : caller'[r[i]] = r[i - 1]
      <4> TAKE i \in 2..Len(r)
      <4>1. i \in 1..Len(r) /\ i - 1 \in 1..Len(r) /\ i \in 2..Len(s)
        BY <1>2
      <4> QED
        <5>1. r[i] = s[i] /\ r[i - 1] = s[i - 1]
          BY <1>3, <4>1
        <5>2. caller'[r[i]] = caller[r[i]]
          BY <1>5, <4>1
        <5>3. caller[s[i]] = s[i - 1]
          BY <4>1 DEF IsStack, IsPath
        <5> QED
          BY ONLY <5>1, <5>2, <5>3
    <3> QED
      BY <3>2, <3>3, <3>4, <3>5 DEF IsPath
  <2> QED
    BY <2>1, <2>2
<1> QED
  BY <1>1, <1>2, <1>5, <1>6, <1>7 DEF r, IsStack

(* A switch to a suspended coroutine puts it on top.                       *)
LEMMA StackPushed ==
  ASSUME NEW t \in Thread, NEW s \in Seq(Coro), IsStack(s, t), NEW c \in Coro,
         status[c] \notin {"running", "normal"},
         active'[t] = c, caller'[c] = active[t],
         owner'[c] = t, status'[c] \in {"running", "normal"},
         \A d \in Coro \ {c} : status[d] \in {"running", "normal"} /\ owner[d] = t =>
           /\ caller'[d] = caller[d] /\ owner'[d] = owner[d]
           /\ status'[d] \in {"running", "normal"}
  PROVE  Append(s, c) \in Seq(Coro) /\ IsStack(Append(s, c), t)'
<1> DEFINE r == Append(s, c)
<1>1. /\ r \in Seq(Coro) /\ Len(r) = Len(s) + 1 /\ Len(s) \in Nat /\ r[Len(r)] = c
      /\ \A i \in 1..Len(s) : r[i] = s[i] /\ s[i] \in Coro
  OBVIOUS
<1> HIDE DEF r
<1>2. \A i \in 1..Len(s) : s[i] # c
  BY DEF IsStack
<1>3. \A i \in 1..Len(s) :
        /\ caller'[s[i]] = caller[s[i]]
        /\ status'[s[i]] \in {"running", "normal"} /\ owner'[s[i]] = t
  BY <1>1, <1>2 DEF IsStack
<1>4. \A i \in 1..Len(r) : i # Len(r) => i \in 1..Len(s)
  BY <1>1
<1>5. \A i, j \in 1..Len(r) : r[i] = r[j] => i = j
  BY <1>1, <1>2, <1>4 DEF IsStack
<1>6. \A i \in 1..Len(r) : status'[r[i]] \in {"running", "normal"} /\ owner'[r[i]] = t
  BY <1>1, <1>3, <1>4
<1>7. IsPath(r, active'[t], caller')
  <2>1. r # <<>>
    BY <1>1
  <2>2. caller'[r[1]] \notin Coro
    <3>1. CASE s = <<>>
      <4>1. r[1] = c /\ active[t] \notin Coro
        BY <1>1, <3>1 DEF IsStack, IsPath
      <4> QED
        BY <4>1
    <3>2. CASE s # <<>>
      <4>1. 1 \in 1..Len(s)
        BY <1>1, <3>2
      <4> QED
        BY <1>1, <1>3, <3>2, <4>1 DEF IsStack, IsPath
    <3> QED
      BY <3>1, <3>2
  <2>3. \A i \in 2..Len(r) : caller'[r[i]] = r[i - 1]
    <3> TAKE i \in 2..Len(r)
    <3>1. i - 1 \in 1..Len(s) /\ r[i - 1] = s[i - 1]
      BY <1>1
    <3>2. CASE i = Len(r)
      <4>1. i - 1 = Len(s) /\ s # <<>>
        BY <1>1, <3>1, <3>2
      <4>2. s[Len(s)] = active[t]
        BY <4>1 DEF IsStack, IsPath
      <4> QED
        BY <1>1, <3>1, <3>2, <4>1, <4>2
    <3>3. CASE i # Len(r)
      <4>1. i \in 2..Len(s) /\ i \in 1..Len(s)
        BY <1>1, <3>3
      <4> QED
        BY <1>1, <1>3, <3>1, <4>1 DEF IsStack, IsPath
    <3> QED
      BY <3>2, <3>3
  <2> QED
    BY <1>1, <2>1, <2>2, <2>3 DEF IsPath
<1> QED
  BY <1>1, <1>5, <1>6, <1>7 DEF r, IsStack

-----------------------------------------------------------------------------
(* The steps                                                               *)

(* Which coroutines have handlers running, place by place.                 *)
LEMMA ClosedAt ==
  ASSUME NEW cl \in [Fiber -> Seq(Coro)]
  PROVE  UNION {Range(cl[f]) : f \in Fiber}
           = {c \in Coro : \E f \in Fiber : \E i \in 1..Len(cl[f]) : cl[f][i] = c}
<1>1. \A f \in Fiber : cl[f] \in Seq(Coro) /\ DOMAIN cl[f] = 1..Len(cl[f])
                       /\ \A i \in 1..Len(cl[f]) : cl[f][i] \in Coro
  OBVIOUS
<1> QED
  BY <1>1 DEF Range

(* While no call to close begins or ends.                                  *)
LEMMA ClosingKept ==
  ASSUME TypeOK, closing' = closing, ClosedOnce, ClosedSuspended,
         \A c \in Coro : status[c] = "suspended" /\ fiber[c] # "none" /\ c \in BeingClosed
                         => status'[c] = "suspended" /\ fiber'[c] # "none"
  PROVE  ClosedOnce' /\ ClosedSuspended' /\ BeingClosed' = BeingClosed
<1>1. BeingClosed' = BeingClosed
  BY DEF BeingClosed
<1>2. BeingClosed \subseteq Coro
  BY ClosedAt DEF BeingClosed, TypeOK
<1>3. ClosedOnce'
  BY DEF ClosedOnce
<1>4. ClosedSuspended'
  BY <1>1, <1>2 DEF ClosedSuspended
<1> QED
  BY <1>1, <1>3, <1>4

(* Steps that touch no library state at all but the fault frame and turn.  *)
LEMMA FrameStepAbs ==
  ASSUME IndInv, AbsInd,
         UNCHANGED <<status, fiber, owner, caller, anchored, luaSide, active, closing, phase>>
  PROVE  AbsInd' /\ UNCHANGED Abs!vars
<1>1. Stacked' /\ AbsStack' = AbsStack
  BY StacksKept DEF AbsInd
<1>2. ClosedOnce' /\ ClosedSuspended' /\ BeingClosed' = BeingClosed
  BY ClosingKept DEF IndInv, AbsInd
<1>3. DeadReset' /\ Made'
  BY DEF AbsInd, DeadReset, Made
<1>4. AbsReady' = AbsReady /\ AbsDead' = AbsDead /\ AbsHome' = AbsHome
  BY DEF AbsReady, AbsDead, AbsHome
<1> QED
  BY <1>1, <1>2, <1>3, <1>4 DEF AbsInd, Abs!vars

(* The rest of resume puts the caller's status back.                       *)
LEMMA ResumeReturnsAbs ==
  ASSUME IndInv, AbsInd, NEW t \in Thread, ResumeReturns(t)
  PROVE  AbsInd' /\ UNCHANGED Abs!vars
<1> DEFINE p == waiting[active[t]].prev
<1>0. /\ UNCHANGED <<fiber, owner, caller, anchored, luaSide, active, closing, phase>>
      /\ status' = [c \in Coro |-> IF c = p THEN "running" ELSE status[c]]
  BY DEF ResumeReturns
<1>1. p \in Coro => status[p] = "normal"
  <2>1. active[t] \in Fiber /\ Waits(active[t])
    BY DEF ResumeReturns, Quiet, Waits, IndInv, TypeOK
  <2>2. p = PrevOf(active[t])
    BY <2>1 DEF IndInv, WaitLinks
  <2> QED
    BY <2>1, <2>2, CoroAssumption DEF PrevOf, IndInv, NormalWaits
<1> HIDE DEF p
<1>2. \A c \in Coro : /\ status'[c] # status[c] => status[c] = "normal" /\ status'[c] = "running"
  BY <1>0, <1>1
<1>3. Stacked' /\ AbsStack' = AbsStack
  BY <1>0, <1>2, StacksKept DEF AbsInd
<1>4. ClosedOnce' /\ ClosedSuspended' /\ BeingClosed' = BeingClosed
  BY <1>0, <1>2, ClosingKept DEF IndInv, AbsInd
<1>5. DeadReset' /\ Made'
  BY <1>0, <1>2 DEF AbsInd, DeadReset, Made
<1>6. AbsReady' = AbsReady /\ AbsDead' = AbsDead /\ AbsHome' = AbsHome
  BY <1>0, <1>2 DEF AbsReady, AbsDead, AbsHome
<1> QED
  BY <1>3, <1>4, <1>5, <1>6 DEF AbsInd, Abs!vars

(* What a switch back to the caller does to the stacks.                    *)
LEMMA SwitchBack ==
  ASSUME IndInv, AbsInd, NEW t \in Thread, Runs(t), active[t] \in Coro,
         active' = [active EXCEPT ![t] = caller[active[t]]],
         UNCHANGED <<caller, owner>>,
         \A c \in Coro \ {active[t]} : status'[c] = status[c]
  PROVE  /\ Stacked' /\ AbsStack[t] # <<>> /\ AbsStack[t][Len(AbsStack[t])] = active[t]
         /\ AbsStack' = [AbsStack EXCEPT ![t] = SubSeq(@, 1, Len(@) - 1)]
<1>0. owner[active[t]] = t /\ DOMAIN active = Thread
  BY ActiveExists DEF IndInv, TypeOK
<1>1. active'[t] = caller[active[t]] /\ \A u \in Thread \ {t} : active'[u] = active[u]
  BY <1>0
<1>2. PICK s \in Seq(Coro) : IsStack(s, t)
  BY DEF AbsInd, Stacked
<1>3. /\ s # <<>> /\ s[Len(s)] = active[t]
      /\ SubSeq(s, 1, Len(s) - 1) \in Seq(Coro) /\ IsStack(SubSeq(s, 1, Len(s) - 1), t)'
  <2>1. \A c \in Coro \ {active[t]} : status[c] \in {"running", "normal"} /\ owner[c] = t =>
          /\ caller'[c] = caller[c] /\ owner'[c] = owner[c]
          /\ status'[c] \in {"running", "normal"}
    OBVIOUS
  <2> QED
    BY <1>1, <1>2, <2>1, StackPopped
<1>4. AbsStack[t] = s /\ AbsStack'[t] = SubSeq(s, 1, Len(s) - 1)
  BY <1>2, <1>3, StackIs, StackBecomes
<1>5. ASSUME NEW u \in Thread \ {t}
      PROVE  (\E r \in Seq(Coro) : IsStack(r, u)') /\ AbsStack'[u] = AbsStack[u]
  <2>1. PICK r \in Seq(Coro) : IsStack(r, u)
    BY DEF AbsInd, Stacked
  <2>2. \A c \in Coro : status[c] \in {"running", "normal"} /\ owner[c] = u =>
           /\ caller'[c] = caller[c] /\ owner'[c] = owner[c]
           /\ status'[c] \in {"running", "normal"}
    BY <1>0
  <2>3. IsStack(r, u)'
    BY <1>1, <2>1, <2>2, StackKept
  <2> QED
    BY <2>1, <2>3, StackIs, StackBecomes
<1>6. Stacked'
  BY <1>3, <1>5 DEF Stacked
<1>7. AbsStack' = [AbsStack EXCEPT ![t] = SubSeq(@, 1, Len(@) - 1)]
  <2>1. AbsStack = [u \in Thread |-> AbsStack[u]] /\ AbsStack' = [u \in Thread |-> AbsStack'[u]]
    BY DEF AbsStack
  <2> QED
    BY <1>4, <1>5, <2>1
<1> QED
  BY <1>3, <1>4, <1>6, <1>7

(* An active coroutine has a fiber of its own while the state is open.     *)
LEMMA ActiveMade ==
  ASSUME IndInv, AbsInd, NEW t \in Thread, active[t] \in Coro
  PROVE  fiber[active[t]] # "none" /\ active[t] \notin BeingClosed
<1>1. status[active[t]] \in {"running", "normal"}
  BY ActiveExists
<1> QED
  BY <1>1 DEF AbsInd, Made, ClosedSuspended

(* coroutine.yield.                                                        *)
LEMMA YieldAbs ==
  ASSUME IndInv, AbsInd, NEW t \in Thread, Yield(t)
  PROVE  AbsInd' /\ Abs!Yield(t)
<1> DEFINE c == active[t]
<1>0. /\ Runs(t) /\ UNCHANGED <<fiber, owner, caller, anchored, luaSide, closing, phase>>
  BY DEF Yield
<1>1. c \in Coro /\ current[t] = c /\ status[c] = "running"
  <2>1. current[t] = PrevOf(c) /\ current[t] # Nil
    BY DEF Yield, Runs, IndInv, Switch
  <2>2. c \in Coro /\ current[t] = c
    BY <2>1 DEF PrevOf
  <2> QED
    BY <1>0, <2>2, CallerOfRunning DEF Runs
<1>2. /\ status' = [status EXCEPT ![c] = "suspended"]
      /\ active' = [active EXCEPT ![t] = caller[c]]
  BY <1>1 DEF Yield
<1>3. fiber[c] # "none" /\ c \notin BeingClosed
  BY <1>1, ActiveMade
<1>a. status'[c] = "suspended" /\ \A d \in Coro \ {c} : status'[d] = status[d]
  BY <1>1, <1>2 DEF IndInv, TypeOK
<1>4. /\ Stacked' /\ AbsStack[t] # <<>> /\ AbsStack[t][Len(AbsStack[t])] = c
      /\ AbsStack' = [AbsStack EXCEPT ![t] = SubSeq(@, 1, Len(@) - 1)]
  <2>1. c \in Coro /\ active' = [active EXCEPT ![t] = caller[c]] /\ caller' = caller /\ owner' = owner
        /\ \A d \in Coro \ {c} : status'[d] = status[d]
    BY <1>0, <1>1, <1>2, <1>a
  <2> QED
    BY <1>0, <2>1, SwitchBack
<1> HIDE DEF c
<1>5. ClosedOnce' /\ ClosedSuspended' /\ BeingClosed' = BeingClosed
  BY <1>0, <1>3, <1>a, ClosingKept DEF IndInv, AbsInd
<1>6. DeadReset' /\ Made'
  BY <1>0, <1>3, <1>a DEF AbsInd, DeadReset, Made
<1>7. AbsReady' = AbsReady \cup {c}
  BY <1>0, <1>1, <1>3, <1>a DEF AbsReady
<1>8. AbsDead' = AbsDead /\ AbsHome' = AbsHome
  BY <1>0, <1>1, <1>a DEF AbsDead, AbsHome
<1> QED
  BY <1>4, <1>5, <1>6, <1>7, <1>8 DEF AbsInd, Abs!Yield, Abs!Pop, Abs!Top

(* The return from a coroutine's function.                                 *)
LEMMA FinishAbs ==
  ASSUME IndInv, AbsInd, NEW t \in Thread, Finish(t)
  PROVE  AbsInd' /\ Abs!Return(t)
<1> DEFINE c == active[t]
<1>0. /\ Runs(t) /\ UNCHANGED <<fiber, owner, caller, anchored, closing, phase>>
  BY DEF Finish
<1>1. c \in Coro /\ status[c] = "running"
  BY <1>0, CallerOfRunning DEF Finish, Runs
<1>2. /\ status' = [status EXCEPT ![c] = "dead"] /\ luaSide' = [luaSide EXCEPT ![c] = "reset"]
      /\ active' = [active EXCEPT ![t] = caller[c]]
  BY DEF Finish
<1>3. fiber[c] # "none" /\ c \notin BeingClosed
  BY <1>1, ActiveMade
<1>a. status'[c] = "dead" /\ \A d \in Coro \ {c} : status'[d] = status[d] /\ luaSide'[d] = luaSide[d]
  BY <1>1, <1>2 DEF IndInv, TypeOK
<1>b. luaSide'[c] = "reset"
  BY <1>1, <1>2 DEF IndInv, TypeOK
<1>4. /\ Stacked' /\ AbsStack[t] # <<>> /\ AbsStack[t][Len(AbsStack[t])] = c
      /\ AbsStack' = [AbsStack EXCEPT ![t] = SubSeq(@, 1, Len(@) - 1)]
  <2>1. c \in Coro /\ active' = [active EXCEPT ![t] = caller[c]] /\ caller' = caller /\ owner' = owner
        /\ \A d \in Coro \ {c} : status'[d] = status[d]
    BY <1>0, <1>1, <1>2, <1>a
  <2> QED
    BY <1>0, <2>1, SwitchBack
<1> HIDE DEF c
<1>5. ClosedOnce' /\ ClosedSuspended' /\ BeingClosed' = BeingClosed
  BY <1>0, <1>3, <1>a, ClosingKept DEF IndInv, AbsInd
<1>6. DeadReset' /\ Made'
  BY <1>0, <1>3, <1>a, <1>b DEF AbsInd, DeadReset, Made
<1>7. AbsDead' = AbsDead \cup {c}
  BY <1>1, <1>a DEF AbsDead
<1>8. AbsReady' = AbsReady /\ AbsHome' = AbsHome
  BY <1>0, <1>1, <1>a DEF AbsReady, AbsHome
<1> QED
  BY <1>4, <1>5, <1>6, <1>7, <1>8 DEF AbsInd, Abs!Return, Abs!Pop, Abs!Top

(* coroutine.resume.                                                       *)
LEMMA ResumeAbs ==
  ASSUME IndInv, AbsInd, ~HandlersReenter, NEW t \in Thread, NEW c \in Coro, Resume(t, c)
  PROVE  AbsInd' /\ Abs!Resume(t, c)
<1> DEFINE a == active[t]
<1>0. /\ Runs(t) /\ UNCHANGED <<fiber, owner, anchored, closing, phase>>
      /\ owner[c] = t /\ status[c] = "suspended" /\ anchored[c] /\ c \notin BeingClosed
      /\ phase = "run"
  BY DEF Resume, Resumable, Enterable, Runs
<1>1. /\ active' = [active EXCEPT ![t] = c] /\ caller' = [caller EXCEPT ![c] = a]
      /\ luaSide' = [luaSide EXCEPT ![c] = "frames"]
  BY DEF Resume, CallerFor
<1>2. current[t] = PrevOf(a)
  BY <1>0 DEF Runs, IndInv, Switch
<1>3. a \in Coro => status[a] = "running"
  BY <1>0, CallerOfRunning DEF Runs
<1>4. /\ status'[c] = "running"
      /\ \A d \in Coro \ {c} : status'[d] = IF d = a THEN "normal" ELSE status[d]
  <2>1. status' = [PrevNormal(t) EXCEPT ![c] = "running"]
    BY DEF Resume
  <2>2. PrevNormal(t) = [d \in Coro |-> IF d = a THEN "normal" ELSE status[d]]
    BY <1>2, CoroAssumption DEF PrevNormal, PrevOf
  <2> HIDE DEF PrevNormal, a
  <2> QED
    BY <2>1, <2>2
<1>5. /\ active'[t] = c /\ \A u \in Thread \ {t} : active'[u] = active[u]
      /\ caller'[c] = a /\ \A d \in Coro \ {c} : caller'[d] = caller[d] /\ luaSide'[d] = luaSide[d]
  BY <1>1 DEF IndInv, TypeOK
<1>6. fiber[c] # "none"
  BY <1>0 DEF AbsInd, Made
<1>7. PICK s \in Seq(Coro) : IsStack(s, t)
  BY DEF AbsInd, Stacked
<1>8. Append(s, c) \in Seq(Coro) /\ IsStack(Append(s, c), t)'
  <2>1. /\ status[c] \notin {"running", "normal"} /\ active'[t] = c /\ caller'[c] = active[t]
        /\ owner'[c] = t /\ status'[c] \in {"running", "normal"}
    BY <1>0, <1>4, <1>5
  <2>2. \A d \in Coro \ {c} : status[d] \in {"running", "normal"} /\ owner[d] = t =>
           /\ caller'[d] = caller[d] /\ owner'[d] = owner[d]
           /\ status'[d] \in {"running", "normal"}
    BY <1>0, <1>4, <1>5
  <2> QED
    BY <1>7, <2>1, <2>2, StackPushed
<1>9. AbsStack[t] = s /\ AbsStack'[t] = Append(s, c)
  BY <1>7, <1>8, StackIs, StackBecomes
<1>10. ASSUME NEW u \in Thread \ {t}
       PROVE  (\E r \in Seq(Coro) : IsStack(r, u)') /\ AbsStack'[u] = AbsStack[u]
  <2>1. PICK r \in Seq(Coro) : IsStack(r, u)
    BY DEF AbsInd, Stacked
  <2>2. \A d \in Coro : status[d] \in {"running", "normal"} /\ owner[d] = u =>
           /\ caller'[d] = caller[d] /\ owner'[d] = owner[d]
           /\ status'[d] \in {"running", "normal"}
    BY <1>0, <1>4, <1>5
  <2>3. IsStack(r, u)'
    BY <1>5, <2>1, <2>2, StackKept
  <2> QED
    BY <2>1, <2>3, StackIs, StackBecomes
<1>11. AbsStack' = [AbsStack EXCEPT ![t] = Append(@, c)]
  <2>1. AbsStack = [u \in Thread |-> AbsStack[u]] /\ AbsStack' = [u \in Thread |-> AbsStack'[u]]
    BY DEF AbsStack
  <2> QED
    BY <1>9, <1>10, <2>1
<1>12. Stacked'
  BY <1>8, <1>10 DEF Stacked
<1> HIDE DEF a
<1>13. \A d \in Coro \ {c} : /\ status'[d] = "suspended" <=> status[d] = "suspended"
                             /\ status'[d] = "dead" <=> status[d] = "dead"
                             /\ status'[d] = "absent" <=> status[d] = "absent"
  <2> SUFFICES ASSUME NEW d \in Coro \ {c}
               PROVE  \/ status'[d] = status[d]
                      \/ status'[d] = "normal" /\ status[d] = "running"
    OBVIOUS
  <2>1. CASE d = a
    BY <1>3, <1>4, <2>1
  <2>2. CASE d # a
    BY <1>4, <2>2
  <2> QED
    BY <2>1, <2>2
<1>14. ClosedOnce' /\ ClosedSuspended' /\ BeingClosed' = BeingClosed
  BY <1>0, <1>13, ClosingKept DEF IndInv, AbsInd
<1>15. DeadReset'
  BY <1>4, <1>5, <1>13 DEF AbsInd, DeadReset
<1>16. Made'
  BY <1>0, <1>3, <1>4, <1>6 DEF AbsInd, Made
<1>17. AbsReady' = AbsReady \ {c} /\ AbsDead' = AbsDead /\ AbsHome' = AbsHome
  BY <1>0, <1>4, <1>13 DEF AbsReady, AbsDead, AbsHome
<1>18. c \in AbsReady \ BeingClosed /\ AbsHome[c] = t
  BY <1>0, <1>6 DEF AbsReady, AbsHome
<1> QED
  BY <1>11, <1>12, <1>14, <1>15, <1>16, <1>17, <1>18 DEF AbsInd, Abs!Resume

(* coroutine.create, whether or not the fiber can be made.                 *)
LEMMA CreateAbs ==
  ASSUME IndInv, AbsInd, NEW t \in Thread, NEW c \in Coro, Create(t, c)
  PROVE  AbsInd' /\ (Abs!Create(t, c) \/ UNCHANGED Abs!vars)
<1>0. /\ UNCHANGED <<caller, active, luaSide, closing, phase>>
      /\ status[c] = "absent" /\ phase = "run"
  BY DEF Create, Runs
<1>1. PICK made \in BOOLEAN :
        /\ fiber' = [fiber EXCEPT ![c] = IF made THEN "live" ELSE "none"]
        /\ anchored' = [anchored EXCEPT ![c] = made]
        /\ status' = [status EXCEPT ![c] = "suspended"]
        /\ owner' = [owner EXCEPT ![c] = t]
  BY DEF Create
<1>2. /\ status'[c] = "suspended" /\ owner'[c] = t /\ anchored'[c] = made
      /\ fiber'[c] = (IF made THEN "live" ELSE "none")
      /\ \A d \in Coro \ {c} : /\ status'[d] = status[d] /\ owner'[d] = owner[d]
                               /\ anchored'[d] = anchored[d] /\ fiber'[d] = fiber[d]
  BY <1>1 DEF IndInv, TypeOK
<1>3. fiber[c] = "none"
  BY <1>0 DEF AbsInd, Made
<1>4. Stacked' /\ AbsStack' = AbsStack
  BY <1>0, <1>2, StacksKept DEF AbsInd
<1>5. ClosedOnce' /\ ClosedSuspended' /\ BeingClosed' = BeingClosed
  BY <1>0, <1>2, ClosingKept DEF IndInv, AbsInd
<1>6. DeadReset' /\ Made'
  BY <1>0, <1>2 DEF AbsInd, DeadReset, Made
<1>7. AbsDead' = AbsDead
  BY <1>0, <1>2 DEF AbsDead
<1>8. CASE made
  <2>1. AbsReady' = AbsReady \cup {c}
    BY <1>2, <1>8 DEF AbsReady
  <2>2. AbsHome' = [AbsHome EXCEPT ![c] = t]
    BY <1>2, <1>8 DEF AbsHome
  <2>3. c \notin AbsReady \cup AbsDead
    BY <1>0 DEF AbsReady, AbsDead
  <2>4. ASSUME NEW u \in Thread PROVE c \notin Range(AbsStack[u])
    <3>1. PICK s \in Seq(Coro) : IsStack(s, u)
      BY DEF AbsInd, Stacked
    <3>2. AbsStack[u] = s
      BY <3>1, StackIs
    <3>3. \A i \in 1..Len(s) : s[i] # c
      BY <1>0, <3>1 DEF IsStack
    <3>4. DOMAIN s = 1..Len(s)
      OBVIOUS
    <3> QED
      BY <3>2, <3>3, <3>4 DEF Range
  <2>5. c \notin Abs!Active
    BY <2>4 DEF Abs!Active, Abs!Range, Range
  <2> QED
    BY <1>4, <1>5, <1>6, <1>7, <2>1, <2>2, <2>3, <2>5 DEF AbsInd, Abs!Create
<1>9. CASE ~made
  <2>1. AbsReady' = AbsReady /\ AbsHome' = AbsHome
    BY <1>0, <1>2, <1>3, <1>9 DEF AbsReady, AbsHome
  <2> QED
    BY <1>4, <1>5, <1>6, <1>7, <2>1 DEF AbsInd, Abs!vars
<1> QED
  BY <1>8, <1>9

(* Its collection when it could not.                                       *)
LEMMA CollectAbs ==
  ASSUME IndInv, AbsInd, NEW c \in Coro, Collect(c)
  PROVE  AbsInd' /\ UNCHANGED Abs!vars
<1>0. /\ UNCHANGED <<owner, caller, anchored, active, luaSide, closing, phase>>
      /\ status[c] # "absent" /\ ~anchored[c] /\ phase = "run"
      /\ status' = [status EXCEPT ![c] = "absent"] /\ fiber' = [fiber EXCEPT ![c] = "none"]
  BY DEF Collect
<1>1. fiber[c] = "none" /\ status[c] = "suspended"
  BY <1>0 DEF AbsInd, Made
<1>2. /\ status'[c] = "absent" /\ fiber' = fiber
      /\ \A d \in Coro \ {c} : status'[d] = status[d]
  BY <1>0, <1>1 DEF IndInv, TypeOK
<1>3. Stacked' /\ AbsStack' = AbsStack
  BY <1>0, <1>1, <1>2, StacksKept DEF AbsInd
<1>4. ClosedOnce' /\ ClosedSuspended' /\ BeingClosed' = BeingClosed
  BY <1>0, <1>1, <1>2, ClosingKept DEF IndInv, AbsInd
<1>5. DeadReset' /\ Made'
  BY <1>0, <1>1, <1>2 DEF AbsInd, DeadReset, Made
<1>6. AbsReady' = AbsReady /\ AbsDead' = AbsDead /\ AbsHome' = AbsHome
  BY <1>0, <1>1, <1>2 DEF AbsReady, AbsDead, AbsHome
<1> QED
  BY <1>3, <1>4, <1>5, <1>6 DEF AbsInd, Abs!vars

(* coroutine.close with nothing pending.                                   *)
LEMMA CloseIdleAbs ==
  ASSUME IndInv, AbsInd, ~HandlersReenter, NEW t \in Thread, NEW c \in Coro, CloseIdle(t, c)
  PROVE  AbsInd' /\ (Abs!EndClose(c) \/ UNCHANGED Abs!vars)
<1>0. /\ UNCHANGED <<owner, caller, anchored, active, closing, phase>>
      /\ status[c] \in {"suspended", "dead"} /\ anchored[c] /\ c \notin BeingClosed
      /\ phase = "run"
      /\ status' = [status EXCEPT ![c] = "dead"] /\ fiber' = [fiber EXCEPT ![c] = "deleted"]
      /\ luaSide' = [luaSide EXCEPT ![c] = "reset"]
  BY DEF CloseIdle, Closable, Enterable, Destroy, Runs
<1>1. fiber[c] # "none"
  BY <1>0 DEF AbsInd, Made
<1>2. /\ status'[c] = "dead" /\ fiber'[c] = "deleted" /\ luaSide'[c] = "reset"
      /\ \A d \in Coro \ {c} : /\ status'[d] = status[d] /\ fiber'[d] = fiber[d]
                               /\ luaSide'[d] = luaSide[d]
  BY <1>0 DEF IndInv, TypeOK
<1>3. Stacked' /\ AbsStack' = AbsStack
  BY <1>0, <1>2, StacksKept DEF AbsInd
<1>4. ClosedOnce' /\ ClosedSuspended' /\ BeingClosed' = BeingClosed
  BY <1>0, <1>2, ClosingKept DEF IndInv, AbsInd
<1>5. DeadReset' /\ Made'
  BY <1>0, <1>1, <1>2 DEF AbsInd, DeadReset, Made
<1>6. AbsHome' = AbsHome
  BY <1>0, <1>1, <1>2 DEF AbsHome
<1>7. AbsReady' = AbsReady \ {c} /\ AbsDead' = AbsDead \cup {c}
  BY <1>0, <1>2 DEF AbsReady, AbsDead
<1>8. CASE status[c] = "suspended"
  <2>1. c \in AbsReady /\ BeingClosed \ {c} = BeingClosed
    BY <1>0, <1>1, <1>8 DEF AbsReady
  <2> QED
    BY <1>3, <1>4, <1>5, <1>6, <1>7, <2>1 DEF AbsInd, Abs!EndClose
<1>9. CASE status[c] = "dead"
  <2>1. AbsReady' = AbsReady /\ AbsDead' = AbsDead
    BY <1>7, <1>9 DEF AbsReady, AbsDead
  <2> QED
    BY <1>3, <1>4, <1>5, <1>6, <2>1 DEF AbsInd, Abs!vars
<1> QED
  BY <1>0, <1>8, <1>9

(* coroutine.close up to the handlers.                                     *)
LEMMA CloseBeginsAbs ==
  ASSUME IndInv, AbsInd, ~HandlersReenter, NEW t \in Thread, NEW c \in Coro, CloseBegins(t, c)
  PROVE  AbsInd' /\ Abs!BeginClose(c)
<1> DEFINE a == active[t]
<1>0. /\ UNCHANGED <<status, fiber, owner, caller, anchored, active, phase>>
      /\ status[c] \in {"suspended", "dead"} /\ anchored[c] /\ c \notin BeingClosed
      /\ phase = "run" /\ luaSide[c] # "reset"
      /\ luaSide' = [luaSide EXCEPT ![c] = "closing"]
      /\ closing' = [closing EXCEPT ![a] = Append(@, c)]
  BY DEF CloseBegins, Closable, Enterable, NothingPending, Runs
<1>1. status[c] = "suspended" /\ fiber[c] # "none"
  BY <1>0 DEF AbsInd, Made, DeadReset
<1>2. a \in Fiber /\ closing \in [Fiber -> Seq(Coro)]
  BY DEF IndInv, TypeOK
<1> HIDE DEF a
<1>3. closing' \in [Fiber -> Seq(Coro)] /\ Len(closing[a]) \in Nat
  <2>1. Append(closing[a], c) \in Seq(Coro)
    BY <1>2
  <2> QED
    BY <1>0, <1>2, <2>1
<1>4. /\ \A f \in Fiber \ {a} : closing'[f] = closing[f]
      /\ Len(closing'[a]) = Len(closing[a]) + 1
      /\ closing'[a][Len(closing[a]) + 1] = c
      /\ \A i \in 1..Len(closing[a]) : closing'[a][i] = closing[a][i]
  BY <1>0, <1>2
<1>5. \A f \in Fiber : \A i \in 1..Len(closing[f]) : closing[f][i] # c
  <2>1. BeingClosed = {d \in Coro : \E f \in Fiber : \E i \in 1..Len(closing[f]) : closing[f][i] = d}
    BY <1>2, ClosedAt DEF BeingClosed
  <2> QED
    BY <1>0, <2>1
<1>6. \A f \in Fiber : \A i \in 1..Len(closing'[f]) :
        \/ f = a /\ i = Len(closing[a]) + 1 /\ closing'[f][i] = c
        \/ i \in 1..Len(closing[f]) /\ closing'[f][i] = closing[f][i]
  <2> SUFFICES ASSUME NEW f \in Fiber, NEW i \in 1..Len(closing'[f])
               PROVE  \/ f = a /\ i = Len(closing[a]) + 1 /\ closing'[f][i] = c
                      \/ i \in 1..Len(closing[f]) /\ closing'[f][i] = closing[f][i]
    OBVIOUS
  <2>1. CASE f # a
    BY <1>4, <2>1
  <2>2. CASE f = a /\ i = Len(closing[a]) + 1
    BY <1>4, <2>2
  <2>3. CASE f = a /\ i # Len(closing[a]) + 1
    BY <1>3, <1>4, <2>3
  <2> QED
    BY <2>1, <2>2, <2>3
<1>7. \A f \in Fiber : \A i \in 1..Len(closing[f]) :
        i \in 1..Len(closing'[f]) /\ closing'[f][i] = closing[f][i]
  <2>1. 1..Len(closing[a]) \subseteq 1..Len(closing'[a])
    BY <1>3, <1>4
  <2> QED
    BY <1>4, <2>1
<1>8. ClosedOnce'
  <2> SUFFICES ASSUME NEW f \in Fiber, NEW g \in Fiber,
                      NEW i \in 1..Len(closing'[f]), NEW j \in 1..Len(closing'[g]),
                      closing'[f][i] = closing'[g][j]
               PROVE  f = g /\ i = j
    BY DEF ClosedOnce
  <2>1. CASE closing'[f][i] = c
    <3>1. f = a /\ i = Len(closing[a]) + 1
      BY <1>5, <1>6, <2>1
    <3>2. g = a /\ j = Len(closing[a]) + 1
      BY <1>5, <1>6, <2>1
    <3> QED
      BY <3>1, <3>2
  <2>2. CASE closing'[f][i] # c
    BY <1>6, <2>2 DEF AbsInd, ClosedOnce
  <2> QED
    BY <2>1, <2>2
<1>9. BeingClosed' = BeingClosed \cup {c}
  <2>1. BeingClosed = {d \in Coro : \E f \in Fiber : \E i \in 1..Len(closing[f]) : closing[f][i] = d}
    BY <1>2, ClosedAt DEF BeingClosed
  <2>2. BeingClosed' = {d \in Coro : \E f \in Fiber : \E i \in 1..Len(closing'[f]) : closing'[f][i] = d}
    BY <1>3, ClosedAt DEF BeingClosed
  <2>3. c \in BeingClosed'
    <3>1. Len(closing[a]) + 1 \in 1..Len(closing'[a])
      BY <1>3, <1>4
    <3> QED
      BY <1>2, <1>4, <2>2, <3>1
  <2>4. BeingClosed \subseteq BeingClosed'
    BY <1>7, <2>1, <2>2
  <2>5. BeingClosed' \subseteq BeingClosed \cup {c}
    <3> SUFFICES ASSUME NEW d \in BeingClosed', d # c PROVE d \in BeingClosed
      OBVIOUS
    <3>1. d \in Coro
      BY <2>2
    <3>2. PICK f \in Fiber : \E i \in 1..Len(closing'[f]) : closing'[f][i] = d
      BY <2>2
    <3>3. PICK i \in 1..Len(closing'[f]) : closing'[f][i] = d
      BY <3>2
    <3>4. i \in 1..Len(closing[f]) /\ closing[f][i] = d
      BY <1>6, <3>3
    <3> QED
      BY <2>1, <3>1, <3>4
  <2> QED
    BY <2>3, <2>4, <2>5
<1>10. ClosedSuspended'
  BY <1>0, <1>1, <1>9 DEF AbsInd, ClosedSuspended
<1>11. Stacked' /\ AbsStack' = AbsStack
  BY <1>0, StacksKept DEF AbsInd
<1>12. DeadReset' /\ Made'
  BY <1>0, <1>1 DEF AbsInd, DeadReset, Made, IndInv, TypeOK
<1>13. AbsReady' = AbsReady /\ AbsDead' = AbsDead /\ AbsHome' = AbsHome /\ c \in AbsReady \ BeingClosed
  BY <1>0, <1>1 DEF AbsReady, AbsDead, AbsHome
<1> QED
  BY <1>8, <1>9, <1>10, <1>11, <1>12, <1>13 DEF AbsInd, Abs!BeginClose

(* The end of coroutine.close.                                             *)
LEMMA CloseEndsAbs ==
  ASSUME IndInv, AbsInd, NEW t \in Thread, CloseEnds(t)
  PROVE  AbsInd' /\ \E c \in Coro : Abs!EndClose(c)
<1> DEFINE a == active[t]
           n == Len(closing[a])
           c == closing[a][n]
<1>1. a \in Fiber /\ closing \in [Fiber -> Seq(Coro)]
  BY DEF IndInv, TypeOK
<1>2. n \in Nat \ {0} /\ n \in 1..n /\ c \in Coro
  <2>1. closing[a] # <<>> /\ closing[a] \in Seq(Coro)
    BY <1>1 DEF CloseEnds
  <2> QED
    BY <2>1
<1>0. /\ UNCHANGED <<owner, caller, anchored, active, phase>>
      /\ status' = [status EXCEPT ![c] = "dead"] /\ fiber' = [fiber EXCEPT ![c] = "deleted"]
      /\ luaSide' = [luaSide EXCEPT ![c] = "reset"]
      /\ closing' = [closing EXCEPT ![a] = SubSeq(closing[a], 1, n - 1)]
  BY DEF CloseEnds, Destroy
<1> HIDE DEF a
<1>3. c \in BeingClosed
  <2>1. BeingClosed = {d \in Coro : \E f \in Fiber : \E i \in 1..Len(closing[f]) : closing[f][i] = d}
    BY <1>1, ClosedAt DEF BeingClosed
  <2> QED
    BY <1>1, <1>2, <2>1
<1>4. status[c] = "suspended" /\ fiber[c] # "none"
  BY <1>3 DEF AbsInd, ClosedSuspended
<1>5. /\ status'[c] = "dead" /\ fiber'[c] = "deleted" /\ luaSide'[c] = "reset"
      /\ \A d \in Coro \ {c} : status'[d] = status[d] /\ fiber'[d] = fiber[d] /\ luaSide'[d] = luaSide[d]
  <2> HIDE DEF c
  <2> QED
    BY <1>0, <1>2 DEF IndInv, TypeOK
<1>6. /\ SubSeq(closing[a], 1, n - 1) \in Seq(Coro) /\ Len(SubSeq(closing[a], 1, n - 1)) = n - 1
      /\ \A i \in 1..(n - 1) : SubSeq(closing[a], 1, n - 1)[i] = closing[a][i]
  <2>1. closing[a] # <<>> /\ closing[a] \in Seq(Coro)
    BY <1>1, <1>2
  <2> QED
    BY <2>1, PopSeq
<1>7. /\ closing' \in [Fiber -> Seq(Coro)]
      /\ Len(closing'[a]) = n - 1 /\ \A i \in 1..(n - 1) : closing'[a][i] = closing[a][i]
      /\ \A f \in Fiber \ {a} : closing'[f] = closing[f]
  BY <1>0, <1>1, <1>6
<1>8. \A f \in Fiber : \A i \in 1..Len(closing'[f]) :
        /\ i \in 1..Len(closing[f]) /\ closing'[f][i] = closing[f][i]
        /\ f # a \/ i # n
  <2> SUFFICES ASSUME NEW f \in Fiber, NEW i \in 1..Len(closing'[f])
               PROVE  /\ i \in 1..Len(closing[f]) /\ closing'[f][i] = closing[f][i]
                      /\ f # a \/ i # n
    OBVIOUS
  <2>1. CASE f = a
    BY <1>2, <1>7, <2>1
  <2>2. CASE f # a
    BY <1>7, <2>2
  <2> QED
    BY <2>1, <2>2
<1>9. \A f \in Fiber : \A i \in 1..Len(closing[f]) :
        \/ f = a /\ i = n
        \/ i \in 1..Len(closing'[f]) /\ closing'[f][i] = closing[f][i]
  <2> SUFFICES ASSUME NEW f \in Fiber, NEW i \in 1..Len(closing[f]), f # a \/ i # n
               PROVE  i \in 1..Len(closing'[f]) /\ closing'[f][i] = closing[f][i]
    OBVIOUS
  <2>1. CASE f = a
    BY <1>2, <1>7, <2>1
  <2>2. CASE f # a
    BY <1>7, <2>2
  <2> QED
    BY <2>1, <2>2
<1>10. ClosedOnce'
  <2> SUFFICES ASSUME NEW f \in Fiber, NEW g \in Fiber,
                      NEW i \in 1..Len(closing'[f]), NEW j \in 1..Len(closing'[g]),
                      closing'[f][i] = closing'[g][j]
               PROVE  f = g /\ i = j
    BY DEF ClosedOnce
  <2> QED
    BY <1>8 DEF AbsInd, ClosedOnce
<1>11. \A f \in Fiber : \A i \in 1..Len(closing[f]) : closing[f][i] = c => f = a /\ i = n
  BY <1>1, <1>2 DEF AbsInd, ClosedOnce
<1> HIDE DEF c, n
<1>12. BeingClosed' = BeingClosed \ {c}
  <2>1. BeingClosed = {d \in Coro : \E f \in Fiber : \E i \in 1..Len(closing[f]) : closing[f][i] = d}
    BY <1>1, ClosedAt DEF BeingClosed
  <2>2. BeingClosed' = {d \in Coro : \E f \in Fiber : \E i \in 1..Len(closing'[f]) : closing'[f][i] = d}
    BY <1>7, ClosedAt DEF BeingClosed
  <2>3. ASSUME NEW d \in BeingClosed' PROVE d \in BeingClosed /\ d # c
    <3>1. d \in Coro
      BY <2>2
    <3>2. PICK f \in Fiber : \E i \in 1..Len(closing'[f]) : closing'[f][i] = d
      BY <2>2
    <3>3. PICK i \in 1..Len(closing'[f]) : closing'[f][i] = d
      BY <3>2
    <3>4. i \in 1..Len(closing[f]) /\ closing[f][i] = d /\ (f # a \/ i # n)
      BY <1>8, <3>3
    <3>5. d # c
      BY <1>11, <3>4
    <3> QED
      BY <2>1, <3>1, <3>4, <3>5
  <2>4. ASSUME NEW d \in BeingClosed, d # c PROVE d \in BeingClosed'
    <3>1. d \in Coro
      BY <2>1
    <3>2. PICK f \in Fiber : \E i \in 1..Len(closing[f]) : closing[f][i] = d
      BY <2>1
    <3>3. PICK i \in 1..Len(closing[f]) : closing[f][i] = d
      BY <3>2
    <3>4. ~(f = a /\ i = n)
      BY <2>4, <3>3 DEF c
    <3>5. i \in 1..Len(closing'[f]) /\ closing'[f][i] = d
      BY <1>9, <3>3, <3>4
    <3> QED
      BY <2>2, <3>1, <3>5
  <2> QED
    BY <2>3, <2>4
<1>13. ClosedSuspended'
  <2>1. BeingClosed \subseteq Coro
    BY <1>1, ClosedAt DEF BeingClosed
  <2> QED
    BY <1>5, <1>12, <2>1 DEF AbsInd, ClosedSuspended
<1>14. Stacked' /\ AbsStack' = AbsStack
  BY <1>0, <1>4, <1>5, StacksKept DEF AbsInd
<1>15. DeadReset' /\ Made'
  BY <1>0, <1>4, <1>5 DEF AbsInd, DeadReset, Made
<1>16. AbsHome' = AbsHome
  BY <1>0, <1>4, <1>5 DEF AbsHome
<1>17. AbsReady' = AbsReady \ {c} /\ AbsDead' = AbsDead \cup {c} /\ c \in AbsReady
  BY <1>2, <1>4, <1>5 DEF AbsReady, AbsDead
<1>18. Abs!EndClose(c)
  BY <1>12, <1>14, <1>16, <1>17 DEF Abs!EndClose
<1> QED
  BY <1>2, <1>10, <1>13, <1>14, <1>15, <1>18 DEF AbsInd

(* lua_close deletes the fibers and leaves the promise where it was.       *)
LEMMA StateCloseAbs ==
  ASSUME IndInv, AbsInd, NEW t \in Thread, StateClose(t)
  PROVE  AbsInd' /\ UNCHANGED Abs!vars
<1>0. /\ UNCHANGED <<status, owner, caller, active, luaSide, closing>> /\ phase' # "run"
      /\ fiber' = [c \in Coro |-> IF fiber[c] = "live" THEN "deleted" ELSE fiber[c]]
  BY DEF StateClose
<1>1. \A c \in Coro : fiber'[c] = "none" <=> fiber[c] = "none"
  BY <1>0
<1>2. Stacked' /\ AbsStack' = AbsStack
  BY <1>0, StacksKept DEF AbsInd
<1>3. ClosedOnce' /\ ClosedSuspended' /\ BeingClosed' = BeingClosed
  BY <1>0, <1>1, ClosingKept DEF IndInv, AbsInd
<1>4. DeadReset' /\ Made'
  BY <1>0, <1>1 DEF AbsInd, DeadReset, Made
<1>5. AbsReady' = AbsReady /\ AbsDead' = AbsDead /\ AbsHome' = AbsHome
  BY <1>0, <1>1 DEF AbsReady, AbsDead, AbsHome
<1> QED
  BY <1>2, <1>3, <1>4, <1>5 DEF AbsInd, Abs!vars

(* At first nothing has been created.                                      *)
LEMMA InitAbs == Init => AbsInd /\ Abs!Init
<1> SUFFICES ASSUME Init PROVE AbsInd /\ Abs!Init
  OBVIOUS
<1> USE CoroAssumption
<1>1. ASSUME NEW t \in Thread PROVE IsStack(<<>>, t)
  BY DEF Init, IsStack, IsPath
<1>2. Stacked
  <2>1. <<>> \in Seq(Coro)
    OBVIOUS
  <2> QED
    BY <1>1, <2>1 DEF Stacked
<1>3. AbsStack = [t \in Thread |-> <<>>]
  <2>1. <<>> \in Seq(Coro)
    OBVIOUS
  <2>2. \A t \in Thread : AbsStack[t] = <<>>
    BY <1>1, <2>1, StackIs
  <2> QED
    BY <2>2 DEF AbsStack
<1>4. BeingClosed = {} /\ ClosedOnce
  BY DEF Init, BeingClosed, ClosedOnce, Range
<1>5. ClosedSuspended /\ DeadReset /\ Made
  BY <1>4 DEF Init, ClosedSuspended, DeadReset, Made
<1>6. AbsReady = {} /\ AbsDead = {} /\ AbsHome \in [Coro -> Thread]
  BY DEF Init, AbsReady, AbsDead, AbsHome
<1> QED
  BY <1>2, <1>3, <1>4, <1>5, <1>6 DEF AbsInd, Abs!Init

(* Every step of the library is a step of the coroutine machine, or none.  *)
LEMMA NextAbs ==
  ~HandlersReenter /\ IndInv /\ AbsInd /\ [Next]_vars => AbsInd' /\ [Abs!Next]_(Abs!vars)
<1> SUFFICES ASSUME ~HandlersReenter, IndInv, AbsInd, [Next]_vars
             PROVE  AbsInd' /\ [Abs!Next]_(Abs!vars)
  OBVIOUS
<1>1. ASSUME NEW t \in Thread, ResumeReturns(t) PROVE AbsInd' /\ UNCHANGED Abs!vars
  BY <1>1, ResumeReturnsAbs
<1>2. ASSUME NEW t \in Thread, Yield(t) PROVE AbsInd' /\ Abs!Next
  BY <1>2, YieldAbs DEF Abs!Next
<1>3. ASSUME NEW t \in Thread, Finish(t) PROVE AbsInd' /\ Abs!Next
  BY <1>3, FinishAbs DEF Abs!Next
<1>4. ASSUME NEW t \in Thread, CloseEnds(t) PROVE AbsInd' /\ Abs!Next
  BY <1>4, CloseEndsAbs DEF Abs!Next
<1>5. ASSUME NEW t \in Thread, JitEnter(t) \/ JitLeave(t) \/ Enter(t) \/ Leave(t)
      PROVE  AbsInd' /\ UNCHANGED Abs!vars
  BY <1>5, FrameStepAbs DEF JitEnter, JitLeave, Enter, Leave
<1>6. ASSUME NEW t \in Thread, StateClose(t) PROVE AbsInd' /\ UNCHANGED Abs!vars
  BY <1>6, StateCloseAbs
<1>7. ASSUME NEW t \in Thread, NEW c \in Coro, Create(t, c)
      PROVE  AbsInd' /\ (Abs!Next \/ UNCHANGED Abs!vars)
  BY <1>7, CreateAbs DEF Abs!Next
<1>8. ASSUME NEW t \in Thread, NEW c \in Coro, Resume(t, c) PROVE AbsInd' /\ Abs!Next
  BY <1>8, ResumeAbs DEF Abs!Next
<1>9. ASSUME NEW t \in Thread, NEW c \in Coro, CloseIdle(t, c)
      PROVE  AbsInd' /\ (Abs!Next \/ UNCHANGED Abs!vars)
  BY <1>9, CloseIdleAbs DEF Abs!Next
<1>10. ASSUME NEW t \in Thread, NEW c \in Coro, CloseBegins(t, c) PROVE AbsInd' /\ Abs!Next
  BY <1>10, CloseBeginsAbs DEF Abs!Next
<1>11. ASSUME NEW c \in Coro, Collect(c) PROVE AbsInd' /\ UNCHANGED Abs!vars
  BY <1>11, CollectAbs
<1>12. CASE UNCHANGED vars
  BY <1>12, FrameStepAbs DEF vars
<1> QED
  BY <1>1, <1>2, <1>3, <1>4, <1>5, <1>6, <1>7, <1>8, <1>9, <1>10, <1>11, <1>12 DEF Next

(* The library implements the coroutine machine of CoroAbs: whatever the   *)
(* threads and coroutines, its calls push, pop and end activations, and    *)
(* nothing else happens to the stacks.                                     *)
THEOREM SpecImplementsAbs == ~HandlersReenter => (Spec => ImplementsAbs)
<1> SUFFICES ASSUME ~HandlersReenter PROVE Spec => ImplementsAbs
  OBVIOUS
<1>1. IndInv /\ AbsInd /\ [Next]_vars => AbsInd' /\ [Abs!Next]_(Abs!vars)
  BY NextAbs
<1> QED
  BY InitAbs, SpecInd, <1>1, PTL DEF Spec, ImplementsAbs, Abs!Spec
=============================================================================
