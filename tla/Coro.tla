-------------------------------- MODULE Coro --------------------------------
(***************************************************************************)
(* The fiber coroutine library (runtime/coro.c).  A coroutine is a user-   *)
(* datum with a Lua thread and a Windows fiber; resume and yield switch    *)
(* fibers and keep the status, the caller's fiber, the per-OS-thread       *)
(* "current coroutine" and the per-fiber JIT recovery frame in step.       *)
(*                                                                         *)
(* A fiber is named by what it belongs to: an OS thread or a coroutine.    *)
(* The code between two library calls is the user's: any coroutine, or a   *)
(* __close handler, may make any call.  One Lua universe; an OS thread     *)
(* other than the main one is inside Lua only while an FFI call of the     *)
(* thread before it in "turn" waits for its callback.                      *)
(***************************************************************************)
EXTENDS Naturals, Sequences, FiniteSets, Functions

CONSTANTS Thread,           \* OS threads
          Main,             \* the one the program starts on
          Coro,             \* coroutine objects
          Nil,              \* NULL: no coroutine, no caller, no frame
          MaxClosing,       \* bound: __close activations nested on one fiber
          HandlersReenter   \* may a handler enter the coroutine being closed?

ASSUME CoroAssumption ==
  /\ Main \in Thread
  /\ Nil \notin Thread \cup Coro
  /\ Thread \cap Coro = {}
  /\ MaxClosing \in Nat
  /\ HandlersReenter \in BOOLEAN
ASSUME CoroFinite == IsFiniteSet(Coro)

Fiber == Thread \cup Coro

VARIABLES
  status,    \* Co->Status; "absent" before create
  fiber,     \* Co->Fiber: "none" (NULL, never created), "live", "deleted"
  owner,     \* Co->OwnerThread
  caller,    \* Co->CallerFiber
  anchored,  \* Co->LuaRefSelf # LUA_NOREF
  coFrame,   \* Co->JitFrame, as the fiber the frame was captured on
  luaSide,   \* Co->L: "entry" (fn preloaded), "frames", "closing", "reset"
  current,   \* the TLS slot: CurrentCoro() of each OS thread
  frame,     \* Veh_GetJitFrame() of each OS thread
  active,    \* the fiber each OS thread executes (or would, at its turn)
  waiting,   \* per fiber, the locals of a LuaFn_Resume that switched away
  closing,   \* per fiber, the coroutines whose LuaFn_Close is under way on it
  turn,      \* the OS threads inside Lua, the last one executing
  phase      \* "run", "closed" (lua_close returned), "killed" (see StateClose)

vars == <<status, fiber, owner, caller, anchored, coFrame, luaSide, current,
          frame, active, waiting, closing, turn, phase>>

NoCall == [co |-> Nil, prev |-> Nil, saved |-> Nil]

(* Thread t executes user code on its active fiber.                        *)
Quiet(t) == waiting[active[t]] = NoCall
Runs(t) == phase = "run" /\ turn[Len(turn)] = t /\ Quiet(t)

BeingClosed == UNION {Range(closing[f]) : f \in Fiber}
Enterable(c) == HandlersReenter \/ c \notin BeingClosed

TypeOK ==
  /\ status \in [Coro -> {"absent", "suspended", "running", "normal", "dead"}]
  /\ fiber \in [Coro -> {"none", "live", "deleted"}]
  /\ owner \in [Coro -> Thread]
  /\ caller \in [Coro -> Fiber \cup {Nil}]
  /\ anchored \in [Coro -> BOOLEAN]
  /\ coFrame \in [Coro -> Fiber \cup {Nil}]
  /\ luaSide \in [Coro -> {"entry", "frames", "closing", "reset"}]
  /\ current \in [Thread -> Coro \cup {Nil}]
  /\ frame \in [Thread -> Fiber \cup {Nil}]
  /\ active \in [Thread -> Fiber]
  /\ waiting \in [Fiber -> [co : Coro \cup {Nil}, prev : Coro \cup {Nil},
                            saved : Fiber \cup {Nil}]]
  /\ closing \in [Fiber -> Seq(Coro)]
  /\ turn \in Seq(Thread) \ {<<>>}
  /\ phase \in {"run", "closed", "killed"}

Init ==
  /\ status = [c \in Coro |-> "absent"]
  /\ fiber = [c \in Coro |-> "none"]
  /\ owner = [c \in Coro |-> Main]
  /\ caller = [c \in Coro |-> Nil]
  /\ anchored = [c \in Coro |-> FALSE]
  /\ coFrame = [c \in Coro |-> Nil]
  /\ luaSide = [c \in Coro |-> "entry"]
  /\ current = [t \in Thread |-> Nil]
  /\ frame = [t \in Thread |-> Nil]
  /\ active = [t \in Thread |-> t]
  /\ waiting = [f \in Fiber |-> NoCall]
  /\ closing = [f \in Fiber |-> <<>>]
  /\ turn = <<Main>>
  /\ phase = "run"

-----------------------------------------------------------------------------
(* coroutine.create: the userdatum is anchored in the registry before the  *)
(* fiber is made; a failed CreateFiber drops the anchor and raises.        *)
Create(t, c) ==
  /\ Runs(t)
  /\ status[c] = "absent"
  /\ status' = [status EXCEPT ![c] = "suspended"]
  /\ owner' = [owner EXCEPT ![c] = t]
  /\ \E made \in BOOLEAN :
       /\ fiber' = [fiber EXCEPT ![c] = IF made THEN "live" ELSE "none"]
       /\ anchored' = [anchored EXCEPT ![c] = made]
  /\ UNCHANGED <<caller, coFrame, luaSide, current, frame, active, waiting, closing,
                 turn, phase>>

(* A userdatum nothing holds: only one whose fiber could not be made.      *)
Collect(c) ==
  /\ phase = "run"
  /\ status[c] # "absent" /\ ~anchored[c]
  /\ fiber' = [fiber EXCEPT ![c] = "none"]
  /\ status' = [status EXCEPT ![c] = "absent"]
  /\ UNCHANGED <<owner, caller, anchored, coFrame, luaSide, current, frame, active,
                 waiting, closing, turn, phase>>

(* Mutants of the operators of resume below: the frame of the resumer is   *)
(* kept; every yield goes to the thread's own fiber; CallerFiber is not    *)
(* set; the resumer stays "running".                                       *)
FrameKept(t, c) == frame[t]
CallerIsThread(t) == t
CallerUnset(t) == Nil
PrevUnchanged(t) == status

Resumable(c) == status[c] = "suspended" /\ anchored[c]
FrameFor(t, c) == coFrame[c]
CallerFor(t) == active[t]
PrevNormal(t) == [c \in Coro |-> IF c = current[t] THEN "normal" ELSE status[c]]

(* coroutine.resume up to SwitchToFiber: the refusals (another OS thread,  *)
(* not suspended) change nothing; the locals Prev and SavedJitFrame stay   *)
(* on the resumer's stack.                                                 *)
Resume(t, c) ==
  /\ Runs(t)
  /\ owner[c] = t /\ Resumable(c) /\ Enterable(c)
  /\ status' = [PrevNormal(t) EXCEPT ![c] = "running"]
  /\ waiting' = [waiting EXCEPT ![active[t]] =
                   [co |-> c, prev |-> current[t], saved |-> frame[t]]]
  /\ current' = [current EXCEPT ![t] = c]
  /\ caller' = [caller EXCEPT ![c] = CallerFor(t)]
  /\ luaSide' = [luaSide EXCEPT ![c] = "frames"]
  /\ frame' = [frame EXCEPT ![t] = FrameFor(t, c)]
  /\ active' = [active EXCEPT ![t] = c]
  /\ UNCHANGED <<fiber, owner, anchored, coFrame, closing, turn, phase>>

(* coroutine.resume after SwitchToFiber came back.                         *)
ResumeReturns(t) ==
  /\ phase = "run" /\ turn[Len(turn)] = t /\ ~Quiet(t)
  /\ LET w == waiting[active[t]] IN
       /\ coFrame' = [coFrame EXCEPT ![w.co] = frame[t]]
       /\ frame' = [frame EXCEPT ![t] = w.saved]
       /\ current' = [current EXCEPT ![t] = w.prev]
       /\ status' = [c \in Coro |-> IF c = w.prev THEN "running" ELSE status[c]]
  /\ waiting' = [waiting EXCEPT ![active[t]] = NoCall]
  /\ UNCHANGED <<fiber, owner, caller, anchored, luaSide, active, closing, turn, phase>>

(* coroutine.yield: refused outside a coroutine and in a __close handler,  *)
(* whose Lua state is not the current coroutine's.                         *)
Yield(t) ==
  /\ Runs(t)
  /\ current[t] # Nil /\ closing[active[t]] = <<>>
  /\ status' = [status EXCEPT ![current[t]] = "suspended"]
  /\ active' = [active EXCEPT ![t] = caller[current[t]]]
  /\ UNCHANGED <<fiber, owner, caller, anchored, coFrame, luaSide, current, frame,
                 waiting, closing, turn, phase>>

(* Mutant: the status is left as the last resume set it.                   *)
FinishRunning(t) ==
  /\ Runs(t)
  /\ active[t] \in Coro /\ closing[active[t]] = <<>>
  /\ luaSide' = [luaSide EXCEPT ![active[t]] = "reset"]
  /\ active' = [active EXCEPT ![t] = caller[active[t]]]
  /\ UNCHANGED <<status, fiber, owner, caller, anchored, coFrame, current, frame,
                 waiting, closing, turn, phase>>

(* Coro_FiberEntry: the function returned, or raised into its lua_pcall,   *)
(* possibly past the trampoline that had installed this fiber's frame.     *)
Finish(t) ==
  /\ Runs(t)
  /\ active[t] \in Coro /\ closing[active[t]] = <<>>
  /\ LET c == active[t] IN
       /\ status' = [status EXCEPT ![c] = "dead"]
       /\ luaSide' = [luaSide EXCEPT ![c] = "reset"]
       /\ active' = [active EXCEPT ![t] = caller[c]]
  /\ UNCHANGED <<fiber, owner, caller, anchored, coFrame, current, frame, waiting,
                 closing, turn, phase>>

-----------------------------------------------------------------------------
(* Mutant: only the running coroutine is refused.                          *)
ClosableNormal(c) == status[c] # "running" /\ anchored[c]

(* coroutine.close raises for a running or normal coroutine.               *)
Closable(c) == status[c] \in {"suspended", "dead"} /\ anchored[c]

(* lua_closethread finds no to-be-closed variable and no frame.            *)
NothingPending(c) == luaSide[c] \in {"entry", "reset"}

Destroy(c) ==
  /\ fiber' = [fiber EXCEPT ![c] = "deleted"]
  /\ status' = [status EXCEPT ![c] = "dead"]
  /\ luaSide' = [luaSide EXCEPT ![c] = "reset"]

(* Nothing pending on the coroutine's Lua stack: lua_closethread runs no   *)
(* handler and the fiber is deleted in the same call.                      *)
CloseIdle(t, c) ==
  /\ Runs(t)
  /\ Closable(c) /\ NothingPending(c)
  /\ Enterable(c)
  /\ Destroy(c)
  /\ UNCHANGED <<owner, caller, anchored, coFrame, current, frame, active, waiting,
                 closing, turn, phase>>

(* lua_closethread tears the stack down and calls the pending handlers on  *)
(* the caller's fiber, with the status still "suspended".                  *)
CloseBegins(t, c) ==
  /\ Runs(t)
  /\ Closable(c) /\ ~NothingPending(c)
  /\ Enterable(c)
  /\ Len(closing[active[t]]) < MaxClosing
  /\ luaSide' = [luaSide EXCEPT ![c] = "closing"]
  /\ closing' = [closing EXCEPT ![active[t]] = Append(@, c)]
  /\ UNCHANGED <<status, fiber, owner, caller, anchored, coFrame, current, frame,
                 active, waiting, turn, phase>>

(* The handlers are done (whether or not one raised: both paths delete the *)
(* fiber and mark the coroutine dead).                                     *)
CloseEnds(t) ==
  /\ Runs(t)
  /\ LET f == active[t] IN
       /\ closing[f] # <<>>
       /\ Destroy(closing[f][Len(closing[f])])
       /\ closing' = [closing EXCEPT ![f] = SubSeq(@, 1, Len(@) - 1)]
  /\ UNCHANGED <<owner, caller, anchored, coFrame, current, frame, active, waiting,
                 turn, phase>>

-----------------------------------------------------------------------------
(* Jit_TrampolineEntry, outermost entry of a fiber: install a frame on its *)
(* stack, and take it away on return.  A nested entry changes nothing.     *)
JitEnter(t) ==
  /\ Runs(t) /\ frame[t] = Nil
  /\ frame' = [frame EXCEPT ![t] = active[t]]
  /\ UNCHANGED <<status, fiber, owner, caller, anchored, coFrame, luaSide, current,
                 active, waiting, closing, turn, phase>>

JitLeave(t) ==
  /\ Runs(t) /\ frame[t] # Nil
  /\ frame' = [frame EXCEPT ![t] = Nil]
  /\ UNCHANGED <<status, fiber, owner, caller, anchored, coFrame, luaSide, current,
                 active, waiting, closing, turn, phase>>

(* An FFI callback arrives on another OS thread, and returns from it.      *)
Enter(t) ==
  /\ Runs(turn[Len(turn)])
  /\ t \notin Range(turn)
  /\ turn' = Append(turn, t)
  /\ UNCHANGED <<status, fiber, owner, caller, anchored, coFrame, luaSide, current,
                 frame, active, waiting, closing, phase>>

Leave(t) ==
  /\ Runs(t) /\ Len(turn) > 1
  /\ active[t] = t /\ closing[t] = <<>> /\ frame[t] = Nil
  /\ turn' = SubSeq(turn, 1, Len(turn) - 1)
  /\ UNCHANGED <<status, fiber, owner, caller, anchored, coFrame, luaSide, current,
                 frame, active, waiting, closing, phase>>

(* lua_close, at the end of the program or from os.exit(code, true): the   *)
(* registry is dropped and Coro_Gc deletes every fiber.  DeleteFiber of    *)
(* the fiber that executes it ends the OS thread: exit is never reached.   *)
StateClose(t) ==
  /\ Runs(t)
  /\ fiber' = [c \in Coro |-> IF fiber[c] = "live" THEN "deleted" ELSE fiber[c]]
  /\ anchored' = [c \in Coro |-> FALSE]
  /\ phase' = IF active[t] \in Coro THEN "killed" ELSE "closed"
  /\ UNCHANGED <<status, owner, caller, coFrame, luaSide, current, frame, active,
                 waiting, closing, turn>>

Next ==
  \/ \E t \in Thread :
       \/ ResumeReturns(t) \/ Yield(t) \/ Finish(t) \/ CloseEnds(t)
       \/ JitEnter(t) \/ JitLeave(t) \/ Enter(t) \/ Leave(t) \/ StateClose(t)
  \/ \E t \in Thread, c \in Coro :
       Create(t, c) \/ Resume(t, c) \/ CloseIdle(t, c) \/ CloseBegins(t, c)
  \/ \E c \in Coro : Collect(c)

Spec == Init /\ [][Next]_vars

-----------------------------------------------------------------------------
(* The activations up to fiber f: the path of CallerFiber links to it, from *)
(* a coroutine that was not resumed by another.                            *)
IsPath(s, f, link) ==
  /\ s = <<>> <=> f \notin Coro
  /\ s # <<>> => s[Len(s)] = f /\ link[s[1]] \notin Coro
  /\ \A i \in 2..Len(s) : link[s[i]] = s[i - 1]

Paths == UNION {[1..n -> Coro] : n \in 0..Cardinality(Coro)}
PathTo(f, link) == CHOOSE s \in Paths : IsPath(s, f, link)

(* What the library promises: the activation stacks of CoroAbs.            *)
AbsStack == [t \in Thread |-> PathTo(active[t], caller)]
AbsReady == {c \in Coro : status[c] = "suspended" /\ fiber[c] # "none"}
AbsDead == {c \in Coro : status[c] = "dead"}
AbsHome == [c \in Coro |-> IF fiber[c] = "none" THEN Main ELSE owner[c]]
Abs == INSTANCE CoroAbs WITH
         stack <- AbsStack, ready <- AbsReady, dead <- AbsDead,
         closing <- BeingClosed, home <- AbsHome

(* Every library call is a legal step of the reference coroutine machine   *)
(* or no step at all: switching fibers keeps the activation stacks.        *)
ImplementsAbs == Abs!Spec

(* Whenever a thread executes user code, CurrentCoro names the fiber it is *)
(* on (none on the thread's own), and of all the thread's coroutines that  *)
(* one and no other has status "running".                                  *)
CurrentIsRunning ==
  \A t \in Thread :
    Quiet(t) =>
      /\ current[t] = (IF active[t] \in Coro THEN active[t] ELSE Nil)
      /\ \A c \in Coro : owner[c] = t => (status[c] = "running" <=> c = active[t])

(* A caller waits for each activation: yield, return and error always come *)
(* back to the LuaFn_Resume that entered the coroutine, with its locals.   *)
CallerWaits ==
  \A c \in Coro :
    status[c] \in {"running", "normal"} =>
      /\ caller[c] \in Fiber
      /\ waiting[caller[c]].co = c
      /\ waiting[caller[c]].prev = (IF caller[c] \in Coro THEN caller[c] ELSE Nil)

(* A hardware fault is recovered on the fiber it happened on: the thread's *)
(* recovery frame never belongs to another, suspended fiber's stack.       *)
FrameOfOwnFiber ==
  \A t \in Thread : Quiet(t) => frame[t] \in {Nil, active[t]}

(* No fiber that executes or that someone will switch back to is deleted,  *)
(* by close or by a collection.                                            *)
NoLiveFiberDeleted ==
  phase = "run" =>
    \A c \in Coro : status[c] \in {"running", "normal"} => fiber[c] = "live"

(* coro.c:315: lua_closethread tears the Lua side down before close        *)
(* deletes the fiber; no fiber is deleted with frames left in mid-call.    *)
TornDownBeforeDelete ==
  [][phase' = "run" =>
       \A c \in Coro : fiber[c] = "live" /\ fiber'[c] = "deleted"
                        => luaSide[c] # "frames"]_vars
=============================================================================
