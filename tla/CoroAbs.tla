------------------------------ MODULE CoroAbs ------------------------------
(***************************************************************************)
(* What the coroutine library promises its programs (coro.h, Lua 5.4):     *)
(* each OS thread has a stack of activations; resume pushes a suspended    *)
(* coroutine of that thread, yield and return pop the top one back to      *)
(* whoever resumed it, close ends a coroutine that is on no stack, and     *)
(* nothing may enter a coroutine while its __close handlers run.           *)
(***************************************************************************)
EXTENDS Naturals, Sequences, Functions

CONSTANTS Thread, Coro

VARIABLES stack,   \* [Thread -> Seq(Coro)], the last element is running
          ready,   \* the suspended coroutines
          dead,    \* the finished or closed ones
          closing, \* those whose pending __close handlers are running
          home     \* the OS thread a coroutine belongs to

vars == <<stack, ready, dead, closing, home>>

Active == UNION {Range(stack[t]) : t \in Thread}

Init ==
  /\ stack = [t \in Thread |-> <<>>]
  /\ ready = {}
  /\ dead = {}
  /\ closing = {}
  /\ home \in [Coro -> Thread]

Create(t, c) ==
  /\ c \notin ready \cup dead \cup Active
  /\ ready' = ready \cup {c}
  /\ home' = [home EXCEPT ![c] = t]
  /\ UNCHANGED <<stack, dead, closing>>

Resume(t, c) ==
  /\ c \in ready \ closing
  /\ home[c] = t
  /\ stack' = [stack EXCEPT ![t] = Append(@, c)]
  /\ ready' = ready \ {c}
  /\ UNCHANGED <<dead, closing, home>>

Top(t) == stack[t][Len(stack[t])]
Pop(t) == stack' = [stack EXCEPT ![t] = SubSeq(@, 1, Len(@) - 1)]

Yield(t) ==
  /\ stack[t] # <<>>
  /\ Pop(t)
  /\ ready' = ready \cup {Top(t)}
  /\ UNCHANGED <<dead, closing, home>>

Return(t) ==
  /\ stack[t] # <<>>
  /\ Pop(t)
  /\ dead' = dead \cup {Top(t)}
  /\ UNCHANGED <<ready, closing, home>>

BeginClose(c) ==
  /\ c \in ready \ closing
  /\ closing' = closing \cup {c}
  /\ UNCHANGED <<stack, ready, dead, home>>

EndClose(c) ==
  /\ c \in ready
  /\ ready' = ready \ {c}
  /\ dead' = dead \cup {c}
  /\ closing' = closing \ {c}
  /\ UNCHANGED <<stack, home>>

Next ==
  \/ \E t \in Thread : Yield(t) \/ Return(t)
  \/ \E t \in Thread, c \in Coro : Create(t, c) \/ Resume(t, c)
  \/ \E c \in Coro : BeginClose(c) \/ EndClose(c)

Spec == Init /\ [][Next]_vars
=============================================================================
