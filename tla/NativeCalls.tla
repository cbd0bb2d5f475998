---------------------------- MODULE NativeCalls ----------------------------
(***************************************************************************)
(* Calls between natively compiled Lua functions and C functions, on the   *)
(* one Lua stack: the call, return, tail call, vararg, metamethod, generic *)
(* for and close helpers of jit/runtime.c with the parts of the Lua core   *)
(* they run (luaD_precall, luaD_pretailcall, ccall, luaD_poscall).  A step *)
(* is one helper call of a native body, one action of a C function, or the *)
(* tail of a helper whose callee has come back.                            *)
(*                                                                         *)
(* stk is the Lua stack: its slots, top, stack_last and CallInfos, all     *)
(* offsets.  nat is the machine stack, one record per C activation.  lua   *)
(* is what the language promises: a frame per CallInfo whose registers     *)
(* nobody else can touch.                                                  *)
(***************************************************************************)
EXTENDS Integers, Sequences, SequencesExt

CONSTANTS
    FnInfo,       \* function -> [kind, params, vararg, size, closes]
    Programs,    \* [start, args, ops, fns, inner, last, fuel]: what a run may do;
                 \* fuel bounds its instructions
    Host,        \* the C code that starts the program
    nil, lost, yes, no, oops,
    Slack,       \* the headroom Rt_Call asks for above a frame
    Extra,       \* EXTRA_STACK
    MinStack,    \* LUA_MINSTACK
    Shapes,      \* <<arguments, results>> of a call
    Counts       \* how many values a return, a C function or a vararg yields

\* A frame has room for its parameters; C functions take what they are given;
\* the allocation goes on behind stack_last; the C code that starts the program
\* fits into the first stack; and a C function is given a headroom it keeps to.
ASSUME CallsAssumption ==
    /\ \A f \in DOMAIN FnInfo :
         LET p == FnInfo[f]
         IN /\ p.kind \in {"lua", "c", "calls", "pcall"} /\ p.params \in Nat /\ p.size \in Nat
            /\ p.vararg \in BOOLEAN /\ p.closes \in BOOLEAN
            /\ IF p.kind = "lua" THEN p.params <= p.size ELSE p.params = 0 /\ ~p.vararg
    /\ Host \in DOMAIN FnInfo /\ FnInfo[Host].kind = "calls"
    /\ \A p \in Programs :
         /\ p.fns \cup {p.start, p.inner} \subseteq DOMAIN FnInfo
         /\ FnInfo[p.start].kind \in {"lua", "c"} /\ FnInfo[p.inner].kind \in {"lua", "c"}
         /\ p.args \in Nat /\ p.fuel \in Nat /\ p.last \in Nat /\ p.args + 2 + MinStack <= p.last
    /\ Slack \in Nat /\ Extra \in Nat /\ Extra >= 3 /\ MinStack \in Nat /\ MinStack >= 3
    /\ Shapes \subseteq Nat \X (Nat \cup {-1}) /\ Counts \subseteq 0..MinStack

VARIABLES stk, nat, lua, rax, rep, fuel, prog

callsVars == <<stk, nat, lua, rax, rep, fuel, prog>>

MULTRET == -1
IsLua(f) == FnInfo[f].kind = "lua"
Nils(n) == [i \in 1..n |-> nil]
Adjusted(vs, n) == IF n = MULTRET THEN vs ELSE SubSeq(vs \o Nils(n), 1, n)
Token(j) == 4 * fuel + j
Tokens(n) == [j \in 1..n |-> Token(j)]

-----------------------------------------------------------------------------
(* The Lua stack.                                                          *)

At(m, i) == IF i \in DOMAIN m.mem THEN m.mem[i] ELSE lost
Read(m, at, n) == [i \in 1..n |-> At(m, at + i - 1)]
Put(m, at, vs) ==
    [m EXCEPT !.mem = [i \in DOMAIN @ |-> IF i \in at..(at + Len(vs) - 1) THEN vs[i - at + 1] ELSE @[i]]]
Copy(m, from, n, to) == Put(m, to, Read(m, from, n))
Topped(m, t) == [m EXCEPT !.top = t]
Claimed(m) == Topped(m, Last(m.cis).top)
Base(m) == Last(m.cis).func + 1
PushCI(m, func, top, n) ==
    [m EXCEPT !.cis = Append(@, [func |-> func, top |-> top, n |-> n, drive |-> FALSE, nextra |-> 0])]
SetCI(m, ci) == [m EXCEPT !.cis = Append(Front(@), ci)]

\* The collector clears the dead part of the stack.
Collected(m) == [m EXCEPT !.mem = [i \in DOMAIN @ |-> IF i >= m.top THEN nil ELSE @[i]]]
Grown(m, n) ==
    LET size == Max({2 * m.last, m.top + n})
    IN [m EXCEPT !.last = size,
                 !.mem = [i \in 0..(size + Extra - 1) |-> IF i \in DOMAIN @ THEN @[i] ELSE nil]]
CheckStack(m, n) == IF m.last - m.top > n THEN m ELSE Grown(m, n)
CheckStackGC(m, n) ==
    IF m.last - m.top > n THEN {m} ELSE {Grown(m, n), Grown(Collected(m), n)}

-----------------------------------------------------------------------------
(* The Lua core.                                                           *)

Padded(m, func, p) ==
    LET have == m.top - func - 1
    IN Topped(Put(m, m.top, Nils(p.params - have)), Max({m.top, func + 1 + p.params}))
Precall(m, func, n) ==
    LET p == FnInfo[At(m, func)]
    IN {Padded(PushCI(g, func, func + 1 + p.size, n), func, p) : g \in CheckStackGC(m, p.size)}
PrecallC(m, func, n) ==
    {PushCI(g, func, g.top + MinStack, n) : g \in CheckStackGC(m, MinStack)}
Poscall(m, n) ==
    LET ci == Last(m.cis)
        vs == Adjusted(Read(m, m.top - n, n), ci.n)
    IN [Topped(Put(m, ci.func, vs), ci.func + Len(vs)) EXCEPT !.cis = Front(@)]
Pretailcall(m, func, narg1, delta) ==
    LET p == FnInfo[At(m, func)]
        ci == Last(m.cis)
        to == ci.func - delta
        moved(g) == Put(Copy(g, func, narg1, to), to + narg1, Nils(p.params + 1 - narg1))
    IN {Topped(SetCI(moved(g), [ci EXCEPT !.func = to, !.top = to + 1 + p.size]),
               to + Max({narg1, p.params + 1})) : g \in CheckStackGC(m, p.size - delta)}
AdjustVarargs(m, p) ==
    LET ci == Last(m.cis)
        actual == m.top - ci.func - 1
        g == CheckStack(m, p.size + 1)
        h == Put(Copy(g, ci.func, p.params + 1, g.top), ci.func + 1, Nils(p.params))
    IN SetCI(h, [ci EXCEPT !.nextra = actual - p.params, !.func = @ + actual + 1, !.top = @ + actual + 1])
Extras(m) == LET ci == Last(m.cis) IN Read(m, ci.func - ci.nextra, ci.nextra)
GetVarargs(m, where, n) ==
    IF n # MULTRET THEN {Put(m, where, Adjusted(Extras(m), n))}
    ELSE LET x == Last(m.cis).nextra
         IN {Put(Topped(g, where + x), where, Extras(g)) : g \in CheckStackGC(m, x)}

-----------------------------------------------------------------------------
(* The language's own view: frames with private registers.  want tells how *)
(* the results of the call a frame waits for become registers; open is the *)
(* register where a list of unknown length starts, or -1.                  *)

Frame == Last(lua)
Live == Len(Frame.regs)
Now(f) == Append(Front(lua), f)
Called(fn, args) ==
    LET p == FnInfo[fn]
        all == args \o Nils(p.params - Len(args))
    IN [fn |-> fn, regs |-> IF IsLua(fn) /\ ~p.vararg THEN SubSeq(all, 1, p.params) ELSE all,
        extra |-> <<>>, open |-> -1, ready |-> ~p.vararg, closed |-> FALSE, ret |-> FALSE,
        want |-> [pre |-> <<>>, n |-> 0, post |-> <<>>]]
Waits(keep, pre, n, post) ==
    [Frame EXCEPT !.regs = keep, !.open = -1, !.want = [pre |-> pre, n |-> n, post |-> post]]
\* The callee on top hands vs to the frame below it.
Delivered(vs) ==
    LET f == lua[Len(lua) - 1]
        w == f.want
    IN Append(SubSeq(lua, 1, Len(lua) - 2), [f EXCEPT !.regs = w.pre \o Adjusted(vs, w.n) \o w.post])

-----------------------------------------------------------------------------
(* Calling.                                                                *)

Act(kind, a, n) == [kind |-> kind, a |-> a, n |-> n]
Body == Act("body", 0, 0)
CFunction == Act("cfn", 0, 0)

\* luaD_call of the function at func, on behalf of the activations in under.
LuaDCall(m, func, n, under, caller, args) ==
    LET fn == At(m, func)
        called == Append(Now(caller), Called(fn, args))
    IN /\ lua' = called
       /\ IF IsLua(fn)
          THEN stk' \in Precall(m, func, n) /\ nat' = under \o <<Act("ccall", 0, 0), Body>>
          ELSE stk' \in PrecallC(m, func, n) /\ nat' = Append(under, CFunction)

(* Mutant: room is made for the registers, the headroom above is only      *)
(* claimed.                                                                *)
EnterNativeTight(m, func, n) ==
    LET p == FnInfo[At(m, func)]
        ceiling == Max({func + 1 + p.size, m.top + p.size + Slack})
        g == Padded(PushCI(CheckStack(m, p.size), func, ceiling, n), func, p)
    IN IF p.vararg THEN g ELSE Claimed(g)
\* Rt_Call into a native body.
EnterNative(m, func, n) ==
    LET p == FnInfo[At(m, func)]
        need == p.size + Slack
        ceiling == Max({func + 1 + p.size, m.top + need})
        g == Padded(PushCI(CheckStack(m, need), func, ceiling, n), func, p)
    IN IF p.vararg THEN g ELSE Claimed(g)
RtCall(m, a, nargs, n, caller, args) ==
    LET func == Base(m) + a
        g == IF nargs = MULTRET THEN m ELSE Topped(m, func + 1 + nargs)
    IN IF IsLua(At(m, func))
       THEN /\ stk' = EnterNative(g, func, n)
            /\ nat' = nat \o <<Act("rtcall", a, n), Body>>
            /\ lua' = Append(Now(caller), Called(At(m, func), args))
       ELSE LuaDCall(g, func, n, Append(nat, Act("slow", 0, n)), caller, args)

Waiting(kind) == rax >= 0 /\ Last(nat).kind = kind
\* The helper on top of the machine stack returns to the body that called it.
ToBody == nat' = Front(nat) /\ rax' = -1

(* Mutant: the top is left where the results end. *)
RtCallReturnsLow ==
    /\ Waiting("rtcall")
    /\ LET r == Last(nat)
           func == stk.cis[Len(stk.cis) - 1].func + 1 + r.a
           n == stk.top - Last(stk.cis).func
           vs == Adjusted(Read(stk, Last(stk.cis).func, n), r.n)
       IN stk' = [Topped(Put(stk, func, vs), func + Len(vs)) EXCEPT !.cis = Front(@)]
    /\ lua' = Delivered(Frame.regs)
    /\ ToBody /\ UNCHANGED <<rep, fuel, prog>>
RtCallReturns ==
    /\ Waiting("rtcall")
    /\ LET r == Last(nat)
           func == stk.cis[Len(stk.cis) - 1].func + 1 + r.a
           n == stk.top - Last(stk.cis).func
           vs == Adjusted(Read(stk, Last(stk.cis).func, n), r.n)
           m == [Topped(Put(stk, func, vs), func + Len(vs)) EXCEPT !.cis = Front(@)]
       IN stk' = IF r.n = MULTRET THEN m ELSE Claimed(m)
    /\ lua' = Delivered(Frame.regs)
    /\ ToBody /\ UNCHANGED <<rep, fuel, prog>>

SlowReturns ==
    /\ Waiting("slow")
    /\ stk' = IF Last(nat).n = MULTRET THEN stk ELSE Claimed(stk)
    /\ ToBody /\ UNCHANGED <<lua, rep, fuel, prog>>

\* ccall after the native body it dispatched to.
CcallReturns ==
    /\ Waiting("ccall")
    /\ stk' = Poscall(stk, rax)
    /\ lua' = Delivered(Frame.regs)
    /\ nat' = Front(nat) /\ UNCHANGED <<rax, rep, fuel, prog>>

-----------------------------------------------------------------------------
(* The instructions of a native body.                                      *)

Runs(kind) == rax = -1 /\ Last(nat).kind = kind
Executes(op) ==
    /\ Runs("body") /\ op \in prog.ops /\ fuel > 0
    /\ Frame.ready /\ ~Frame.closed /\ Frame.open = -1
    /\ fuel' = fuel - 1
FrameSize == FnInfo[Frame.fn].size
Here == Base(stk) + Live
Pushed(vs) == Put(stk, Here, vs)
Holding(vs) == Now([Frame EXCEPT !.regs = @ \o vs])
\* The first argument of a C function that calls one is a function.
TakesAnything(fn) == FnInfo[fn].kind \in {"lua", "c"}
Args(fn, n) ==
    IF TakesAnything(fn) THEN Tokens(n) ELSE <<prog.inner>> \o Tokens(n)

VarargPrep ==
    /\ Runs("body") /\ ~Frame.ready
    /\ LET p == FnInfo[Frame.fn]
       IN /\ stk' = Claimed(AdjustVarargs(stk, p))
          /\ lua' = Now([Frame EXCEPT !.ready = TRUE, !.regs = SubSeq(@, 1, p.params),
                                      !.extra = SubSeq(Frame.regs, p.params + 1, Live)])
    /\ UNCHANGED <<nat, rax, rep, fuel, prog>>

Load ==
    /\ Executes("load") /\ Live < FrameSize
    /\ stk' = Pushed(Tokens(1)) /\ lua' = Holding(Tokens(1))
    /\ UNCHANGED <<nat, rax, rep, prog>>

\* f(1, 2): the function and its arguments go to the next registers.
Call(fn, nargs, n) ==
    /\ Executes("call")
    /\ LET args == Args(fn, nargs)
       IN /\ Live + 1 + Len(args) <= FrameSize /\ Live + n <= FrameSize
          /\ RtCall(Pushed(<<fn>> \o args), Live, Len(args), n, Waits(Frame.regs, Frame.regs, n, <<>>), args)
    /\ UNCHANGED <<rax, rep, prog>>

\* The argument list of fn ends in g(): g's results stay open.
OpenCall(fn, g) ==
    /\ Executes("open") /\ TakesAnything(fn) /\ Live + 2 + Len(Args(g, 0)) <= FrameSize
    /\ LET kept == Frame.regs \o <<fn>>
       IN RtCall(Pushed(<<fn, g>> \o Args(g, 0)), Live + 1, Len(Args(g, 0)), MULTRET,
                 [Waits(kept, kept, MULTRET, <<>>) EXCEPT !.open = Live], Args(g, 0))
    /\ UNCHANGED <<rax, rep, prog>>

\* The argument list of fn ends in "...".
OpenVararg(fn) ==
    /\ Executes("dots") /\ TakesAnything(fn) /\ FnInfo[Frame.fn].vararg /\ Live + 2 <= FrameSize
    /\ stk' \in GetVarargs(Pushed(<<fn>>), Here + 1, MULTRET)
    /\ lua' = Now([Frame EXCEPT !.regs = @ \o <<fn>> \o Frame.extra, !.open = Live])
    /\ UNCHANGED <<nat, rax, rep, prog>>

\* The call, list constructor or tail call that consumes an open list.
Consumes(op) ==
    /\ Runs("body") /\ op \in prog.ops /\ Frame.open >= 0
    /\ UNCHANGED <<fuel, prog>>
OpenArgs == SubSeq(Frame.regs, Frame.open + 2, Live)
CallOpen(n) ==
    /\ Consumes("call") /\ ~Frame.closed /\ Frame.open + n <= FrameSize
    /\ LET keep == SubSeq(Frame.regs, 1, Frame.open)
       IN RtCall(stk, Frame.open, MULTRET, n, Waits(keep, keep, n, <<>>), OpenArgs)
    /\ UNCHANGED <<rax, rep>>

\* {1, g()}: the table keeps the values, top stays at the end of the list.
SetList ==
    /\ Consumes("table") /\ ~Frame.closed
    /\ lua' = Now([Frame EXCEPT !.regs = SubSeq(@, 1, Frame.open + 1), !.open = -1])
    /\ UNCHANGED <<stk, nat, rax, rep>>

Vararg(n) ==
    /\ Executes("vararg") /\ FnInfo[Frame.fn].vararg /\ Live + n <= FrameSize
    /\ stk' \in GetVarargs(stk, Here, n)
    /\ lua' = Holding(Adjusted(Frame.extra, n))
    /\ UNCHANGED <<nat, rax, rep, prog>>

\* A helper that runs a metamethod: its result replaces register r.
Meta(r) ==
    /\ Executes("meta")
    /\ LET m == Claimed(stk)
           args == Tokens(2)
       IN LuaDCall(Topped(Put(m, m.top, <<prog.inner>> \o args), m.top + 3), m.top, 1,
                   Append(nat, Act("meta", r, 0)),
                   Waits(Frame.regs, SubSeq(Frame.regs, 1, r), 1, SubSeq(Frame.regs, r + 2, Live)), args)
    /\ UNCHANGED <<rax, rep, prog>>
MetaReturns ==
    /\ Waiting("meta")
    /\ stk' = Claimed(Copy(stk, stk.top - 1, 1, Base(stk) + Last(nat).a))
    /\ ToBody /\ UNCHANGED <<lua, rep, fuel, prog>>

\* for ... in inner, state, control: one turn, into n variables.
TForCall(n) ==
    /\ Executes("tfor") /\ Live + 7 <= FrameSize /\ Live + 4 + n <= FrameSize
    /\ LET triple == <<prog.inner>> \o Tokens(2)
           keep == Frame.regs \o triple \o <<nil>>
       IN LuaDCall(Topped(Pushed(triple \o <<nil>> \o triple), Here + 7), Here + 4, n,
                   Append(nat, Act("tfor", 0, 0)), Waits(keep, keep, n, <<>>), Tokens(2))
    /\ UNCHANGED <<rax, rep, prog>>
TForReturns == Waiting("tfor") /\ ToBody /\ UNCHANGED <<stk, lua, rep, fuel, prog>>

NewTable ==
    /\ Executes("table") /\ Live < FrameSize
    /\ LET m == Topped(Pushed(Tokens(1)), Max({stk.top, Here + 1}))
       IN stk' \in {m, Collected(m)}
    /\ lua' = Holding(Tokens(1))
    /\ UNCHANGED <<nat, rax, rep, prog>>

\* The to-be-closed variable of a function that has one, before it returns.
Close ==
    /\ Runs("body") /\ Frame.ready /\ FnInfo[Frame.fn].closes /\ ~Frame.closed
    /\ LET top == Max({stk.top, Last(stk.cis).top})
           args == <<Token(1), nil>>
       IN LuaDCall(Topped(Put(stk, top, <<prog.inner>> \o args), top + 3), top, 0,
                   Append(nat, Act("close", 0, stk.top)),
                   [Waits(Frame.regs, Frame.regs, 0, <<>>) EXCEPT !.open = Frame.open, !.closed = TRUE], args)
    /\ UNCHANGED <<rax, rep, fuel, prog>>
(* Mutant: the raised top stays. *)
CloseReturnsRaised ==
    /\ Waiting("close")
    /\ stk' = Claimed(stk)
    /\ ToBody /\ UNCHANGED <<lua, rep, fuel, prog>>
CloseReturns ==
    /\ Waiting("close")
    /\ stk' = Topped(stk, Last(nat).n)
    /\ ToBody /\ UNCHANGED <<lua, rep, fuel, prog>>

-----------------------------------------------------------------------------
(* Returning and tail calls.                                               *)

MayLeave == Runs("body") /\ Frame.ready /\ Frame.closed = FnInfo[Frame.fn].closes
Delta(m) == LET p == FnInfo[Frame.fn] IN IF p.vararg THEN Last(m.cis).nextra + p.params + 1 ELSE 0

(* Mutant: the frame of a vararg function is not moved back. *)
PrepReturnThere(m, a, n) ==
    LET src == Base(m) + a
        count == IF n = MULTRET THEN m.top - src ELSE n
        dst == Last(m.cis).func
    IN Topped(Copy(m, src, count, dst), dst + count)
PrepReturn(m, a, n) ==
    LET src == Base(m) + a
        count == IF n = MULTRET THEN m.top - src ELSE n
        dst == Last(m.cis).func - Delta(m)
    IN Topped(SetCI(Copy(m, src, count, dst), [Last(m.cis) EXCEPT !.func = dst]), dst + count)
Return(n) ==
    /\ MayLeave
    /\ IF Frame.open >= 0 THEN n = MULTRET ELSE n \in 0..Live
    /\ LET a == IF n = MULTRET THEN Frame.open ELSE Live - n
           m == PrepReturn(stk, a, n)
       IN /\ stk' = m
          /\ rax' = m.top - Last(m.cis).func
          /\ lua' = Now([Frame EXCEPT !.regs = SubSeq(@, a + 1, Live), !.extra = <<>>, !.ret = TRUE])
    /\ nat' = Front(nat) /\ UNCHANGED <<rep, fuel, prog>>

Drives(m) == SetCI(m, [Last(m.cis) EXCEPT !.drive = TRUE])
(* Mutant: every tail call starts a drive loop. *)
NestedNever == FALSE
\* A tail call of Lua function fn inside a drive loop is left to the loop;
\* the first one of a chain starts the loop.
Nested == Last(stk.cis).drive
RtTailCall(m, a, nargs, fn, args) ==
    LET func == Base(m) + a
        narg1 == IF nargs = MULTRET THEN m.top - func ELSE nargs + 1
        g == Topped(m, func + narg1)
    IN IF IsLua(fn)
       THEN /\ lua' = Now([Called(fn, args) EXCEPT !.want = Frame.want])
            /\ stk' \in {IF Nested THEN t ELSE Drives(t) : t \in Pretailcall(g, func, narg1, Delta(m))}
            /\ nat' = Front(nat) \o IF Nested THEN <<>> ELSE <<Act("drive", 0, 0), Body>>
            /\ rax' = IF Nested THEN 0 ELSE -1
            /\ rep' = Nested
       ELSE /\ LuaDCall(g, func, MULTRET, Append(Front(nat), Act("ctail", a, Delta(m))),
                        Waits(<<>>, <<>>, MULTRET, <<>>), args)
            /\ UNCHANGED <<rax, rep>>

TailCall(fn, nargs) ==
    /\ MayLeave /\ "tail" \in prog.ops /\ fuel > 0 /\ Frame.open = -1
    /\ fuel' = fuel - 1
    /\ LET args == Args(fn, nargs)
       IN Live + 1 + Len(args) <= FrameSize /\ RtTailCall(Pushed(<<fn>> \o args), Live, Len(args), fn, args)
    /\ UNCHANGED prog
TailOpen ==
    /\ MayLeave /\ Consumes("tail")
    /\ RtTailCall(stk, Frame.open, MULTRET, Frame.regs[Frame.open + 1], OpenArgs)

\* The C function of a tail call has left rax results at its own slot.
CTailReturns ==
    /\ Waiting("ctail")
    /\ LET r == Last(nat)
           ci == Last(stk.cis)
           dst == ci.func - r.n
       IN stk' = Topped(SetCI(Copy(stk, Base(stk) + r.a, rax, dst), [ci EXCEPT !.func = dst]), dst + rax)
    /\ lua' = Now([Frame EXCEPT !.ret = TRUE, !.extra = <<>>])
    /\ nat' = Front(nat) /\ UNCHANGED <<rax, rep, fuel, prog>>

\* The drive loop: the next function of the chain, or the end of it.
DriveReturns ==
    /\ Waiting("drive")
    /\ rep' = FALSE
    /\ stk' = SetCI(stk, [Last(stk.cis) EXCEPT !.drive = rep])
    /\ IF rep THEN nat' = Append(nat, Body) /\ rax' = -1
              ELSE nat' = Front(nat) /\ UNCHANGED rax
    /\ UNCHANGED <<lua, fuel, prog>>

-----------------------------------------------------------------------------
(* C functions: one that returns values of its own, one that returns what  *)
(* the function it is given returns, and pcall.                            *)

CReturn(n) ==
    /\ Runs("cfn") /\ Len(nat) > 1
    /\ LET own == FnInfo[Frame.fn].kind = "c"
           vs == IF own THEN Tokens(n) ELSE SubSeq(Frame.regs, Frame.open + 1, Live)
           m == IF own THEN Topped(Put(stk, stk.top, vs), stk.top + n) ELSE stk
       IN /\ IF own THEN n \in Counts ELSE Frame.open >= 0 /\ n = Len(vs)
          /\ stk' \in {Poscall(m, n), Poscall(Collected(m), n)}
          /\ lua' = Delivered(vs)
    /\ rax' = n
    /\ nat' = Front(nat) /\ UNCHANGED <<rep, fuel, prog>>

CCalls ==
    /\ Runs("cfn") /\ FnInfo[Frame.fn].kind # "c" /\ Frame.open = -1
    /\ LET kind == IF FnInfo[Frame.fn].kind = "pcall" THEN "pcall" ELSE "calls"
           kept == IF kind = "pcall" THEN <<yes>> ELSE <<>>
           func == Base(stk) + Len(kept)
           m == Topped(Put(stk, Base(stk), kept \o Frame.regs), stk.top + Len(kept))
       IN LuaDCall(m, func, MULTRET, Append(nat, Act(kind, Len(stk.cis), func)),
                   [Waits(kept, kept, MULTRET, <<>>) EXCEPT !.open = 0], Tail(Frame.regs))
    /\ UNCHANGED <<rax, rep, fuel, prog>>
CResumes ==
    /\ Waiting("calls") \/ Waiting("pcall")
    /\ stk' = SetCI(stk, [Last(stk.cis) EXCEPT !.top = Max({@, stk.top})])
    /\ ToBody /\ UNCHANGED <<lua, rep, fuel, prog>>

\* An error unwinds every activation above the innermost pcall.
Throw ==
    /\ Executes("throw")
    /\ LET guards == {i \in DOMAIN nat : nat[i].kind = "pcall"}
           g == Max(guards)
           r == nat[g]
       IN /\ guards # {}
          /\ stk' = Topped(Put([stk EXCEPT !.cis = SubSeq(@, 1, r.a)], r.n, <<oops, no, oops>>), r.n + 3)
          /\ lua' = Append(SubSeq(lua, 1, r.a - 1), [lua[r.a] EXCEPT !.regs = <<yes, oops, no, oops>>, !.open = 2])
          /\ nat' = SubSeq(nat, 1, g - 1)
    /\ UNCHANGED <<rax, rep, prog>>

-----------------------------------------------------------------------------
CallsInit ==
    /\ prog \in Programs /\ fuel = prog.fuel /\ rax = -1 /\ rep = FALSE
    /\ nat = <<CFunction>>
    /\ LET given == <<prog.start>> \o Tokens(prog.args)
           none == [mem |-> [i \in 0..(prog.last + Extra - 1) |-> nil], top |-> Len(given) + 1,
                    last |-> prog.last, cis |-> <<>>]
       IN /\ stk = Put(PushCI(none, 0, 1 + MinStack, 0), 0, <<Host>> \o given)
          /\ lua = <<Called(Host, given)>>

Ended == Runs("cfn") /\ Len(nat) = 1 /\ Frame.open >= 0 /\ UNCHANGED callsVars
Instruction ==
    \/ VarargPrep \/ Load \/ NewTable \/ SetList \/ Close \/ TailOpen \/ Throw
    \/ \E s \in Shapes, fn \in prog.fns : s[2] # MULTRET /\ Call(fn, s[1], s[2])
    \/ \E fn \in prog.fns : OpenVararg(fn) \/ \E g \in prog.fns : OpenCall(fn, g)
    \/ \E n \in Counts : CallOpen(n) \/ Vararg(n) \/ TForCall(n)
    \/ \E n \in Counts \cup {MULTRET} : Return(n)
    \/ \E s \in Shapes, fn \in prog.fns : s[2] = MULTRET /\ TailCall(fn, s[1])
    \/ \E r \in 0..(Live - 1) : Meta(r)
Continuation ==
    \/ RtCallReturns \/ SlowReturns \/ CcallReturns \/ MetaReturns \/ TForReturns
    \/ CloseReturns \/ CTailReturns \/ DriveReturns \/ CResumes
CallsNext ==
    \/ Instruction \/ Continuation \/ CCalls \/ Ended
    \/ \E n \in Counts \cup {Live - Frame.open} : CReturn(n)
CallsSpec == CallsInit /\ [][CallsNext]_callsVars

-----------------------------------------------------------------------------
(* Properties.                                                             *)

\* The frames whose registers are in place: those below a running helper,
\* the running function, and one whose results are about to be moved.
Settled == IF rax = -1 \/ Frame.ret \/ rep THEN 1..Len(lua) ELSE 1..(Len(lua) - 1)

(* A function finds in its registers and behind "..." what it left there   *)
(* or was given, whatever its callees, the metamethods and closers run on  *)
(* top of it, a reallocation of the stack and the collector have done      *)
(* meanwhile, and every result list arrives whole.                         *)
RegistersPrivate ==
    /\ Len(stk.cis) = Len(lua)
    /\ \A i \in Settled :
         LET f == lua[i]
             ci == stk.cis[i]
         IN IF f.ret THEN Read(stk, ci.func, Len(f.regs)) = f.regs
            ELSE /\ At(stk, ci.func) = f.fn
                 /\ Read(stk, ci.func + 1, Len(f.regs)) = f.regs
                 /\ Read(stk, ci.func - Len(f.extra), Len(f.extra)) = f.extra

(* Where an instruction takes "everything up to the top", the top is the   *)
(* end of the list that the instruction before it left: the ceiling a      *)
(* closer needed, or a frame's, is never taken for values.  And where a    *)
(* function has come back to whoever called it, the results end there and  *)
(* are counted.                                                            *)
ListEndsAtTop ==
    /\ Runs("body") /\ (Frame.open >= 0 \/ ~Frame.ready) => stk.top = Base(stk) + Live
    /\ Last(nat).kind \in {"rtcall", "ccall", "drive"} /\ ~rep =>
         stk.top = Last(stk.cis).func + Live /\ rax = Live

\* How far luaT_adjustvarargs has moved a frame, and its ceiling with it.
Moved(i) == IF FnInfo[lua[i].fn].vararg /\ lua[i].ready
            THEN stk.cis[i].nextra + FnInfo[lua[i].fn].params + 1 ELSE 0
CeilingsReach == \A i \in 1..Len(stk.cis) : stk.cis[i].top <= stk.last + Moved(i)
\* A vararg function that may ask for "..." has all its registers below the top.
KeptBelow ==
    Runs("body") /\ Frame.ready /\ ~Frame.closed /\ Frame.open = -1 /\ FnInfo[Frame.fn].vararg
      /\ "dots" \in prog.ops => Base(stk) + FrameSize <= stk.top
(* A frame may fill its registers up to its ceiling without asking for     *)
(* room: whoever entered it has made the room, through growths, open lists *)
(* of any length, tail calls and errors, and only luaT_adjustvarargs takes *)
(* a ceiling beyond stack_last, by no more than the arguments it moves.    *)
(* And the registers are below the top where a vararg function may ask for *)
(* "..." (the "between-instructions invariant L->top.p == ci->top.p" of    *)
(* jit/runtime.c:293): the collector may run while room is made for them.  *)
RoomWasMade == CeilingsReach /\ KeptBelow

(* luaT_adjustvarargs: "lua_assert(... ci->top.p <= L->stack_last.p)", of  *)
(* the frame it has moved.                                                 *)
AdjustedOnStack ==
    \A i \in 1..Len(lua) : FnInfo[lua[i].fn].vararg /\ lua[i].ready => stk.cis[i].top <= stk.last

\* What a metamethod call writes above a ceiling, the function and two
\* arguments, is inside the allocation, which ends behind stack_last.
Ceilings == \A i \in 1..Len(stk.cis) : stk.cis[i].top <= stk.last + Extra - 3
(* What the proofs about the values on the stack assume of a behaviour: no *)
(* write goes past the allocation, and the collector leaves a vararg       *)
(* function's registers alone.                                             *)
StackHolds == Ceilings /\ KeptBelow

(* A chain of tail calls occupies one drive loop however long it is, and   *)
(* the request to go on is only up on the way back to that loop, so no     *)
(* other loop can take it for its own.                                     *)
OneLoopPerChain ==
    /\ \A i \in 1..(Len(nat) - 1) : nat[i].kind = "drive" => nat[i + 1].kind # "drive"
    /\ rep => Last(nat).kind = "drive" /\ Last(stk.cis).drive
=============================================================================
