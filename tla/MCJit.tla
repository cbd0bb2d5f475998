------------------------------- MODULE MCJit --------------------------------
(***************************************************************************)
(* The two parts of jit/ that native code calls into, for TLC.  They share *)
(* no variable: what a call needs of the dispatch cache is the answer to a *)
(* look-up, which FindsRegistered says is right.  So their interleavings   *)
(* would show nothing, and a behaviour is one of the cache, with no        *)
(* program, or one of a program, with the cache as it is.                  *)
(*                                                                         *)
(* The cache: five Protos, four of which share a hash slot in the first    *)
(* table and two in every table, so that probes collide, wrap round and    *)
(* are moved by three growths.                                             *)
(*                                                                         *)
(* The programs: every one starts in one function, may call the functions  *)
(* of fns with the instructions of ops, and uses inner for callbacks,      *)
(* metamethods, iterators and closers.                                     *)
(***************************************************************************)
EXTENDS DispatchCache, NativeCalls, TLC

CONSTANTS p1, p2, p3, p4, p5, plain, dots, closer, loop, cfun, apply, pcall

Protos == {p1, p2, p3, p4, p5}
Hashes == (p1 :> 3) @@ (p2 :> 3) @@ (p3 :> 7) @@ (p4 :> 0) @@ (p5 :> 19)

Lua(params, vararg, size, closes) ==
    [kind |-> "lua", params |-> params, vararg |-> vararg, size |-> size, closes |-> closes]
C(kind) == [kind |-> kind, params |-> 0, vararg |-> FALSE, size |-> 0, closes |-> FALSE]
MCFnInfo == plain :> Lua(1, FALSE, 5, FALSE) @@ dots :> Lua(1, TRUE, 4, FALSE)
        @@ closer :> Lua(0, FALSE, 4, TRUE) @@ loop :> Lua(0, FALSE, 9, FALSE)
        @@ cfun :> C("c") @@ apply :> C("calls") @@ pcall :> C("pcall") @@ Host :> C("calls")

Program(start, args, ops, fns, inner) ==
    [start |-> start, args |-> args, ops |-> ops, fns |-> fns, inner |-> inner, last |-> 9, fuel |-> 3]
Short ==
    {Program(dots, 2, {"call", "open", "dots"}, {plain, dots}, plain),
     Program(plain, 2, {"call", "tail", "open"}, {plain, apply}, dots),
     Program(closer, 0, {"open", "tail"}, {closer, cfun}, plain),
     Program(loop, 0, {"tfor", "call", "table", "meta", "load"}, {plain, cfun}, plain),
     Program(plain, 1, {"open", "table", "meta"}, {plain, cfun}, cfun),
     Program(dots, 2, {"vararg", "call", "meta"}, {dots, cfun}, plain)}
Long ==
    {Program(plain, 1, {"call", "tail", "meta"}, {plain, dots}, cfun),
     Program(dots, 2, {"open", "tail", "dots", "vararg"}, {dots, cfun}, plain),
     Program(plain, 1, {"call", "tail", "throw"}, {plain, pcall}, plain)}
\* A vararg function hands three values of its own "..." to itself.
Forward ==
    {[Program(dots, 4, {"dots", "call", "meta"}, {dots}, plain) EXCEPT !.last = l] : l \in 10..18}
NoProgram == Program(cfun, 0, {}, {}, cfun)
\* The stack is about to grow, or roomy.
MCPrograms == {[p EXCEPT !.last = l] : p \in Short, l \in {9, 30}} \cup {[p EXCEPT !.fuel = 4] : p \in Long}
                \cup Forward \cup {NoProgram}
MCShapes == {<<0, 1>>, <<2, 2>>, <<1, MULTRET>>}

JitInit == Init /\ CallsInit
JitNext ==
    \/ prog = NoProgram /\ Next /\ UNCHANGED callsVars
    \/ prog # NoProgram /\ CallsNext /\ UNCHANGED vars
JitSpec == JitInit /\ [][JitNext]_<<vars, callsVars>>
=============================================================================
