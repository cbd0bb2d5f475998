---------------------------- MODULE MCNativeCode ----------------------------
(***************************************************************************)
(* Small programs in four families: a numeric loop over two locals, a      *)
(* local function called from several sites, a table that stays in its     *)
(* function, and two modules with a stubbed-out branch.                    *)
(***************************************************************************)
EXTENDS NativeCode, TLC

MCUnknown == {<<"int", 1>>, <<"flt", 1>>, <<"nil", 0>>}

In(op, a, b, c) == [op |-> op, a |-> a, b |-> b, c |-> c, k |-> Nil, known |-> {},
                    entry |-> [INT |-> {}, FLT |-> {}], ret |-> "no", callee |-> 0]
InK(op, a, b, k) == [In(op, a, b, 0) EXCEPT !.k = k]
Str(s) == <<"str", s>>
FnOf(code, nregs, nparams, caps) ==
    [code |-> code, nregs |-> nregs, nparams |-> nparams, kids |-> DOMAIN caps, caps |-> caps,
     module |-> "", strs |-> {}, replaced |-> {}, home |-> <<>>, moves |-> {}, escapes |-> {},
     params |-> <<>>, types |-> <<>>]
Entry == In("VARARGPREP", 0, 0, 0)
Global(r, s) == InK("GETTABUP", r, 0, Str(s))
Leak(r) == In("SETTABUP", 0, 0, r)
NoKids == [k \in {} |-> {}]

\* What a local may start with.
Numbers(r) == {<<In("LOADI", r, 0, 0)>>, <<In("LOADF", r, 0, 0)>>}
Inits(r) == Numbers(r) \cup {<<Global(r, "g")>>}

-----------------------------------------------------------------------------
(* Loops.  R0 and R1 are locals, R2 .. R5 the loop's, R6 and R7 scratch.   *)

\* The pieces of a body; at is the index of a piece's first instruction.
Arith(op, a, b, c) == <<In(op, a, b, c), In("MMBIN", 0, 0, 0)>>
Plain(at) ==
    {Arith("ADD", 0, 0, 1), Arith("ADDI", 0, 0, 1), Arith("DIV", 1, 0, 1), Arith("BXOR", 0, 0, 5),
     <<InK("ADDK", 1, 1, <<"flt", 1>>), In("MMBINK", 0, 0, 0)>>,
     <<In("MOVE", 0, 1, 0)>>, <<In("MOVE", 1, 5, 0)>>, <<In("LOADF", 0, 1, 0)>>,
     <<In("LOADNIL", 1, 0, 0)>>, <<In("NOT", 1, 0, 0)>>,
     <<Global(6, "g"), In("MOVE", 7, 0, 0), In("CALL", 6, 2, 2), In("MOVE", 1, 6, 0)>>}
Guarded(at, piece) ==
    <<In("LT", 0, 1, 0), In("JMP", 0, 0, at + 2 + Len(piece))>> \o piece
Pieces(at) == Plain(at) \cup {Guarded(at, p) : p \in {<<In("LOADF", 0, 1, 0)>>, <<In("MOVE", 1, 0, 0)>>,
                                                      <<In("RETURN", 0, 3, 0)>>}}
LoopOf(head, at, body) ==
    LET t == Len(head) + 5
        p == t + Len(body)
    IN head \o <<In("LOADI", 2, 0, 0), In("LOADI", 3, 1, 0), In("LOADI", 4, 1, 0),
                 In("FORPREP", 2, 0, p + 1)>> \o body
            \o <<In("FORLOOP", 2, 0, t)>> \o Arith("ADDI", 0, 0, 1) \o <<In("RETURN", 0, 3, 0)>>
Bodies(at) == UNION {{p \o q : q \in Pieces(at + Len(p))} : p \in Pieces(at)}
\* With and without a closure of R0 that the environment keeps.
Heads == UNION {UNION {{<<Entry>> \o x \o y,
                        <<Entry>> \o x \o y \o <<In("CLOSURE", 6, 2, 0), Leak(6)>>}
                         : y \in Numbers(1)} : x \in Inits(0)}
Cell == FnOf(<<In("RETURN0", 0, 0, 0)>>, 1, 0, NoKids)
Loops == UNION {{<<FnOf(LoopOf(h, Len(h) + 5, b), 8, 0, 2 :> {0}), Cell>>
                   : b \in Bodies(Len(h) + 5)} : h \in Heads}

-----------------------------------------------------------------------------
(* Calls.  The entry makes a closure of function 2 in R0 and calls it from  *)
(* two sites, whose results it keeps in R1 and R2; it may let the closure   *)
(* go, overwrite it, or make it anew in a loop.                             *)

Arg(r) == {<<In("LOADI", r, 1, 0)>>, <<In("LOADF", r, 1, 0)>>, <<Global(r, "g")>>, <<>>}
CallSite(arg, r) ==
    <<In("MOVE", 3, 0, 0)>> \o arg \o <<In("CALL", 3, Len(arg) + 1, 2), In("MOVE", r, 3, 0)>>
Made == <<In("CLOSURE", 0, 2, 0)>>
Between == {<<>>, <<Leak(0)>>, <<In("MOVE", 5, 0, 0)>>, <<In("LOADNIL", 0, 0, 0)>>, Made,
            <<Global(3, "g"), In("MOVE", 4, 0, 0), In("CALL", 3, 2, 1)>>,
            <<In("CLOSURE", 5, 3, 0), Leak(5)>> \o <<Global(3, "g"), In("CALL", 3, 1, 1)>>}
Caller(x, y, z) ==
    FnOf(<<Entry>> \o Made \o CallSite(x, 1) \o y \o CallSite(z, 2) \o Arith("ADD", 1, 1, 2)
         \o <<In("RETURN", 1, 3, 0)>>, 6, 0, (2 :> {}) @@ (3 :> {0, 1}))
\* The callee: one parameter in R0.
Callees == {FnOf(b, 8, 1, NoKids) : b \in
    {Arith("ADDI", 0, 0, 1) \o <<In("RETURN1", 0, 0, 0)>>,
     <<In("LOADF", 1, 1, 0)>> \o Arith("ADD", 1, 0, 1) \o <<In("RETURN", 1, 2, 0)>>,
     Guarded(1, <<In("RETURN0", 0, 0, 0)>>) \o <<In("RETURN1", 0, 0, 0)>>,
     <<In("TEST", 0, 0, 0), In("JMP", 0, 0, 4), In("RETURN1", 0, 0, 0), In("LOADF", 0, 1, 0),
       In("RETURN1", 0, 0, 0)>>,
     <<In("LOADI", 1, 1, 0)>> \o LoopOf(<<>>, 5, Arith("ADD", 0, 0, 1)),
     <<In("CLOSURE", 1, 3, 0), Leak(1)>> \o Arith("ADDI", 0, 0, 1) \o <<In("RETURN1", 0, 0, 0)>>}}
Calls == {<<Caller(x, y, z), [f EXCEPT !.caps = 3 :> {0}, !.kids = {3}], Cell>>
            : x \in Arg(4), y \in Between, z \in Arg(4), f \in Callees}

-----------------------------------------------------------------------------
(* Tables.  R0 holds the table, R1 a value, R2 what is read back.           *)
Call(r) == <<Global(r, "g"), In("CALL", r, 1, 1)>>
Capture == <<In("CLOSURE", 3, 2, 0)>>
Tables ==
    LET store == {In("SETFIELD", 0, 1, 1), [In("SETI", 0, 1, -1) EXCEPT !.k = <<"int", 2>>]}
        load == {In("GETFIELD", 2, 0, 1), In("GETI", 2, 0, 1)}
        mid == {<<>>, <<In("MOVE", 3, 0, 0)>>, <<Leak(0)>>, <<Leak(1)>>, Arith("ADD", 1, 1, 1), Capture,
                <<Global(3, "g")>>, <<In("NOT", 1, 1, 0)>>, Call(3), <<In("NEWTABLE", 3, 0, 0)>>}
        after == {<<>>, Call(3), Capture}
        tails == {<<In("RETURN", 2, 2, 0)>>, <<In("RETURN", 0, 2, 0)>>,
                  Arith("ADD", 2, 2, 1) \o <<In("RETURN", 2, 2, 0)>>}
        code(i, s, m, l, x, again, e) ==
            LET made == <<Entry>> \o i \o <<In("NEWTABLE", 0, 0, 0), s>> \o m \o <<l>> \o x
            IN made \o (IF again THEN <<In("TEST", 2, 0, 0), In("JMP", 0, 0, Len(made) + 4),
                                        In("JMP", 0, 0, Len(i) + 4)>> ELSE <<>>) \o e
    IN {<<FnOf(code(i, s, m, l, x, again, e), 5, 0, IF Capture \in {m, x} THEN 2 :> {0} ELSE NoKids), Cell>>
          : i \in Inits(1), s \in store, m \in mid, l \in load, x \in after, again \in BOOLEAN, e \in tails}

-----------------------------------------------------------------------------
(* Modules: the entry, the main chunks of modules a and b, and a nested     *)
(* function of the entry.  A stubbed-out branch may hold the only closure   *)
(* or require.                                                              *)

Require(r, s) == <<Global(r, "require"), InK("LOADK", r + 1, 0, Str(s)), In("CALL", r, 2, 2)>>
Branch(at, body) == <<In("LOADFALSE", 0, 0, 0), In("TEST", 0, 0, 0),
                      In("JMP", 0, 0, at + 3 + Len(body))>> \o body
Bits2 == {Require(1, "a"), Require(2, "b"), <<In("CLOSURE", 1, 4, 0), In("CALL", 1, 1, 1)>>,
          <<In("CLOSURE", 1, 4, 0), Leak(1)>>}
Chunk(code, name) == [FnOf(<<Entry>> \o code \o <<In("RETURN0", 0, 0, 0)>>, 4, 0, 4 :> {})
                        EXCEPT !.module = name]
Modules ==
    LET main == {p \o q : p \in {Branch(2, x) : x \in Bits2} \cup {<<>>} , q \in Bits2 \cup {<<>>}}
        chunk == {<<>>, Require(1, "b"), <<Global(1, "g"), In("CALL", 1, 1, 1)>>}
    IN {<<[Chunk(m, "") EXCEPT !.strs = s], Chunk(a, "a"), Chunk(<<>>, "b"), Chunk(n, "")>>
          : m \in main, a \in chunk, n \in chunk, s \in {{}, {"ffi"}, {"debug"}}}

\* Guards that are locals of the program: one read after the branch, one that
\* a later turn of the code finds true.
LocalGuards ==
    {<<Chunk(Branch(2, <<In("CLOSURE", 1, 4, 0), Leak(1)>>) \o x, ""), Chunk(<<>>, "a"),
       Chunk(<<>>, "b"), Chunk(<<>>, "")>>
       : x \in {<<Global(1, "g"), In("MOVE", 2, 0, 0), In("CALL", 1, 2, 1)>>,
                <<In("LOADTRUE", 0, 0, 0), In("JMP", 0, 0, 3)>>}}

MCPrograms == Loops \cup Calls \cup Tables \cup Modules
=============================================================================
