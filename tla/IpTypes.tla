------------------------------ MODULE IpTypes -------------------------------
(***************************************************************************)
(* Interprocedural types (opt/passes.c, lc_pass_ip_typeprop): a closure    *)
(* that is only ever called, at call sites that can all be enumerated,     *)
(* gets its parameters' types from the arguments of those calls, and gives *)
(* its callers the type of its one result.  A module is a sequence of      *)
(* functions; its first one is the program's entry.                        *)
(***************************************************************************)
EXTENDS TypeInfer

MaxOr0(s) == IF s = {} THEN 0 ELSE Max(s)
\* The sequence of Op(x) for the x of s.
Each(Op(_), s) == FoldLeft(LAMBDA done, x : Append(done, Op(x)), <<>>, s)

-----------------------------------------------------------------------------
(* Tracked closure slots of one function.  What the scans find is kept in  *)
(* the function (home, moves, escapes) and its calls (callee).             *)

JumpsTo(code, i) == IF code[i].op \in ForLoops \cup {"JMP"} THEN {code[i].c} ELSE {}
IsTarget(code, j) ==
    \E i \in DOMAIN code :
       \/ j \in JumpsTo(code, i)
       \/ code[i].op \in ForLoops /\ j = i + 1
       \/ code[i].op \in Branches \cup {"LFALSESKIP"} /\ j = i + 2
InLoop(code, i) == \E j \in DOMAIN code : \E t \in JumpsTo(code, j) : t <= i /\ i <= j

\* The registers with a home, the index of the one CLOSURE that fills them: such
\* a register is captured by nobody, its closure is made once and nothing writes
\* the register after it.
Closures(f) == {i \in DOMAIN f.code : f.code[i].op = "CLOSURE"}
GoodHome(f, i, s) ==
    /\ ~InLoop(f.code, i)
    /\ \A j \in i + 1 .. Len(f.code) : j \notin Closures(f) => s \notin WriteRange(f.code[j], f.nregs)
    /\ \A j \in Closures(f) : f.code[j].a = s => j = i
WithHomes(f) ==
    [f EXCEPT !.home = [s \in {f.code[i].a : i \in {x \in Closures(f) : GoodHome(f, x, f.code[x].a)}} \ Captured(f)
                          |-> CHOOSE i \in Closures(f) : f.code[i].a = s]]

\* The instruction that put the function register of the call at i there, by a
\* scan back over straight-line code; 0 when a branch, a join or an unknown
\* write comes first.
Straight(in) == in.op \notin Branches \cup ForLoops \cup Returns \cup {"JMP", "LFALSESKIP", "TAILCALL"}
StopsAt(f, i) ==
    {j \in 1 .. i - 1 : \/ ~Straight(f.code[j])
                        \/ f.code[i].a \in WriteRange(f.code[j], f.nregs)
                        \/ IsTarget(f.code, j)}
WritesOnly(f, j, r) == /\ Straight(f.code[j])
                       /\ WriteRange(f.code[j], f.nregs) \cap {-1, r} = {r}
FunctionWriter(f, i) ==
    MaxOr0({j \in {MaxOr0(StopsAt(f, i))} : j > 0 /\ WritesOnly(f, j, f.code[i].a)})

\* The call's callee is known when the writer is a CLOSURE, or a MOVE from a
\* register whose home lies before it.
ViaHome(f, j) == /\ f.code[j].op = "MOVE" /\ f.code[j].b \in DOMAIN f.home
                 /\ j > f.home[f.code[j].b]
CalleeFrom(f, j) ==
    CASE j = 0 -> 0
      [] ViaHome(f, j) -> f.code[f.home[f.code[j].b]].b
      [] f.code[j].op = "CLOSURE" -> f.code[j].b
      [] OTHER -> 0
\* The calls' callees, and the MOVEs that feed them from a home register.
ResolveCall(f, i) ==
    LET resolve(j, k) == [f EXCEPT !.code[i].callee = k,
                                   !.moves = IF k # 0 /\ f.code[j].op = "MOVE" THEN @ \cup {j} ELSE @]
        from(j) == resolve(j, CalleeFrom(f, j))
    IN IF f.code[i].op = "CALL" THEN from(FunctionWriter(f, i)) ELSE f
WithCallees(f) == FoldLeft(ResolveCall, f, [i \in DOMAIN f.code |-> i])

\* A closure escapes when it has no home register, or when something other than
\* such a move reads that register after it.
Escapes(f, i) ==
    \/ f.code[i].a \notin DOMAIN f.home
    \/ \E j \in i + 1 .. Len(f.code) : ReadsSlot(f.code[j], f.code[i].a) /\ j \notin f.moves
WithEscapes(f) == [f EXCEPT !.escapes = {f.code[i].b : i \in {x \in Closures(f) : Escapes(f, x)}}]

-----------------------------------------------------------------------------
(* The whole module.                                                       *)

Resolved(m) == Each(LAMBDA f : WithEscapes(WithCallees(WithHomes(f))), m)
Tracked(m, k) == \A g \in DOMAIN m : k \notin m[g].escapes
Sites(m, k) == {s \in UNION {{g} \X DOMAIN m[g].code : g \in DOMAIN m} : m[s[1]].code[s[2]].callee = k}

Inferred(m) == Each(LAMBDA f : [f EXCEPT !.types = States(f, f.params)], m)

MeetAll(ts) == FoldFunction(Meet, "TOP", [t \in ts |-> t])
Known(t) == IF t = "TOP" THEN "UNK" ELSE t
\* The types of k's parameters: the meet over its call sites of the arguments'
\* types where the site stands; a missing argument, or a list up to the top of
\* the stack, is unknown.
ArgType(in, st, p) == IF in.b >= 1 /\ p <= in.b - 1 THEN At(st, in.a + p) ELSE "UNK"
ParamTypes(m, k, sites) ==
    IF Tracked(m, k) /\ sites # {}
    THEN [p \in 1 .. m[k].nparams |->
            Known(MeetAll({ArgType(m[s[1]].code[s[2]], m[s[1]].types[s[2]], p) : s \in sites}))]
    ELSE <<>>
Narrowed(m) ==
    Each(LAMBDA k : [m[k] EXCEPT !.params = ParamTypes(m, k, Sites(m, k))], [k \in DOMAIN m |-> k])

\* The return summary of k: every reached return leaves one first value of one
\* proven type.
ReturnsOne(in) == in.op = "RETURN1" \/ (in.op = "RETURN" /\ in.b >= 2)
Summary(f, ends) ==
    LET proven == {t \in {"INT", "FLT"} :
                     MeetAll({At(f.types[i], f.code[i].a) : i \in ends}) = t}
    IN IF proven # {} /\ \A i \in ends : ReturnsOne(f.code[i]) THEN CHOOSE t \in proven : TRUE ELSE "no"
ReturnType(m, k) ==
    IF ~Tracked(m, k) THEN "no"
    ELSE Summary(m[k], {i \in Reached(m[k].code) : m[k].code[i].op \in Returns \cup {"TAILCALL"}})
Summed(m) ==
    LET ret == [k \in DOMAIN m |-> ReturnType(m, k)]
        call(in) == [in EXCEPT !.ret = IF in.callee = 0 THEN "no" ELSE ret[in.callee]]
    IN Each(LAMBDA f : [f EXCEPT !.code = Each(call, f.code)], m)

Annotated(m) ==
    Each(LAMBDA f : [f EXCEPT !.code = Annotate(f, f.types), !.types = <<>>], m)

\* lc_pass_ip_typeprop: plain inference, the parameters' types, inference of
\* the tracked callees with them, their summaries, and inference of everything
\* with the summaries at the call sites.
IpTypeProp(m) ==
    Annotated(Inferred(Summed(Inferred(Narrowed(Inferred(Resolved(m)))))))
=============================================================================
