------------------------------ MODULE DeadCode ------------------------------
(***************************************************************************)
(* The passes of -O2 and -O3 that change what is compiled (opt/passes.c):  *)
(* the folding of provably false guards, the whole-program reachability    *)
(* that leaves unreachable functions as stubs, and the replacement of a    *)
(* table that never escapes by fresh slots of its function's frame.        *)
(*                                                                         *)
(* Function records have two more fields: module, the name under which     *)
(* require finds the function ("" for a nested one), and strs, the string  *)
(* constants of its Proto the scans below look for.                        *)
(***************************************************************************)
EXTENDS IpTypes

Mentions(m, s) == \E g \in DOMAIN m : s \in m[g].strs
\* lc_module_reflects_globals: the global environment becomes a value.
Env == "_ENV"
ReflectsGlobals(m) ==
    \E g \in DOMAIN m : \E i \in DOMAIN m[g].code :
       LET in == m[g].code[i] IN
       \/ in.op = "GETUPVAL" /\ in.k = <<"upval", Env>>
       \/ in.op = "GETTABUP" /\ in.k \in {<<"str", "_G">>, <<"str", Env>>}
\* No proof survives debug.setlocal (lc_optimize).
NoProofs(m) == Mentions(m, "debug") \/ ReflectsGlobals(m)

-----------------------------------------------------------------------------
(* lc_pass_fold_dead_branches.                                             *)

\* The next instruction that is not a hole, past the end when there is none.
SkipHoles(code, i) ==
    Min({Len(code) + 1} \cup {j \in i .. Len(code) : code[j].op # "EXTRAARG"})
Hole(in) == [in EXCEPT !.op = "EXTRAARG", !.c = 0, !.known = {}]

\* LOADFALSE R; TEST R 0; JMP forward, over a body that creates a closure: the
\* guard and the body become holes.
FoldAt(code, i) ==
    LET t == SkipHoles(code, i + 1)
        j == SkipHoles(code, t + 1)
        guard == /\ code[i].op \in {"LOADFALSE", "LFALSESKIP"}
                 /\ t \in DOMAIN code /\ code[t].op = "TEST"
                 /\ code[t].a = code[i].a /\ code[t].c = 0
                 /\ j \in DOMAIN code /\ code[j].op = "JMP" /\ code[j].c > j + 1
                 /\ \E x \in j + 1 .. code[j].c - 1 : code[x].op = "CLOSURE"
    IN IF guard THEN [x \in DOMAIN code |-> IF x \in i .. code[j].c - 1 THEN Hole(code[x]) ELSE code[x]]
       ELSE code
FoldDeadBranches(m) ==
    [g \in DOMAIN m |->
       [m[g] EXCEPT !.code = FoldLeft(FoldAt, m[g].code, [i \in DOMAIN m[g].code |-> i])]]

-----------------------------------------------------------------------------
(* lc_build_callgraph and lc_pass_dead_global.                             *)

\* require("literal"): GETTABUP of "require", then LOADK of a module's name.
\* The scan reads the Proto's own bytecode, holes included.
(* Mutant: only closures and calls are edges. *)
RequiresNothing(m, src, g) == {}
Requires(m, src, g) ==
    {k \in DOMAIN m : \E i \in 1 .. Len(src[g].code) - 2 :
        /\ src[g].code[i].op = "GETTABUP" /\ src[g].code[i].k = <<"str", "require">>
        /\ src[g].code[i + 1].op = "LOADK"
        /\ m[k].module # "" /\ src[g].code[i + 1].k = <<"str", m[k].module>>}
Edges(m, src, g) ==
    {m[g].code[i].b : i \in {x \in DOMAIN m[g].code : m[g].code[x].op = "CLOSURE"}}
    \* a call resolved to function index 0 in the C code, the entry, is no edge
    \cup {m[g].code[i].callee : i \in {x \in DOMAIN m[g].code : m[g].code[x].op = "CALL"
                                                              /\ m[g].code[x].callee > 1}}
    \cup Requires(m, src, g)

\* The shapes that let a program call what no edge shows keep every module.
Conservative(m) == (\E s \in {"ffi", "bit", "coroutine", "package", "debug"} : Mentions(m, s))
                   \/ ReflectsGlobals(m)
Live(m, src) ==
    LET roots == {1} \cup {g \in DOMAIN m : Conservative(m) /\ m[g].module # ""}
        more[n \in Nat] ==
            IF n = 0 THEN roots
            ELSE LET seen == more[n - 1] IN seen \cup UNION {Edges(m, src, g) : g \in seen}
    IN more[Len(m)]

-----------------------------------------------------------------------------
(* lc_pass_scalar_replace.                                                 *)

MaxKeys == 8
IsGet(in, r) == in.op \in {"GETFIELD", "GETI"} /\ in.b = r /\ in.a # r
IsSet(in, r) == in.op \in {"SETFIELD", "SETI"} /\ in.a = r /\ in.c # r
\* The key of a field access: its kind and its constant.
Key(in) == IF in.op \in {"GETI", "SETI"} THEN <<"int", IF in.op = "GETI" THEN in.c ELSE in.b>>
           ELSE <<"str", IF in.op = "GETFIELD" THEN in.c ELSE in.b>>

\* An instruction that cannot collect, call or run a metamethod (sr_op_is_gcsafe).
GcSafe(in) ==
    LET proven(x) == \E t \in {"INT", "FLT"} : <<x, t>> \in in.known IN
    \/ in.op \in Loads \cup Markers \cup {"LOADNIL", "NOT", "GETUPVAL", "SETUPVAL", "JMP",
                                          "FORLOOP", "FORPREP"}
    \/ in.op \in BinaryRR /\ proven(1) /\ proven(2)
    \/ in.op \in BinaryK \cup {"UNM", "BNOT"} /\ proven(1)

Uses(f, n) == {i \in DOMAIN f.code \ {n} : IsGet(f.code[i], f.code[n].a) \/ IsSet(f.code[i], f.code[n].a)}
Keys(f, n) == {Key(f.code[i]) : i \in Uses(f, n)}
LastUse(f, n) == CHOOSE i \in Uses(f, n) \cup {n} : \A j \in Uses(f, n) : i >= j

\* May the table made at n be replaced?  Nothing else touches its register, and
\* no collection, call or loop comes between its creation and its last use.
Replaceable(f, n) ==
    LET code == f.code
        r == code[n].a
        others == DOMAIN code \ (Uses(f, n) \cup {n})
        last == LastUse(f, n)
    IN /\ code[n].op = "NEWTABLE"
       /\ \A k \in f.kids : r \notin f.caps[k]
       /\ Uses(f, n) # {} /\ Cardinality(Keys(f, n)) <= MaxKeys
       /\ \A i \in others : r \notin WriteRange(code[i], f.nregs)
                            /\ ~UnknownRange(code[i], f.nregs) /\ ~ReadsSlot(code[i], r)
       /\ \A i \in others : (n < i /\ i <= last) => GcSafe(code[i])
       /\ \A i \in DOMAIN code :
            LET back == code[i].op \in {"JMP", "FORLOOP", "TFORLOOP"} /\ code[i].c < i
            IN ~(back /\ n < code[i].c /\ code[i].c <= last)
       /\ f.nregs + Cardinality(Keys(f, n)) <= 255

\* The slots are numbered in the order the keys are first met in the code.
SlotOf(f, n, key) ==
    LET first(x) == CHOOSE i \in Uses(f, n) : Key(f.code[i]) = x
                       /\ \A j \in Uses(f, n) : Key(f.code[j]) = x => i <= j
    IN f.nregs + Cardinality({x \in Keys(f, n) : first(x) < first(key)})
Replace(f, n) ==
    LET r == f.code[n].a
        slot(in) == SlotOf(f, n, Key(in))
        plain(in, op, a, b) == [in EXCEPT !.op = op, !.a = a, !.b = b, !.c = 0, !.known = {}]
        rewritten(i) ==
            LET in == f.code[i] IN
            CASE i = n -> plain(in, "LOADNIL", f.nregs, Cardinality(Keys(f, n)) - 1)
              [] i \notin Uses(f, n) -> in
              [] IsGet(in, r) -> plain(in, "MOVE", in.a, slot(in))
              [] in.c >= 0 -> plain(in, "MOVE", slot(in), in.c)
              [] OTHER -> plain(in, "LOADK", slot(in), 0)
    IN [f EXCEPT !.code = [i \in DOMAIN f.code |-> rewritten(i)],
                 !.nregs = f.nregs + Cardinality(Keys(f, n)),
                 !.replaced = f.replaced \cup {r}]
ScalarReplace(m) ==
    [g \in DOMAIN m |->
       FoldLeft(LAMBDA f, n : IF Replaceable(f, n) THEN Replace(f, n) ELSE f,
                m[g], [i \in DOMAIN m[g].code |-> i])]
=============================================================================
