----------------------------- MODULE NativeCode -----------------------------
(***************************************************************************)
(* A module compiled by the pipeline of lc_optimize and the code generator *)
(* and executed next to the interpreter: every step runs one bytecode      *)
(* instruction in lvm.c's way on the frame ref, and the machine code       *)
(* emitted for it on the frame mem and the machine registers reg.          *)
(*                                                                         *)
(* A value is <<type, bits>>.  A machine register holds bits only: writing *)
(* it back gives the slot the type its class claims.  What the program's   *)
(* environment returns (globals, unknown functions, metamethods) is any    *)
(* value, the same for both sides.  Numbers are taken modulo Width and all *)
(* binary operators are one: the proofs are about types, not sums.         *)
(***************************************************************************)
EXTENDS Residency

CONSTANTS Programs,   \* the modules the pipeline may be given
          Levels,     \* the -O levels
          Width,      \* numbers are 0 .. Width - 1
          Unknown     \* the values an unknown source may yield

VARIABLES level, stage,
          src,        \* the module as parsed and lifted
          ir,         \* the module as the passes leave it
          live,       \* the functions whose body is compiled
          regions,    \* the residency regions of each function
          stk,        \* the frames, the running one last
          out         \* the functions whose closure the environment holds
vars == <<level, stage, src, ir, live, regions, stk, out>>

Nil == <<"nil", 0>>
Dead == <<"dead", 0>>            \* a slot above the frame's live part
IsNumber(v) == v[1] \in {"int", "flt"}
IsFalse(v) == v \in {Nil, <<"bool", 0>>}
Op2(x, y) == (x + y) % Width

-----------------------------------------------------------------------------
(* The pipeline, one action per group of lc_optimize.                      *)

NewFrame(fn, args, nargs) ==
    LET get(n) == [s \in 0 .. n - 1 |-> IF s >= src[fn].nparams THEN Dead
                                        ELSE IF s < Len(args) THEN args[s + 1] ELSE Nil]
        nget(n) == [s \in 0 .. n - 1 |-> IF s >= src[fn].nparams THEN Dead
                                         ELSE IF s < Len(nargs) THEN nargs[s + 1] ELSE Nil]
    IN [fn |-> fn, pc |-> 1, npc |-> SkipHoles(ir[fn].code, 1),
        ref |-> get(src[fn].nregs), mem |-> nget(ir[fn].nregs),
        reg |-> [s \in 0 .. ir[fn].nregs - 1 |-> 0],
        tab |-> <<>>, open |-> {}, loose |-> {}]

Init ==
    /\ level \in Levels
    /\ src \in Programs
    /\ stage = "lifted"
    /\ ir = src
    /\ live = DOMAIN src
    /\ regions = <<>>
    /\ stk = <<>>
    /\ out = {}

InferTypes ==
    /\ stage = "lifted"
    /\ stage' = "typed"
    /\ ir' = IF level >= 1 /\ ~NoProofs(ir) THEN IpTypeProp(ir) ELSE ir
    /\ UNCHANGED <<level, src, live, regions, stk, out>>

PruneModule ==
    /\ stage = "typed"
    /\ stage' = "pruned"
    /\ ir' = IF level >= 2 THEN FoldDeadBranches(ir) ELSE ir
    /\ live' = IF level >= 2 THEN Live(ir', src) ELSE live
    /\ UNCHANGED <<level, src, regions, stk, out>>

ReplaceTables ==
    /\ stage = "pruned"
    /\ stage' = "optimised"
    /\ ir' = IF level >= 3 THEN ScalarReplace(ir) ELSE ir
    /\ UNCHANGED <<level, src, live, regions, stk, out>>

GenerateCode ==
    /\ stage = "optimised"
    /\ stage' = "running"
    /\ regions' = [g \in DOMAIN ir |-> Regions(ir[g], level)]
    /\ stk' = <<NewFrame(1, <<>>, <<>>)>>
    /\ UNCHANGED <<level, src, ir, live, out>>

-----------------------------------------------------------------------------
(* Machine code: the frame's slots through the residency of the region the *)
(* instruction stands in.                                                  *)

Top == stk[Len(stk)]
RegionAt(fn, pc) ==
    LET rs == {r \in regions[fn] : r.start <= pc /\ pc <= r.end}
    IN IF rs = {} THEN NoRegion ELSE CHOOSE r \in rs : TRUE
Resident(rg) == rg.INT \cup rg.FLT
Bits(fr, rg, s) == IF s \in Resident(rg) THEN fr.reg[s] ELSE fr.mem[s][2]
\* The frame after a value of the class is left in slot s.
Put(fr, rg, s, ty, bits) ==
    IF s \in Resident(rg) THEN [fr EXCEPT !.reg[s] = bits] ELSE [fr EXCEPT !.mem[s] = <<ty, bits>>]
Spilled(fr, rg) ==
    [s \in DOMAIN fr.mem |-> IF s \in rg.INT THEN <<"int", fr.reg[s]>>
                             ELSE IF s \in rg.FLT THEN <<"flt", fr.reg[s]>> ELSE fr.mem[s]]
Spill(fr, rg) == [fr EXCEPT !.mem = Spilled(fr, rg)]
Fill(fr, rg) == [fr EXCEPT !.reg = [s \in DOMAIN fr.reg |->
                    IF s \in Resident(rg) THEN fr.mem[s][2] ELSE fr.reg[s]]]

\* How an instruction is lowered at -O1 and above: "INT" and "FLT" have no tag
\* check and call nothing; the others work on the frame in memory.
Lowered(in) ==
    LET ty(set) == CHOOSE t \in set : TRUE
        elided == CASE in.op \in ArithRR \cup CmpRR -> {t \in {"INT", "FLT"} : BothProven(in, t)}
                    [] in.op \in BitRR -> {t \in {"INT"} : BothProven(in, t)}
                    [] in.op = "DIV" -> {t \in {"FLT"} : BothProven(in, t)}
                    [] in.op \in ArithK -> {t \in {"INT", "FLT"} : Proven(in, 1, t) /\ NumK(in)
                                                                  /\ (t = "INT" => IntK(in))}
                    [] in.op = "DIVK" -> {t \in {"FLT"} : Proven(in, 1, t) /\ NumK(in)}
                    [] in.op \in BitK -> {t \in {"INT"} : Proven(in, 1, t) /\ IntK(in)}
                    [] in.op \in CmpI \cup {"ADDI", "MOVE"} -> {t \in {"INT", "FLT"} : Proven(in, 1, t)}
                    [] in.op = "EQI" -> {t \in {"INT"} : Proven(in, 1, t)}
                    [] in.op = "LOADI" -> {"INT"}
                    [] in.op = "LOADF" -> {"FLT"}
                    [] OTHER -> {}
    IN IF elided = {} THEN "memory" ELSE ty(elided)
Tag(form) == IF form = "INT" THEN "int" ELSE "flt"

\* The bits an elided instruction computes.
ElidedBits(fr, rg, in) ==
    CASE in.op \in {"LOADI", "LOADF"} -> in.b
      [] in.op = "MOVE" -> Bits(fr, rg, in.b)
      [] in.op \in BinaryRR -> Op2(Bits(fr, rg, in.b), Bits(fr, rg, in.c))
      [] in.op = "ADDI" -> Op2(Bits(fr, rg, in.b), in.c)
      [] OTHER -> Op2(Bits(fr, rg, in.b), in.k[2])

\* Machine code runs on to n; it falls into a region by filling its registers,
\* and out of one, past its FORLOOP, by writing them back.
RunTo(fr, rg, pc, n) ==
    LET into == RegionAt(fr.fn, n)
        left == IF rg # NoRegion /\ pc = rg.end /\ n = pc + 1
                THEN [Spill(fr, rg) EXCEPT !.reg = [s \in DOMAIN fr.reg |-> 0]] ELSE fr
        entered == IF into # NoRegion /\ n = into.start /\ n = pc + 1 THEN Fill(left, into) ELSE left
    IN [entered EXCEPT !.npc = SkipHoles(ir[fr.fn].code, n)]

-----------------------------------------------------------------------------
(* The interpreter.                                                        *)

\* The second operand of a binary instruction.
Second(o, ref) == IF o.op \in BinaryRR THEN ref[o.c]
                  ELSE IF o.op \in {"ADDI"} \cup ShiftI THEN <<"int", o.c>> ELSE o.k
\* The values an instruction may leave in R[a] (lvm.c).
Results(o, ref) ==
    LET x == ref[o.b]
        y == Second(o, ref)
        nums == IsNumber(x) /\ IsNumber(y)
        bits == Op2(x[2], y[2])
    IN CASE o.op = "LOADI" -> {<<"int", o.b>>}
         [] o.op = "LOADF" -> {<<"flt", o.b>>}
         [] o.op \in {"LOADK", "LOADKX"} -> {o.k}
         [] o.op = "LOADTRUE" -> {<<"bool", 1>>}
         [] o.op \in {"LOADFALSE", "LFALSESKIP"} -> {<<"bool", 0>>}
         [] o.op = "GETTABUP" /\ o.k = <<"str", "require">> -> {<<"require", 0>>}
         [] o.op = "MOVE" -> {x}
         [] o.op = "NOT" -> {<<"bool", IF IsFalse(x) THEN 1 ELSE 0>>}
         [] o.op = "UNM" /\ IsNumber(x) -> {x}
         [] o.op = "BNOT" /\ IsNumber(x) -> {<<"int", x[2]>>}
         [] o.op \in {"DIV", "POW", "DIVK", "POWK"} /\ nums -> {<<"flt", bits>>}
         [] o.op \in BitRR \cup BitK \cup ShiftI \cup {"SHL", "SHR"} /\ nums -> {<<"int", bits>>}
         [] o.op \in BinaryRR \cup BinaryK /\ nums ->
              {<<IF x[1] = "int" /\ y[1] = "int" THEN "int" ELSE "flt", bits>>}
         [] OTHER -> Unknown
\* May running the instruction call, collect or switch coroutines?
Pure(o, ref) ==
    \/ o.op \in Loads \cup Markers \cup {"LOADNIL", "NOT", "GETUPVAL", "JMP", "TEST", "TESTSET",
                                         "FORPREP", "FORLOOP"}
    \/ o.op \in {"UNM", "BNOT"} /\ IsNumber(ref[o.b])
    \/ o.op \in BinaryRR \cup BinaryK /\ IsNumber(ref[o.b]) /\ IsNumber(Second(o, ref))
Outcomes(o, ref) ==
    LET x == ref[o.a]
        y == IF o.op \in CmpRR THEN ref[o.b] ELSE IF o.op = "EQK" THEN o.k ELSE <<"int", o.b>>
    IN CASE ~(IsNumber(x) /\ IsNumber(y)) -> BOOLEAN
         [] o.op \in {"EQ", "EQI", "EQK"} -> {x[2] = y[2]}
         [] o.op \in {"LT", "LTI"} -> {x[2] < y[2]}
         [] o.op \in {"LE", "LEI"} -> {x[2] <= y[2]}
         [] o.op = "GTI" -> {x[2] > y[2]}
         [] OTHER -> {x[2] >= y[2]}

-----------------------------------------------------------------------------
(* One instruction on both sides.  Old and New are the instruction as      *)
(* lifted and as compiled; a folded one runs on the interpreter only.      *)

Old == src[Top.fn].code[Top.pc]
New == ir[Top.fn].code[Top.pc]
Folded == New.op = "EXTRAARG" /\ Old.op # "EXTRAARG"
Region == RegionAt(Top.fn, Top.pc)
Form1 == IF level >= 1 THEN Lowered(New) ELSE "memory"
(* Mutant: a helper of a region finds the frame as it is. *)
ReadyAsIs == Top
\* What the machine code of the instruction finds in the frame: a helper-calling
\* one of a region is preceded by a write-back.
Ready == IF Top.pc \in Region.obs THEN Spill(Top, Region) ELSE Top
\* A collection or a call may clear the slots above the interpreter's frame.
Cleared(fr) == [fr EXCEPT !.mem = [s \in DOMAIN fr.mem |->
                   IF s >= src[fr.fn].nregs THEN Nil ELSE fr.mem[s]]]
Disturbed(fr) == IF Pure(Old, fr.ref) THEN {fr} ELSE {fr, Cleared(fr)}

\* Both sides leave the frame fr (its native part already changed by the
\* instruction) with the interpreter's slots ref, at n or nn.
Advance(fr, ref, written, n, nn) ==
    LET both == [fr EXCEPT !.ref = ref, !.pc = n,
                           !.loose = IF Folded THEN @ \cup written ELSE @ \ written]
    IN stk' = [stk EXCEPT ![Len(stk)] =
                 IF Folded THEN [Top EXCEPT !.ref = ref, !.pc = n, !.loose = both.loose]
                 ELSE RunTo(both, Region, Top.pc, nn)]
Step == stage = "running" /\ stk # <<>> /\ UNCHANGED <<level, stage, src, ir, live, regions>>
Inside == Step /\ UNCHANGED out

\* Loads, moves, arithmetic, and every helper that leaves one value.
Compute ==
    /\ Inside
    /\ Old.op \in (OneResult \cup Unary) \ {"NEWTABLE", "CLOSURE", "GETFIELD", "GETI", "TESTSET"}
    /\ \E v \in Results(Old, Top.ref), fr \in Disturbed(Ready) :
         LET next == IF Old.op = "LFALSESKIP" THEN Top.pc + 2 ELSE Top.pc + 1
             done == IF Form1 = "memory"
                     THEN [fr EXCEPT !.mem[New.a] = IF New.op = "MOVE" THEN fr.mem[New.b] ELSE v]
                     ELSE Put(fr, Region, New.a, Tag(Form1), ElidedBits(fr, Region, New))
         IN Advance(done, [Top.ref EXCEPT ![Old.a] = v], {Old.a}, next, next)

LoadNil ==
    /\ Inside
    /\ Old.op = "LOADNIL"
    /\ LET nils == Old.a .. Old.a + Old.b IN
       Advance([Top EXCEPT !.mem = [s \in DOMAIN @ |-> IF s \in nils THEN Nil ELSE @[s]]],
               [s \in DOMAIN Top.ref |-> IF s \in nils THEN Nil ELSE Top.ref[s]],
               nils, Top.pc + 1, Top.pc + 1)

\* The words behind an arithmetic instruction emit no code.
Marker ==
    /\ Inside
    /\ Old.op \in Markers \cup {"VARARGPREP"}
    /\ Advance(Top, Top.ref, {}, Top.pc + 1, Top.pc + 1)

Jump ==
    /\ Inside
    /\ Old.op = "JMP"
    /\ Advance(Top, Top.ref, {}, Old.c, New.c)

\* Comparisons: past the paired jump when the outcome is not k.
Compare ==
    /\ Inside
    /\ Old.op \in Compares
    /\ \E t \in Outcomes(Old, Top.ref), fr \in Disturbed(Ready) :
         LET bits == [x \in {"a", "b"} |-> <<"int", Bits(fr, Region, IF x = "a" THEN New.a
                                                     ELSE IF New.op \in CmpRR THEN New.b ELSE New.a)>>]
             nt == IF Form1 = "memory" THEN t
                   ELSE CHOOSE z \in Outcomes([New EXCEPT !.a = 0, !.b = IF New.op \in CmpRR THEN 1 ELSE @],
                                              [s \in {0, 1} |-> IF s = 0 THEN bits["a"] ELSE bits["b"]]) : TRUE
             to(o, z) == IF z = (o.c = 1) THEN Top.pc + 1 ELSE Top.pc + 2
         IN Advance(fr, Top.ref, {}, to(Old, t), to(New, nt))

Test ==
    /\ Inside
    /\ Old.op = "TEST"
    /\ LET to(o, v) == IF IsFalse(v) = (o.c = 0) THEN Top.pc + 1 ELSE Top.pc + 2
       IN Advance(Top, Top.ref, {}, to(Old, Top.ref[Old.a]), to(New, Top.mem[New.a]))

-----------------------------------------------------------------------------
(* The numeric for loop (lvm.c forprep and OP_FORLOOP, Rt_ForPrep,         *)
(* lower_forloop); the step is positive.                                   *)

\* The loop registers after FORPREP: [out, slots], out the loop's fate.
Prepared(slots, a) ==
    LET i == slots[a]
        lim == slots[a + 1]
        ints == i[1] = "int" /\ slots[a + 2][1] = "int"
        set(x, y, z, w) == [slots EXCEPT ![a] = x, ![a + 1] = y, ![a + 2] = z, ![a + 3] = w]
        f(v) == <<"flt", v[2]>>
    IN CASE ~\A s \in a .. a + 2 : IsNumber(slots[s]) -> [out |-> "error", slots |-> slots]
         [] ints /\ i[2] > lim[2] -> [out |-> "skip", slots |-> [slots EXCEPT ![a + 3] = i]]
         [] ints -> [out |-> "enter", slots |-> set(i, <<"int", lim[2] - i[2]>>, slots[a + 2], i)]
         [] i[2] > lim[2] -> [out |-> "skip", slots |-> slots]
         [] OTHER -> [out |-> "enter", slots |-> set(f(i), f(lim), f(slots[a + 2]), f(i))]

ForPrep ==
    /\ Inside
    /\ Old.op = "FORPREP"
    /\ LET r == Prepared(Top.ref, Old.a)
           n == Prepared(Top.mem, New.a)
           to(x, o) == IF x.out = "skip" THEN o.c ELSE Top.pc + 1
       IN IF r.out = "error" THEN stk' = <<>>
          ELSE Advance([Top EXCEPT !.mem = n.slots], r.slots, Old.a .. Old.a + 3, to(r, Old), to(n, New))

\* One turn on slots: [again, slots].
Turned(slots, a) ==
    LET int == slots[a + 2][1] = "int"
        i == slots[a][2] + slots[a + 2][2]
        again == IF int THEN slots[a + 1][2] > 0 ELSE i <= slots[a + 1][2]
        ty == IF int THEN "int" ELSE "flt"
        left == IF int THEN <<"int", slots[a + 1][2] - 1>> ELSE slots[a + 1]
    IN [again |-> again,
        slots |-> IF again THEN [slots EXCEPT ![a] = <<ty, i>>, ![a + 1] = left, ![a + 3] = <<ty, i>>]
                  ELSE slots]
(* Mutant: the decremented counter is not stored. *)
BareTurnKeepsCount(fr, rg, a) ==
    LET i == Bits(fr, rg, a) + Bits(fr, rg, a + 2)
    IN IF Bits(fr, rg, a + 1) = 0 THEN fr ELSE Put(Put(fr, rg, a, "int", i), rg, a + 3, "int", i)
\* The bare loop of a proven integer loop, on registers or slots.
BareTurn(fr, rg, a) ==
    LET count == Bits(fr, rg, a + 1)
        i == Bits(fr, rg, a) + Bits(fr, rg, a + 2)
    IN IF count = 0 THEN fr
       ELSE Put(Put(Put(fr, rg, a + 1, "int", count - 1), rg, a, "int", i), rg, a + 3, "int", i)

ForLoop ==
    /\ Inside
    /\ Old.op = "FORLOOP"
    /\ LET r == Turned(Top.ref, Old.a)
           bare == level >= 1 /\ Proven(New, 1, "INT")
           n == Turned(Top.mem, New.a)
           done == IF bare THEN BareTurn(Top, Region, New.a) ELSE [Top EXCEPT !.mem = n.slots]
           nagain == IF bare THEN Bits(Top, Region, New.a + 1) > 0 ELSE n.again
       IN Advance(done, r.slots, Old.a .. Old.a + 3, IF r.again THEN Old.c ELSE Top.pc + 1,
                  IF nagain THEN New.c ELSE Top.pc + 1)

-----------------------------------------------------------------------------
(* Tables.  A table made by NEWTABLE in the running frame is known by its  *)
(* register until its value leaves the function; fields of any other value *)
(* are unknown, and reading or writing them may run a metamethod.          *)

FieldKeys(fn) == {Key(src[fn].code[i]) : i \in {x \in DOMAIN src[fn].code :
                    src[fn].code[x].op \in {"GETFIELD", "GETI", "SETFIELD", "SETI"}}}
Own(fr, v) == v[1] = "tab" /\ v[2] \in DOMAIN fr.tab
\* The frame once the values have left it, and what the environment then holds.
Released(fr, vals) ==
    [fr EXCEPT !.tab = [t \in {x \in DOMAIN fr.tab : <<"tab", x>> \notin vals} |-> fr.tab[t]]]
Functions(vals) == {v[2] : v \in {x \in vals : x[1] = "fn"}}

NewTable ==
    /\ Inside
    /\ Old.op = "NEWTABLE"
    /\ \E fr \in Disturbed(Ready) :
         LET v == <<"tab", Old.a>>
             made == [fr EXCEPT !.tab = [x \in DOMAIN fr.tab \cup {Old.a} |->
                        IF x = Old.a THEN [key \in FieldKeys(fr.fn) |-> Nil] ELSE fr.tab[x]]]
             done == IF New.op = "LOADNIL"
                     THEN [made EXCEPT !.mem = [s \in DOMAIN @ |->
                                IF s \in New.a .. New.a + New.b THEN Nil ELSE @[s]]]
                     ELSE [made EXCEPT !.mem[New.a] = v]
         IN Advance(done, [Top.ref EXCEPT ![Old.a] = v], {Old.a}, Top.pc + 1, Top.pc + 1)

GetField ==
    /\ Inside
    /\ Old.op \in {"GETFIELD", "GETI"}
    /\ LET t == Top.ref[Old.b]
           own == Own(Top, t)
       IN \E v \in (IF own THEN {Top.tab[t[2]][Key(Old)]} ELSE Unknown),
             fr \in {Ready} \cup {Cleared(Ready) : x \in {y \in {0} : ~own}} :
            Advance([fr EXCEPT !.mem[New.a] = IF New.op = "MOVE" THEN fr.mem[New.b] ELSE v],
                    [Top.ref EXCEPT ![Old.a] = v], {Old.a}, Top.pc + 1, Top.pc + 1)

SetField ==
    /\ Step
    /\ Old.op \in {"SETFIELD", "SETI"}
    /\ LET t == Top.ref[Old.a]
           v == IF Old.c >= 0 THEN Top.ref[Old.c] ELSE Old.k
           own == Own(Top, t)
       IN /\ out' = out \cup Functions({v})
          /\ \E fr \in {Ready} \cup {Cleared(Ready) : x \in {y \in {0} : ~own}} :
               LET stored == IF own THEN [fr EXCEPT !.tab[t[2]][Key(Old)] = v] ELSE fr
                   done == CASE New.op = "MOVE" -> [stored EXCEPT !.mem[New.a] = fr.mem[New.b]]
                             [] New.op = "LOADK" -> [stored EXCEPT !.mem[New.a] = New.k]
                             [] OTHER -> stored
               IN Advance(Released(done, {v}), Top.ref, {}, Top.pc + 1, Top.pc + 1)

-----------------------------------------------------------------------------
(* Closures, calls and returns.                                            *)

MakeClosure ==
    /\ Inside
    /\ Old.op = "CLOSURE"
    /\ \E fr \in Disturbed(Ready) :
         LET v == <<"fn", Old.b>> IN
         Advance([fr EXCEPT !.mem[New.a] = v, !.open = @ \cup src[fr.fn].caps[Old.b]],
                 [Top.ref EXCEPT ![Old.a] = v], {Old.a}, Top.pc + 1, Top.pc + 1)

\* A store that leaves the function: to a global, an upvalue, an unknown table.
StoreOut ==
    /\ Step
    /\ Old.op \in {"SETTABUP", "SETUPVAL"}
    /\ LET v == Top.ref[IF Old.op = "SETTABUP" THEN Old.c ELSE Old.a] IN
       /\ out' = out \cup Functions({v})
       /\ \E fr \in Disturbed(Ready) :
            Advance(Released(fr, {v}), Top.ref, {}, Top.pc + 1, Top.pc + 1)

\* The arguments of the call, and the caller while the callee runs: its slots
\* above the function register hold the callee's frame, the ones above the
\* interpreter's frame too.
Arguments(slots) == [p \in 1 .. Old.b - 1 |-> slots[Old.a + p]]
Calling(fr, vals) ==
    LET over(slots, n) == [s \in DOMAIN slots |-> IF s > Old.a THEN Dead ELSE slots[s]] IN
    Released([fr EXCEPT !.ref = over(@, 0), !.mem = over(@, 0)], vals)
\* The caller when the call ends with these values: c - 1 results, the missing
\* ones nil.
Resumed(fr, vals, nvals) ==
    LET o == src[fr.fn].code[fr.pc]
        put(slots, vs) == [s \in DOMAIN slots |->
            IF s \notin o.a .. o.a + o.c - 2 THEN slots[s]
            ELSE IF s - o.a < Len(vs) THEN vs[s - o.a + 1] ELSE Nil]
        back == [fr EXCEPT !.ref = put(@, vals), !.mem = put(@, nvals), !.pc = fr.pc + 1,
                           !.loose = @ \ (o.a .. o.a + o.c - 2)]
    IN RunTo(back, RegionAt(fr.fn, fr.pc), fr.pc, fr.pc + 1)

\* The function a call reaches: a closure, the module a require names, or, through
\* the environment, any closure it holds.
Reaches(v, args) ==
    CASE v[1] = "fn" -> {v[2]}
      [] v[1] = "require" /\ Len(args) = 1 ->
           {g \in DOMAIN src : src[g].module # "" /\ args[1] = <<"str", src[g].module>>}
      [] OTHER -> {}
EnterFunction ==
    /\ Inside
    /\ Old.op = "CALL"
    /\ LET args == Arguments(Top.ref) IN
       \E g \in Reaches(Top.ref[Old.a], args) :
          stk' = Append([stk EXCEPT ![Len(stk)] = Calling(Ready, ToSet(args))],
                        NewFrame(g, args, Arguments(Ready.mem)))

\* The environment answers by itself, after changing a captured register of some
\* frame through a closure it holds or not, or by calling a closure it holds.
CallOut ==
    /\ Step
    /\ Old.op = "CALL"
    /\ Reaches(Top.ref[Old.a], Arguments(Top.ref)) = {}
    /\ LET args == Arguments(Top.ref)
           wait == [stk EXCEPT ![Len(stk)] = Calling(Ready, ToSet(args))]
           answer == [p \in 1 .. Old.c - 1 |-> Unknown]
           changed(j, s, v) == [wait EXCEPT ![j].ref[s] = v, ![j].mem[s] = v]
           worlds == {wait} \cup UNION {UNION {{changed(j, s, v) : v \in Unknown} :
                                            s \in wait[j].open} : j \in DOMAIN wait}
       IN /\ out' = out \cup Functions(ToSet(args))
          /\ \/ \E w \in worlds, v \in Unknown :
                   LET vs == [p \in 1 .. Old.c - 1 |-> v]
                   IN stk' = [w EXCEPT ![Len(stk)] = Resumed(w[Len(stk)], vs, vs)]
             \/ \E g \in out', v \in Unknown :
                   LET vs == [p \in 1 .. src[g].nparams |-> v]
                   IN stk' = Append(wait, NewFrame(g, vs, vs))

\* RETURN and its forms; a tail call of the environment returns its one value.
ReturnCount == CASE Old.op = "RETURN0" -> 0 [] Old.op = "RETURN1" -> 1 [] OTHER -> Old.b - 1
Return ==
    /\ Step
    /\ Old.op \in Returns
    /\ LET vals(slots) == [p \in 1 .. ReturnCount |-> slots[Old.a + p - 1]]
           rest == SubSeq(stk, 1, Len(stk) - 1)
       IN /\ out' = IF rest = <<>> THEN out \cup Functions(ToSet(vals(Top.ref))) ELSE out
          /\ stk' = IF rest = <<>> THEN <<>>
                    ELSE [rest EXCEPT ![Len(rest)] =
                            Resumed(rest[Len(rest)], vals(Top.ref), vals(Ready.mem))]

Finished == stk = <<>> /\ stage = "running" /\ UNCHANGED vars

Next == \/ InferTypes \/ PruneModule \/ ReplaceTables \/ GenerateCode
        \/ Compute \/ LoadNil \/ Marker \/ Jump \/ Compare \/ Test \/ ForPrep \/ ForLoop
        \/ NewTable \/ GetField \/ SetField \/ MakeClosure \/ StoreOut
        \/ EnterFunction \/ CallOut \/ Return
        \/ Finished
Spec == Init /\ [][Next]_vars

-----------------------------------------------------------------------------
(* Properties.                                                             *)

Running == stage = "running" /\ stk # <<>>
\* The slots the two sides must agree on: the interpreter's, live, and not the
\* register of a table that is gone, unless a closure sees it, or of a load that
\* was folded away.
Compared(fr) == {s \in DOMAIN fr.ref : fr.ref[s] # Dead} \ (fr.loose \cup (ir[fr.fn].replaced \ fr.open))
Held(fr) == Spilled(fr, RegionAt(fr.fn, fr.pc))

\* Every type proof the code generator relies on is true of the values the
\* interpreter has there: a wrong proof leaves code with no tag check that
\* treats, say, a string's pointer as an integer.
ProofsHold ==
    Running =>
      /\ \A p \in New.known : Old.op # "FORLOOP" =>
           LET s == Operands(Old)[p[1]] IN
           Top.ref[s] = Dead \/ Top.ref[s][1] = Tag(p[2])
      /\ (Old.op = "FORLOOP" /\ New.known # {}) =>
           \A s \in {Old.a, Old.a + 1, Old.a + 2} : Top.ref[s][1] = "int"

\* Compiled code computes what the interpreter computes: in every frame, every
\* live slot, wherever the code keeps it, has the interpreter's value.
FrameAgrees ==
    stage = "running" =>
      \A j \in DOMAIN stk : \A s \in Compared(stk[j]) : Held(stk[j])[s] = stk[j].ref[s]

\* Whoever looks at the frame while a helper runs (the collector, an error, a
\* metamethod, another coroutine) finds it current: no live slot has its only
\* good copy in a machine register.
ObserverSees ==
    Running =>
      LET blind == Form1 # "memory" \/ Folded \/ Old.op \in Markers \cup {"JMP"}
                   \/ (Old.op = "FORLOOP" /\ New.known # {})
          local == Old.op \in Loads \cup {"LOADNIL", "TEST"}   \* copies slots, calls nothing
          touched == {s \in DOMAIN Top.ref : ReadsSlot(Old, s)}
      IN ~blind => \A s \in Compared(Top) :
            (local => s \in touched) => Ready.mem[s] = Top.ref[s]

\* The compiled code takes the interpreter's way through the function.
SamePath ==
    Running => (New.op # "EXTRAARG" => Top.npc = Top.pc)

\* Folding a dead branch cannot be observed: its body would not have run, and
\* what its guard loaded is not read by the code that is left.
FoldUnseen ==
    Running => /\ ~(Folded /\ Old.op = "CLOSURE")
               /\ \A s \in Top.loose : Folded \/ ~ReadsSlot(Old, s)

\* A function compiled as a stub is never called.
DeadNeverRuns ==
    \A j \in DOMAIN stk : stk[j].fn \in live
=============================================================================
