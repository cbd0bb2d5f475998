----------------------------- MODULE TypeInfer ------------------------------
(***************************************************************************)
(* Type inference (opt/passes.c, ti_run): a forward dataflow over one      *)
(* function that proves, per register and per program point, "this is an   *)
(* integer" or "this is a float".  Machine code generated from a proof has *)
(* no tag check left, so a wrong one silently corrupts a value.            *)
(***************************************************************************)
EXTENDS Bytecode, SequencesExt

\* The lattice: TOP (no path yet), INT, FLT, UNK (anything).
Meet(x, y) == IF x = "TOP" THEN y ELSE IF y = "TOP" \/ x = y THEN x ELSE "UNK"
IsNum(t) == t \in {"INT", "FLT"}
Same(t) == IF IsNum(t) THEN t ELSE "UNK"
Combine(x, y) == IF x = "INT" /\ y = "INT" THEN "INT"
                 ELSE IF IsNum(x) /\ IsNum(y) THEN "FLT" ELSE "UNK"
FloatOnly(x, y) == IF IsNum(x) /\ IsNum(y) THEN "FLT" ELSE "UNK"
IntOnly(x, y) == IF x = "INT" /\ y = "INT" THEN "INT" ELSE "UNK"
KType(v) == CASE v[1] = "int" -> "INT" [] v[1] = "flt" -> "FLT" [] OTHER -> "UNK"

\* A register outside the frame is unknown (ti_reg).
At(st, r) == IF r \in DOMAIN st THEN st[r] ELSE "UNK"

\* The type of the value an instruction leaves in R[a] (R[a+3] for the loops).
ResultType(st, in) ==
    LET b == At(st, in.b)
        c == At(st, in.c)
    IN CASE in.op = "LOADI" -> "INT"
         [] in.op = "LOADF" -> "FLT"
         [] in.op = "LOADK" -> KType(in.k)
         [] in.op = "MOVE" -> b
         [] in.op \in ArithRR \cup {"IDIV", "MOD"} -> Combine(b, c)
         [] in.op \in ArithK \cup {"IDIVK", "MODK"} -> Combine(b, KType(in.k))
         [] in.op \in {"DIV", "POW"} -> FloatOnly(b, c)
         [] in.op \in {"DIVK", "POWK"} -> FloatOnly(b, KType(in.k))
         [] in.op \in {"ADDI", "UNM"} -> Same(b)
         [] in.op \in BitRR \cup {"SHL", "SHR"} -> IntOnly(b, c)
         [] in.op \in BitK \cup ShiftI \cup {"BNOT"} -> IntOnly(b, "INT")
         [] in.op = "FORPREP" -> IntOnly(At(st, in.a), At(st, in.a + 2))
         [] in.op = "FORLOOP" -> IntOnly(At(st, in.a), "INT")
         [] OTHER -> "UNK"

\* ti_transfer: what the instruction leaves in every register.
Transferred(st, in) ==
    LET n == Cardinality(DOMAIN st)
        from(i) == {r \in DOMAIN st : r >= i}
        proven == in.op = "CALL" /\ in.ret \in {"INT", "FLT"} /\ in.c = 2
        written == CASE in.op \in {"FORPREP", "FORLOOP"} -> {in.a + 3}
                     [] in.op \in OneResult \cup {"SELF", "LOADNIL"} -> WriteRange(in, n)
                     [] in.op = "VARARGPREP" -> DOMAIN st
                     [] in.op \in Stores \cup Compares \cup Returns \cup Markers
                                  \cup {"TEST", "JMP", "CLOSE", "TBC"} -> {}
                     [] OTHER -> from(in.a)
        new == IF proven THEN in.ret ELSE ResultType(st, in)
    IN [r \in DOMAIN st |-> IF r \notin written THEN st[r]
                            ELSE IF proven /\ r # in.a THEN "UNK" ELSE new]
(* Mutant: a captured register keeps its proof. *)
TransferCaptured(st, in, captured) == Transferred(st, in)
\* A closure may change a captured register at any call (ti_run).
Transfer(st, in, captured) ==
    LET left == Transferred(st, in)
    IN [r \in DOMAIN st |-> IF r \in captured THEN "UNK" ELSE left[r]]

\* The registers some nested function captures (instack upvalues of the
\* closures the function creates).
Captured(f) == UNION {f.caps[f.code[i].b] : i \in {j \in DOMAIN f.code : f.code[j].op = "CLOSURE"}}

\* One sweep over the instructions in order, each meeting its out-state into
\* its successors, and the sweeps repeated until nothing changes.
MeetState(st, left) == [r \in DOMAIN st |-> Meet(st[r], left[r])]
\* Rebuilt only when something changed: the fixpoint is what does not change.
Replaced(sts, j, met) == IF met = sts[j] THEN sts ELSE [sts EXCEPT ![j] = met]
MeetInto(sts, left, targets) ==
    FoldSet(LAMBDA j, s : Replaced(s, j, MeetState(s[j], left)), sts, targets)
Visit(f, captured, sts, i) ==
    MeetInto(sts, Transfer(sts[i], f.code[i], captured), Successors(f.code, i))
Sweep(f, captured, sts) ==
    LET upTo[i \in Nat] == IF i = 0 THEN sts ELSE Visit(f, captured, upTo[i - 1], i)
    IN upTo[Len(f.code)]
\* A meet lowers a register at most twice (TOP, a number, UNK), which bounds the
\* sweeps; done remembers that the last one changed nothing.
Again(sts, swept) == [sts |-> swept, done |-> swept = sts]
Sweeps(f, captured, start, n) ==
    LET onward(p) == IF p.done THEN p ELSE Again(p.sts, Sweep(f, captured, p.sts))
        after[i \in Nat] == IF i = 0 THEN start ELSE onward(after[i - 1])
    IN after[n]
Fixpoint(f, captured, sts) ==
    LET onward(p) == IF p.done THEN p ELSE Sweeps(f, captured, p, Len(f.code))
        after[i \in Nat] == IF i = 0 THEN [sts |-> sts, done |-> FALSE] ELSE onward(after[i - 1])
    IN after[2 * f.nregs + 1].sts

\* The in-state of every instruction: params is the proven entry type of each
\* parameter (the empty sequence when nothing is known of them).
States(f, params) ==
    LET regs == 0 .. f.nregs - 1
        entry == [r \in regs |-> IF r < Len(params) THEN params[r + 1] ELSE "UNK"]
    IN Fixpoint(f, Captured(f),
                [i \in DOMAIN f.code |-> IF i = 1 THEN entry ELSE [r \in regs |-> "TOP"]])

\* The two operands the code generator may treat without a tag check.
Operands(in) ==
    CASE in.op \in ArithRR \cup BitRR \cup {"DIV"} -> <<in.b, in.c>>
      [] in.op \in ArithK \cup BitK \cup {"ADDI", "DIVK", "MOVE"} -> <<in.b, -1>>
      [] in.op \in CmpRR -> <<in.a, in.b>>
      [] in.op \in CmpI \cup {"EQI"} -> <<in.a, -1>>
      [] OTHER -> <<-1, -1>>

\* The annotations: known is a set of proofs <<operand, type>>; a loop whose
\* index and step are integers is <<1, "INT">>, and exports the types that
\* hold at the entry of its body, for the registers of residency.
Annotate(f, sts) ==
    [i \in DOMAIN f.code |->
       LET in == f.code[i]
           st == sts[i]
           entry == sts[in.c]
           intLoop == in.op = "FORLOOP" /\ At(st, in.a) = "INT" /\ At(st, in.a + 2) = "INT"
       IN [in EXCEPT
             !.known = IF in.op = "FORLOOP" THEN {<<1, "INT">> : x \in {y \in {0} : intLoop}}
                       ELSE {p \in {1, 2} \X {"INT", "FLT"} : At(st, Operands(in)[p[1]]) = p[2]},
             !.entry = IF intLoop THEN [t \in {"INT", "FLT"} |-> {r \in DOMAIN entry : entry[r] = t}]
                       ELSE in.entry]]

\* The instructions a path from the first one reaches (the BFS of ti_run).
Reached(code) ==
    LET more[k \in Nat] ==
            IF k = 0 THEN {1}
            ELSE LET seen == more[k - 1] IN seen \cup UNION {Successors(code, i) : i \in seen}
    IN more[Len(code)]
=============================================================================
