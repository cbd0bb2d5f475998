----------------------------- MODULE Residency ------------------------------
(***************************************************************************)
(* Register residency (codegen/codegen.c, the res_ functions): which loops keep some of *)
(* their frame's slots in machine registers, which slots, and before which *)
(* instructions the registers are written back to the frame.               *)
(***************************************************************************)
EXTENDS DeadCode

Proven(in, x, t) == <<x, t>> \in in.known
BothProven(in, t) == Proven(in, 1, t) /\ Proven(in, 2, t)
IntK(in) == in.k[1] = "int"
NumK(in) == in.k[1] \in {"int", "flt"}

\* How res_qualify sees an instruction of a loop's body: on integers or floats
\* without a tag check ("INT", "FLT"), moving a value it knows nothing of
\* ("other"), emitting nothing ("none"), jumping, or calling a helper.
Form(in) ==
    CASE in.op \in ArithRR \cup CmpRR -> IF BothProven(in, "INT") THEN "INT"
                                         ELSE IF BothProven(in, "FLT") THEN "FLT" ELSE "helper"
      [] in.op \in BitRR -> IF BothProven(in, "INT") THEN "INT" ELSE "helper"
      [] in.op = "DIV" -> IF BothProven(in, "FLT") THEN "FLT" ELSE "helper"
      [] in.op \in CmpI \cup {"ADDI"} -> IF Proven(in, 1, "FLT") THEN "FLT"
                                         ELSE IF Proven(in, 1, "INT") THEN "INT" ELSE "helper"
      [] in.op = "EQI" -> IF Proven(in, 1, "INT") THEN "INT" ELSE "helper"
      [] in.op \in ArithK -> IF Proven(in, 1, "FLT") /\ NumK(in) THEN "FLT"
                             ELSE IF Proven(in, 1, "INT") /\ IntK(in) THEN "INT" ELSE "helper"
      [] in.op = "DIVK" -> IF Proven(in, 1, "FLT") /\ NumK(in) THEN "FLT" ELSE "helper"
      [] in.op \in BitK -> IF Proven(in, 1, "INT") /\ IntK(in) THEN "INT" ELSE "helper"
      [] in.op = "MOVE" -> IF Proven(in, 1, "INT") THEN "INT"
                           ELSE IF Proven(in, 1, "FLT") THEN "FLT" ELSE "other"
      [] in.op = "LOADI" -> "INT"
      [] in.op = "LOADF" -> "FLT"
      [] in.op \in {"LOADK", "LOADTRUE", "LOADFALSE", "LFALSESKIP", "LOADNIL", "TEST", "TESTSET"} -> "other"
      [] in.op \in Markers -> "none"
      [] in.op = "JMP" -> "jump"
      [] OTHER -> "helper"

\* The slots such an instruction reads, and the ones it writes.
Reads(in) ==
    CASE in.op \in BinaryRR -> {in.b, in.c}
      [] in.op \in BinaryK \cup {"MOVE", "TESTSET"} -> {in.b}
      [] in.op \in CmpRR -> {in.a, in.b}
      [] in.op \in CmpI \cup {"EQI", "TEST"} -> {in.a}
      [] OTHER -> {}
Writes(in) == IF in.op = "LOADNIL" THEN in.a .. in.a + in.b
              ELSE IF in.op \in OneResult THEN {in.a} ELSE {}

\* res_obs_op: the helper-calling instructions a region may hold, with the
\* frame slots their helper writes.
Observes(in) == in.op \in OneResult \cup Stores \cup Compares \cup Returns
                          \cup {"SELF", "CALL", "TAILCALL"}
(* Mutant: what the helpers leave in the frame is forgotten. *)
HelperWritesNothing(in, nregs) == {}
HelperWrites(in, nregs) ==
    IF in.op \in OneResult \cup {"SELF", "CALL"} THEN WriteRange(in, nregs) ELSE {}

\* The first n of the slots s, by how often the loop touches them (ties: the
\* lowest first).
Busiest(s, count, n) ==
    {x \in s : Cardinality({y \in s : count[y] > count[x] \/ (count[y] = count[x] /\ y < x)}) < n}

(* Mutant: the proofs of the body are enough. *)
HeldAlways(in, ty, s) == TRUE
\* Is the slot a ty when the loop's body is entered?
HeldAtEntry(in, ty, s) == s \in in.entry[ty]

MaxObs == 6
NRegs == 5
NoRegion == [start |-> 0, end |-> -1, INT |-> {}, FLT |-> {}, obs |-> {}]

\* What res_qualify notes of each instruction of the function.
Look(in, nregs) ==
    LET helper == Form(in) = "helper" IN
    [form |-> Form(in), reads |-> IF helper THEN {} ELSE Reads(in),
     writes |-> IF helper THEN HelperWrites(in, nregs) ELSE Writes(in)]
Looked(f) == Each(LAMBDA in : Look(in, f.nregs), f.code)

\* How often the body reads or writes slot s as a ty; the slots it uses without
\* a type.
Times(look, body, ty, s) ==
    LET typed == {i \in body : look[i].form = ty} IN
    Cardinality({i \in typed : s \in look[i].reads}) + Cardinality({i \in typed : s \in look[i].writes})
Untyped(look, body) ==
    UNION {look[i].reads \cup look[i].writes : i \in {x \in body : look[x].form \in {"other", "helper"}}}

Internals(la) == la .. la + 2
\* May the loop that ends at p have a region at all?
Qualifies(f, p, la, t, look) ==
    LET code == f.code
        body == t .. p - 1
    IN /\ code[p].op = "FORLOOP" /\ Proven(code[p], 1, "INT")
       /\ la + 3 < f.nregs /\ t > 1 /\ t <= p /\ code[t - 1].op = "FORPREP"
       /\ \A i \in body :
            /\ code[i].op = "JMP" => code[i].c \in t .. p
            /\ code[i].op \in Branches => i + 2 <= p
            /\ look[i].form = "helper" => Observes(code[i])
            /\ look[i].writes \cap Internals(la) = {}
       /\ Cardinality({i \in body : look[i].form = "helper"}) <= MaxObs
       /\ Untyped(look, body) \cap Internals(la) = {}

\* The slots no register can hold, when n counts the uses by type: used without
\* a type, used as both, or not proven to hold the type at the loop's entry.
Dirty(in, untyped, n) ==
    {s \in DOMAIN n.INT : \/ s \in untyped
                          \/ n.INT[s] > 0 /\ n.FLT[s] > 0
                          \/ s \notin Internals(in.a)
                             /\ \E ty \in {"INT", "FLT"} : n[ty][s] > 0 /\ ~HeldAtEntry(in, ty, s)}
\* The loop itself uses its index, counter, step and control variable.
Weighted(la, n) ==
    [n EXCEPT !.INT = [s \in DOMAIN @ |->
        n.INT[s] + (IF s \in {la, la + 1} \/ (s = la + 3 /\ n.FLT[s] = 0) THEN 1000
                    ELSE IF s = la + 2 THEN 500 ELSE 0)]]
Chosen(ty, other, dirty, w) ==
    Busiest({s \in DOMAIN w[ty] \ dirty : w[ty][s] > 0 /\ w[other][s] = 0}, w[ty], NRegs)
Allotted(region, dirty, w) ==
    [region EXCEPT !.INT = Chosen("INT", "FLT", dirty, w), !.FLT = Chosen("FLT", "INT", dirty, w)]
Allot(in, region, untyped, n) == Allotted(region, Dirty(in, untyped, n), Weighted(in.a, n))

\* res_qualify: the region of the loop that ends with the FORLOOP at p, or
\* NoRegion when it does not qualify.
Qualify(f, p, t, look) ==
    LET body == t .. p - 1
        counts == [ty \in {"INT", "FLT"} |-> [s \in 0 .. f.nregs - 1 |-> Times(look, body, ty, s)]]
    IN IF Qualifies(f, p, f.code[p].a, t, look)
       THEN Allot(f.code[p],
                  [NoRegion EXCEPT !.start = t, !.end = p, !.obs = {i \in body : look[i].form = "helper"}],
                  Untyped(look, body), counts)
       ELSE NoRegion

\* res_analyze: the regions of a function compiled at the level.
Regions(f, level) ==
    IF level < 1 THEN {} ELSE {Qualify(f, p, f.code[p].c, Looked(f)) : p \in DOMAIN f.code} \ {NoRegion}
=============================================================================
