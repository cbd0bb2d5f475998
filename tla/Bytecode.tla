------------------------------ MODULE Bytecode ------------------------------
(***************************************************************************)
(* The intermediate representation of one Lua function as the optimiser    *)
(* and the code generator see it: one block, in bytecode order, every      *)
(* instruction with its Lua opcode and its decoded operands (lift.c), and  *)
(* the operand model the passes share.                                     *)
(*                                                                         *)
(* An instruction is a record [op, a, b, c, k, known, ret].  A branch has  *)
(* its target, an index of the function, in c; a comparison its k bit in   *)
(* c; k is the constant operand of the K forms and of the stores.  known   *)
(* holds the proofs of type inference; ret is the proven type of a call's  *)
(* single result, or "no".  A function is a record [code, nregs, nparams,  *)
(* kids, caps, name]: kids are the indexes of its nested functions, caps   *)
(* maps each of them to the registers of this function it captures.        *)
(***************************************************************************)
EXTENDS Integers, Sequences, FiniteSets

ArithRR == {"ADD", "SUB", "MUL"}
ArithK == {"ADDK", "SUBK", "MULK"}
BitRR == {"BAND", "BOR", "BXOR"}
BitK == {"BANDK", "BORK", "BXORK"}
ShiftI == {"SHLI", "SHRI"}

BinaryRR == ArithRR \cup BitRR \cup {"DIV", "MOD", "IDIV", "POW", "SHL", "SHR"}
BinaryK == ArithK \cup BitK \cup ShiftI \cup {"ADDI", "DIVK", "MODK", "IDIVK", "POWK"}
Unary == {"UNM", "BNOT", "NOT", "LEN"}
Loads == {"MOVE", "LOADI", "LOADF", "LOADK", "LOADKX", "LOADTRUE", "LOADFALSE", "LFALSESKIP"}
Gets == {"GETTABLE", "GETI", "GETFIELD"}
Stores == {"SETTABUP", "SETTABLE", "SETI", "SETFIELD", "SETLIST", "SETUPVAL"}
CmpRR == {"EQ", "LT", "LE"}
CmpI == {"LTI", "LEI", "GTI", "GEI"}
Compares == CmpRR \cup CmpI \cup {"EQI", "EQK"}
Markers == {"MMBIN", "MMBINI", "MMBINK", "EXTRAARG"}
Returns == {"RETURN", "RETURN0", "RETURN1"}
ForLoops == {"FORPREP", "FORLOOP", "TFORPREP", "TFORLOOP"}
Branches == Compares \cup {"TEST", "TESTSET"}

\* The opcodes that leave one value, in R[a].
OneResult == BinaryRR \cup BinaryK \cup Unary \cup Loads \cup Gets
             \cup {"GETUPVAL", "GETTABUP", "NEWTABLE", "CLOSURE", "CONCAT", "TESTSET"}

-----------------------------------------------------------------------------
\* The successor relation of the dataflow (ti_run): the paired jump of a test
\* is its fall-through, and the other way skips it.
Successors(code, i) ==
    LET op == code[i].op
        all == CASE op \in Returns \cup {"TAILCALL"} -> {}
                 [] op = "JMP" -> {code[i].c}
                 [] op \in ForLoops -> {code[i].c, i + 1}
                 [] op \in Branches -> {i + 1, i + 2}
                 [] op = "LFALSESKIP" -> {i + 2}
                 [] OTHER -> {i + 1}
    IN all \cap DOMAIN code

\* ip_write_range: the frame slots an instruction may write; "all" when the
\* range is not known, which stands for the whole frame.
WriteRange(in, nregs) ==
    CASE in.op \in OneResult -> {in.a}
      [] in.op = "SELF" -> {in.a, in.a + 1}
      [] in.op = "LOADNIL" -> in.a .. in.a + in.b
      [] in.op = "CALL" -> in.a .. (IF in.c >= 1 THEN in.a + in.c - 2 ELSE nregs - 1)
      [] in.op \in {"FORPREP", "FORLOOP"} -> in.a .. in.a + 3
      [] in.op \in Stores \cup Compares \cup Returns \cup Markers
                   \cup {"TEST", "JMP", "VARARGPREP"} -> {}
      [] OTHER -> -1 .. nregs - 1                 \* TFOR*, VARARG, CLOSE, ...
UnknownRange(in, nregs) == -1 \in WriteRange(in, nregs)

\* ip_reads_slot: may the instruction read the slot?
ReadsSlot(in, s) ==
    LET upTo(n) == in.a <= s /\ s <= n IN
    CASE in.op \in {"MOVE", "GETI", "GETFIELD", "TESTSET"} \cup Unary \cup BinaryK -> in.b = s
      [] in.op \in BinaryRR \cup {"GETTABLE", "SELF"} -> s \in {in.b, in.c}
      [] in.op \in CmpRR -> s \in {in.a, in.b}
      [] in.op \in CmpI \cup {"EQI", "EQK", "TEST", "SETUPVAL", "RETURN1"} -> in.a = s
      [] in.op = "SETTABUP" -> in.c = s
      [] in.op \in {"SETTABLE", "SETI", "SETFIELD"} -> s \in {in.a, in.b, in.c}
      [] in.op = "CONCAT" -> upTo(in.a + in.b - 1)
      [] in.op = "CALL" -> IF in.b >= 1 THEN upTo(in.a + in.b - 1) ELSE s >= in.a
      [] in.op = "TAILCALL" -> s >= in.a
      [] in.op = "RETURN" -> IF in.b >= 1 THEN upTo(in.a + in.b - 2) ELSE s >= in.a
      [] in.op = "SETLIST" -> IF in.b >= 1 THEN upTo(in.a + in.b) ELSE s >= in.a
      [] in.op \in {"FORPREP", "FORLOOP"} -> upTo(in.a + 2)
      [] in.op \in Loads \cup Markers \cup
             {"LOADNIL", "NEWTABLE", "CLOSURE", "GETUPVAL", "GETTABUP", "JMP", "RETURN0",
              "VARARGPREP"} -> FALSE
      [] OTHER -> TRUE
=============================================================================
