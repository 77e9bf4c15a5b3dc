------------------------------- MODULE Lower -------------------------------
(***************************************************************************)
(* Lowering (src/src/asm/lower.c): from an instruction of the assembly     *)
(* language, with its pseudo-operations, to one the TC-48 executes, and    *)
(* the trytes tc48_encode lays it out as.                                  *)
(*                                                                         *)
(* tasm_lower_instr calls the back end's resolver at most once, on the     *)
(* operand ImmOperand names.  Here the back end resolves that operand      *)
(* itself and passes the value in.                                         *)
(***************************************************************************)
EXTENDS Sema

NoOperand == [kind |-> "nothing"]

\* The opcode that is executed: the pseudo-operations are adds and subtracts,
\* push and pop are stores and loads through SP.
MachineOp(instr) ==
  CASE instr.opcode \in {"set", "inc", "jmp"} -> "add"
    [] instr.opcode \in {"cmp", "dec"}        -> "sub"
    [] instr.opcode = "push"                  -> "istore"
    [] instr.opcode = "pop"                   -> "dload"
    [] OTHER                                  -> instr.opcode

MachineWcfr(instr) == IF instr.opcode = "cmp" THEN "full" ELSE instr.wcfr

\* Mutation of ImmOperand: the address is looked for in one place only.
ImmOperandSecond(instr) ==
  LET fmt == InstrFormat(instr)
  IN  IF fmt \in {"none", "rr", "rrr"} \/ instr.opcode \in StepOps THEN NoOperand
      ELSE IF fmt \in {"ir", "irr"} THEN instr.operands[1]
      ELSE IF fmt = "rra" THEN instr.operands[2]
      ELSE instr.operands[Len(instr.operands)]

\* The operand whose value fills the immediate or address field, by the label
\* of tasm_lower_instr the opcode jumps to.
ImmOperand(instr) ==
  LET ops == instr.operands
      fmt == InstrFormat(instr)
  IN  IF fmt \in {"none", "rr", "rrr"} \/ instr.opcode \in StepOps THEN NoOperand
      ELSE IF fmt \in {"ir", "irr"} THEN ops[1]
      ELSE IF fmt = "rra" THEN IF IsReg(ops[2]) THEN ops[3] ELSE ops[2]
      ELSE ops[Len(ops)]

\* The register fields in the order they are encoded, in this format.
FieldsIn(instr, fmt) ==
  LET ops   == instr.operands
      n     == Len(ops)
      id(i) == ops[i].id
      last  == IF fmt = "rrr" THEN <<id(n)>> ELSE <<>>
  IN  CASE instr.opcode \in PlainOps -> <<>>
        [] instr.opcode \in AluOps ->
             <<id(1), IF n = 3 THEN id(2) ELSE id(1)>> \o last
        [] instr.opcode = "set" -> <<id(1), "az">> \o last
        [] instr.opcode = "cmp" -> <<"az", id(1)>> \o last
        [] instr.opcode = "jmp" -> <<"ip", "az">> \o last
        [] instr.opcode \in UnaryOps -> IF fmt = "rr" THEN <<id(1), id(n)>> ELSE <<id(1)>>
        [] instr.opcode \in StepOps -> <<id(1), IF n = 2 THEN id(2) ELSE id(1)>>
        [] instr.opcode \in LoadOps \union StoreOps ->
             IF fmt = "irr" THEN <<id(2), IF n = 3 THEN id(3) ELSE "az">>
             ELSE IF fmt = "rrr" THEN <<id(1), id(2), IF n = 3 THEN id(3) ELSE "az">>
             ELSE IF IsReg(ops[2]) THEN <<id(1), id(2)>>
             ELSE <<id(1), IF n = 3 THEN id(3) ELSE "az">>
        [] instr.opcode \in PtrInOps  -> <<id(1), id(2)>>
        [] instr.opcode \in PtrOutOps -> IF fmt = "rr" THEN <<id(1), id(2)>> ELSE <<id(2)>>
        [] instr.opcode = "push" -> IF fmt = "rr" THEN <<id(1), "sp">> ELSE <<"sp">>
        [] instr.opcode = "pop"  -> <<id(1), "sp">>

RegFields(instr) == FieldsIn(instr, InstrFormat(instr))

\* Mutation of FieldSize: addresses are cut to the width of the instruction.
FieldSizeByWidth(instr) ==
  IF InstrFormat(instr) \in {"none", "rr", "rrr"} THEN 0 ELSE ImmSize(OperandWidth(instr))

\* fill_imm: an immediate has the width of the instruction, an address 48 trits.
\* Nothing checks that the value fits: the store keeps its low trytes.
FieldSize(instr) ==
  LET fmt == InstrFormat(instr)
  IN  CASE fmt \in {"ri", "ir", "rri", "irr"} -> ImmSize(OperandWidth(instr))
        [] fmt = "rra"                        -> ADDR_SIZE
        [] OTHER                              -> 0

(***************************************************************************)
(* Trytes.  A tryte is named by what it is a part of: trytes k of value v, *)
(* a register field, one of the two trytes of a header.                    *)
(***************************************************************************)
ValueTrytes(v, n) == [k \in 1 .. n |-> [val |-> v, k |-> k]]

Header(instr) ==
  [k \in 1 .. HEADER_SIZE |->
     [op |-> MachineOp(instr), format |-> InstrFormat(instr),
      width |-> OperandWidth(instr), wcfr |-> MachineWcfr(instr), h |-> k]]

RegTrytes(fields) == [k \in 1 .. Len(fields) |-> [reg |-> fields[k]]]

\* tc48_encode of the lowered instruction, with val in its immediate field.
Encoding(instr, val) ==
  LET regs == RegTrytes(RegFields(instr))
      imm  == ValueTrytes(val, FieldSize(instr))
  IN  Header(instr) \o (IF InstrFormat(instr) \in {"ir", "irr"}
                        THEN imm \o regs ELSE regs \o imm)

\* The value in the immediate field when it is not an operand's: inc and dec.
StepImmediate == 1

\* The trytes of a data directive whose operands have these values.
DataTrytes(size, vals) ==
  [c \in 1 .. size * Len(vals) |->
     [val |-> vals[((c - 1) \div size) + 1], k |-> ((c - 1) % size) + 1]]

\* The characters of the first n operands of a %string, one tryte each.
StringTrytes(ops, n) ==
  [c \in 1 .. StringStart(ops, n + 1) |->
     LET k == CHOOSE j \in 1 .. n : StringStart(ops, j) < c /\ c <= StringStart(ops, j + 1)
     IN  [val |-> ops[k].chars[c - StringStart(ops, k)], k |-> 1]]
=============================================================================
