----------------------------- MODULE InstrPath -----------------------------
(***************************************************************************)
(* The path of one instruction through the assembler: pass 1 of either     *)
(* back end measures it (tasm_get_instr_size), a later pass lowers,        *)
(* encodes and, for object files, relocates it.  The two passes validate   *)
(* the instruction separately, and nothing but the agreement of            *)
(* sema.c's three functions keeps the trytes, the space reserved for them  *)
(* and the relocation in step.                                             *)
(***************************************************************************)
EXTENDS Lower

CONSTANTS Instrs,      \* the instructions the parser may hand over
          Addresses    \* the addresses a label of a raw image may have

ASSUME InstrPathAssumption ==
  /\ Instrs \subseteq InstrItem
  /\ \A instr \in Instrs : Len(instr.operands) <= 3
  /\ Addresses \subseteq Nat /\ Addresses # {}

VARIABLES
  instr,     \* the instruction
  stage,     \* "parsed", "measured", "raw" or "tobj"
  size,      \* the space pass 1 reserves for it
  reported,  \* number of diagnostics issued for it
  code,      \* the trytes emitted for it
  value,     \* the value put into its immediate field
  relocs     \* offsets of its relocations, by operand

vars == <<instr, stage, size, reported, code, value, relocs>>

Init ==
  /\ instr \in Instrs
  /\ stage = "parsed"
  /\ size = 0 /\ reported = 0 /\ code = <<>> /\ value = 0
  /\ relocs = <<>>

\* Pass 1: tasm_get_instr_size, with the diagnostics engine.
Measure ==
  /\ stage = "parsed"
  /\ stage' = "measured"
  /\ size' = InstrSize(instr)
  /\ reported' = IF InstrFormat(instr) = "rejected" THEN 1 ELSE 0
  /\ UNCHANGED <<instr, code, value, relocs>>

\* What a resolver makes of the immediate operand: a literal is its value, a
\* string is no value; a label is left to the back end.
Values(labelValues) ==
  LET op == ImmOperand(instr)
  IN  CASE op = NoOperand -> {StepImmediate}
        [] op # NoOperand /\ IsImm(op)   -> {op.val}
        [] op # NoOperand /\ IsLabel(op) -> labelValues
        [] OTHER -> {}

\* pass2_handle_instruction of the raw back end: the label has some address.
EmitRaw ==
  /\ stage = "measured"
  /\ stage' = "raw"
  /\ IF IsValid(instr) /\ Values(Addresses) # {}
     THEN \E v \in Values(Addresses) : value' = v /\ code' = Encoding(instr, v)
     ELSE UNCHANGED <<code, value>>
  /\ UNCHANGED <<instr, size, reported, relocs>>

\* Mutation of UndefinedLabel: the loop does not get past the instruction.
UndefinedLabelAgain ==
  /\ stage = "measured"
  /\ IsValid(instr)
  /\ ImmOperand(instr) # NoOperand /\ IsLabel(ImmOperand(instr))
  /\ reported' = reported + 1
  /\ UNCHANGED <<instr, stage, size, code, value, relocs>>

\* The label is not defined: nothing is emitted, and the resolver says so.
UndefinedLabel ==
  /\ stage = "measured"
  /\ IsValid(instr)
  /\ ImmOperand(instr) # NoOperand /\ IsLabel(ImmOperand(instr))
  /\ stage' = "raw"
  /\ reported' = reported + 1
  /\ UNCHANGED <<instr, size, code, value, relocs>>

\* emit_reloc_for_operand for each of these operands: those whose symbol is known
\* are relocated, and each of the others is reported.
Relocate(ops) ==
  \E known \in SUBSET ops :
    /\ relocs' = [k \in known |-> ImmOffset(instr)]
    /\ reported' = reported + Cardinality(ops \ known)

LabelOperands == {k \in DOMAIN instr.operands : IsLabel(instr.operands[k])}

\* Mutation of EmitTObj: every immediate is relocated.
EmitTObjAllImmediates ==
  /\ stage = "measured"
  /\ stage' = "tobj"
  /\ IF IsValid(instr) /\ Values({0}) # {}
     THEN /\ \E v \in Values({0}) : value' = v /\ code' = Encoding(instr, v)
          /\ Relocate({k \in DOMAIN instr.operands : ~IsReg(instr.operands[k])})
     ELSE UNCHANGED <<code, value, relocs, reported>>
  /\ UNCHANGED <<instr, size>>

\* pass3_handle_instruction of the object back end: labels are encoded as 0, and
\* every label operand, wherever it stands, is relocated if its symbol is
\* known; the instruction is emitted whether or not it is.
EmitTObj ==
  /\ stage = "measured"
  /\ stage' = "tobj"
  /\ IF IsValid(instr) /\ Values({0}) # {}
     THEN /\ \E v \in Values({0}) : value' = v /\ code' = Encoding(instr, v)
          /\ Relocate(LabelOperands)
     ELSE UNCHANGED <<code, value, relocs, reported>>
  /\ UNCHANGED <<instr, size>>

Next == Measure \/ EmitRaw \/ UndefinedLabel \/ EmitTObj

Spec == Init /\ [][Next]_vars

-----------------------------------------------------------------------------
(* Properties *)

TypeOK ==
  /\ instr \in InstrItem
  /\ stage \in {"parsed", "measured", "raw", "tobj"}
  /\ size \in Nat /\ reported \in 0 .. 2 /\ value \in Nat
  /\ DOMAIN relocs \subseteq 1 .. 3

Emitted == stage \in {"raw", "tobj"} /\ code # <<>>

\* What a later pass writes is exactly as long as the space pass 1 reserved:
\* otherwise every label after the instruction would be off.
ReservedSpaceIsFilled == Emitted => Len(code) = size

\* A label operand reaches the machine code with all 8 trytes of its address,
\* whatever the width of the other operands: no address is ever cut short, and
\* it stands at the offset tasm_get_instr_imm_offset gives for relocations.
Field == SubSeq(code, ImmOffset(instr) + 1, ImmOffset(instr) + ADDR_SIZE)

AddressFieldIsWhole ==
  Emitted => \A i \in DOMAIN instr.operands :
    IsLabel(instr.operands[i]) => /\ ImmOffset(instr) # 0
                                  /\ Field = ValueTrytes(value, ADDR_SIZE)

\* An instruction that is emitted into an object has one relocation or one
\* report of an undefined symbol if its immediate field stands for a label, and
\* neither if it does not; and what is relocated is the operand the field was
\* filled from.  Pass 3 walks all operands and never asks which of them that is.
OneRelocationPerField ==
  stage = "tobj" /\ code # <<>> =>
    LET op == ImmOperand(instr)
    IN  /\ \A k \in DOMAIN relocs : instr.operands[k] = op
        /\ Cardinality(DOMAIN relocs) + reported =
             IF op # NoOperand /\ IsLabel(op) THEN 1 ELSE 0

\* Lowering loses no operand: every register is in a register field, every
\* literal is the value of the immediate field, and a register field that is
\* not an operand is one of the implicit registers.
NoOperandIsLost ==
  Emitted =>
    LET ops    == instr.operands
        fields == {RegFields(instr)[k] : k \in DOMAIN RegFields(instr)}
        regs   == {ops[i].id : i \in {j \in DOMAIN ops : IsReg(ops[j])}}
    IN  /\ regs \subseteq fields
        /\ fields \subseteq regs \union {"az", "sp", "ip"}
        /\ \A i \in DOMAIN ops : IsImm(ops[i]) => value = ops[i].val

\* Nothing disappears without a diagnostic, unless it has a string operand:
\* the `default: return false` branches of sema.c and the resolvers are reached
\* by strings only.
SilentOnlyForStrings ==
  stage \in {"raw", "tobj"} /\ code = <<>> =>
    reported > 0 \/ \E i \in DOMAIN instr.operands : instr.operands[i].kind = "str"

(***************************************************************************)
(* The operand lists documented in src/include/tasm/asr/instr.h:41-80:     *)
(* "x" required, "[x]" optional, "x/y" either.  A form is a sequence of    *)
(* sets of operand kinds.                                                  *)
(***************************************************************************)
R  == {"reg"}
I  == {"imm", "label"}
RI == R \union I

MemForms(data) == {<<data, RI>>, <<data, R, I>>}

DocumentedForms(opcode) ==
  CASE opcode \in PlainOps  -> {<<>>}
    [] opcode \in AluOps    -> {<<R, RI>>, <<R, R, RI>>}
    [] opcode \in UnaryOps \union StepOps -> {<<R>>, <<R, RI>>}
    [] opcode \in LoadOps   -> MemForms(R)
    [] opcode \in StoreOps  -> MemForms(RI)
    [] opcode \in PtrInOps  -> {<<R, R>>}
    [] opcode \in PtrOutOps -> {<<RI, R>>}
    [] opcode \in MoveOps   -> {<<R, RI>>}
    [] opcode \in {"jmp", "push"} -> {<<RI>>}
    [] opcode = "pop"       -> {<<R>>}

HasForm(ops, form) ==
  Len(ops) = Len(form) /\ \A i \in DOMAIN ops : ops[i].kind \in form[i]

HasDocumentedForm == \E f \in DocumentedForms(instr.opcode) : HasForm(instr.operands, f)

\* Outside loads and stores, what the assembler emits is one of the documented
\* operand lists.
OnlyDocumentedForms ==
  Emitted /\ instr.opcode \notin LoadOps \union StoreOps => HasDocumentedForm

\* inc and dec take "reg, [reg/imm]" (instr.h:75-76), out and store take
\* "imm/reg, reg/imm/(reg, imm)" (instr.h:65,67): written with a width, so
\* that no width has to be inferred, all of these should assemble.
TakesDocumentedForms ==
  /\ stage = "tobj"
  /\ instr.opcode \in StepOps \union StoreOps /\ HasDocumentedForm
  /\ instr.width = 48 /\ WidthVotes(instr) \subseteq {48}
  /\ \A i \in AddressRegs(instr) : instr.operands[i].width = 48
  => code # <<>>

\* "jmp instruction must have operand width 48" (sema.c:435): the register a
\* jump reads is a whole one.
JumpReadsWholeRegister ==
  Emitted /\ instr.opcode = "jmp" =>
    \A i \in DOMAIN instr.operands :
      IsReg(instr.operands[i]) => instr.operands[i].width = 48
=============================================================================
