-------------------------------- MODULE Sema --------------------------------
(***************************************************************************)
(* Semantic analysis of one item (src/src/asm/sema.c): which encoding      *)
(* format and operand width an instruction gets, whether it is rejected,   *)
(* and how many trytes an item occupies.                                   *)
(*                                                                         *)
(* tasm_validate_and_inspect is a chain of early returns.  All of them     *)
(* return false; what the rest of the assembler can tell apart is only     *)
(* whether a diagnostic was issued on the way.  So the checks are folded   *)
(* into one value, the format, with two values for failure: "rejected"     *)
(* (a diagnostic was issued) and "dropped" (none was).                     *)
(***************************************************************************)
EXTENDS TasmAsr, FiniteSets

Formats == {"none", "rr", "rrr", "ri", "ir", "rri", "irr", "rra"}

AddressOps == LoadOps \union StoreOps \union PtrInOps \union PtrOutOps

\* The operand that is the address of a load, store, in or out.
IsAddressOperand(instr, i) ==
  LET ops == instr.operands
      n   == Len(ops)
  IN  /\ instr.opcode \in LoadOps \union StoreOps
      /\ instr.opcode \in StoreOps => IsReg(ops[1])
      /\ \/ n = 2 /\ i = 2
         \/ n = 3 /\ ~IsReg(ops[2]) /\ i = 2
         \/ n = 3 /\ IsReg(ops[2]) /\ ~IsReg(ops[3]) /\ i = 3

\* Registers that hold an address must be whole registers.
AddressRegs(instr) ==
  {i \in DOMAIN instr.operands :
     /\ IsReg(instr.operands[i])
     /\ IsAddressOperand(instr, i) \/ (instr.opcode \in AddressOps /\ i > 1)}

\* What the other operands say about the width: registers (AZ has no opinion)
\* their own, label immediates 48.
WidthVotes(instr) ==
  LET Votes(i) == LET op == instr.operands[i] IN
        IF IsAddressOperand(instr, i) \/ i \in AddressRegs(instr) THEN {}
        ELSE IF IsReg(op) /\ op.id # "az" THEN {op.width}
        ELSE IF IsLabel(op) THEN {48}
        ELSE {}
  IN  UNION {Votes(i) : i \in DOMAIN instr.operands}

\* The width the instruction is encoded with, NoWidth if it cannot be inferred.
OperandWidth(instr) ==
  IF instr.width # NoWidth THEN instr.width
  ELSE IF instr.opcode \in PlainOps THEN 6
  ELSE IF instr.opcode = "jmp" THEN 48
  ELSE IF WidthVotes(instr) # {} THEN CHOOSE w \in WidthVotes(instr) : TRUE
  ELSE IF \E i \in DOMAIN instr.operands :
            IsReg(instr.operands[i]) /\ instr.operands[i].id = "az" THEN 6
  ELSE NoWidth

WidthsConflict(instr) ==
  \/ \E i \in AddressRegs(instr) : instr.operands[i].width # 48
  \/ \E v, w \in WidthVotes(instr) : v # w
  \/ instr.width # NoWidth /\ \E v \in WidthVotes(instr) : v # instr.width
  \/ OperandWidth(instr) = NoWidth

\* The last step of most cases of the switch: the format is decided by the
\* kind of one operand, and a label is an immediate of width 48 only.
ByKind(op, width, regFormat, immFormat) ==
  CASE IsReg(op)                 -> regFormat
    [] IsImm(op)                 -> immFormat
    [] IsLabel(op) /\ width = 48 -> immFormat
    [] IsLabel(op) /\ width # 48 -> "rejected"
    [] OTHER                     -> "dropped"

AllRegs(ops, first, last) == \A i \in first .. last : IsReg(ops[i])

\* Register-addressed, or with exactly one non-register among the address operands.
MemFormat(ops) ==
  LET others == {i \in 2 .. Len(ops) : ~IsReg(ops[i])}
  IN  IF others = {} THEN "rrr"
      ELSE IF \E i \in others : others = {i} THEN "rra" ELSE "rejected"

\* The switch over the opcode, by group of opcodes.
AluFormat(ops, width) ==
  IF Len(ops) \in {2, 3} /\ AllRegs(ops, 1, Len(ops) - 1)
  THEN ByKind(ops[Len(ops)], width, "rrr", "rri") ELSE "rejected"

\* Mutation of UnaryFormat: superfluous operands go unnoticed.
UnaryFormatUncounted(ops, width) ==
  IF ops # <<>> /\ IsReg(ops[1])
  THEN ByKind(ops[Len(ops)], width, "rr", "ri") ELSE "rejected"

UnaryFormat(ops, width) ==
  IF Len(ops) \in {1, 2} /\ IsReg(ops[1])
  THEN ByKind(ops[Len(ops)], width, "rr", "ri") ELSE "rejected"

StepFormat(ops) ==
  IF Len(ops) \in {1, 2} /\ AllRegs(ops, 1, Len(ops)) THEN "rri" ELSE "rejected"

PlainFormat(instr) ==
  IF instr.operands = <<>> /\ instr.width = NoWidth THEN "none" ELSE "rejected"

LoadFormat(ops) ==
  IF Len(ops) \in {2, 3} /\ IsReg(ops[1]) THEN MemFormat(ops) ELSE "rejected"

StoreFormat(ops, width) ==
  IF Len(ops) \notin {2, 3} THEN "rejected"
  ELSE IF IsReg(ops[1]) THEN MemFormat(ops)
  ELSE IF /\ IsImm(ops[1]) \/ (IsLabel(ops[1]) /\ width = 48)
          /\ AllRegs(ops, 2, Len(ops)) THEN "irr"
  ELSE "rejected"

PtrInFormat(ops) ==
  IF Len(ops) = 2 /\ AllRegs(ops, 1, 2) THEN "rr" ELSE "rejected"

PtrOutFormat(ops, width) ==
  IF Len(ops) = 2 /\ IsReg(ops[2]) THEN ByKind(ops[1], width, "rr", "ir") ELSE "rejected"

PushFormat(ops, width) ==
  IF Len(ops) = 1 THEN ByKind(ops[1], width, "rr", "ir") ELSE "rejected"

PopFormat(ops) ==
  IF Len(ops) = 1 /\ IsReg(ops[1]) THEN "rr" ELSE "rejected"

MoveFormat(ops, width) ==
  IF Len(ops) = 2 /\ IsReg(ops[1]) THEN ByKind(ops[2], width, "rrr", "rri") ELSE "rejected"

\* Mutation of JmpFormat: superfluous operands go unnoticed.
JmpFormatUncounted(ops, width) ==
  IF ops # <<>> /\ width = 48 THEN ByKind(ops[1], width, "rrr", "rri") ELSE "rejected"

JmpFormat(ops, width) ==
  IF Len(ops) = 1 /\ width = 48 THEN ByKind(ops[1], width, "rrr", "rri") ELSE "rejected"

\* The switch of tasm_validate_and_inspect, for operands of width w.
FormatForWidth(instr, w) ==
  LET ops == instr.operands
  IN  CASE instr.opcode \in AluOps    -> AluFormat(ops, w)
        [] instr.opcode \in UnaryOps  -> UnaryFormat(ops, w)
        [] instr.opcode \in StepOps   -> StepFormat(ops)
        [] instr.opcode \in PlainOps  -> PlainFormat(instr)
        [] instr.opcode \in LoadOps   -> LoadFormat(ops)
        [] instr.opcode \in StoreOps  -> StoreFormat(ops, w)
        [] instr.opcode \in PtrInOps  -> PtrInFormat(ops)
        [] instr.opcode \in PtrOutOps -> PtrOutFormat(ops, w)
        [] instr.opcode = "push"      -> PushFormat(ops, w)
        [] instr.opcode = "pop"       -> PopFormat(ops)
        [] instr.opcode \in MoveOps   -> MoveFormat(ops, w)
        [] instr.opcode = "jmp"       -> JmpFormat(ops, w)

\* tasm_validate_and_inspect: the format, "rejected" or "dropped".
InstrFormat(instr) ==
  IF WidthsConflict(instr) THEN "rejected" ELSE FormatForWidth(instr, OperandWidth(instr))

IsValid(instr) == InstrFormat(instr) \in Formats

(***************************************************************************)
(* Sizes, in trytes.                                                       *)
(***************************************************************************)
HEADER_SIZE == 2
ADDR_SIZE   == 8

ImmSize(width) == CASE width = 6  -> 1 [] width = 12 -> 2
                    [] width = 24 -> 4 [] width = 48 -> 8

\* tasm_get_instr_size; an instruction that does not validate has size 0.
InstrSize(instr) ==
  LET fmt == InstrFormat(instr)
      imm == ImmSize(OperandWidth(instr))
  IN  CASE fmt = "none"          -> HEADER_SIZE
        [] fmt = "rr"            -> HEADER_SIZE + 2
        [] fmt = "rrr"           -> HEADER_SIZE + 3
        [] fmt \in {"ri", "ir"}   -> HEADER_SIZE + 1 + imm
        [] fmt \in {"rri", "irr"} -> HEADER_SIZE + 2 + imm
        [] fmt = "rra"           -> HEADER_SIZE + 2 + ADDR_SIZE
        [] OTHER                 -> 0

\* Mutation of ImmOffset: the second register field is forgotten.
ImmOffsetShort(instr) ==
  IF InstrFormat(instr) \in {"ri", "rri", "rra"} THEN HEADER_SIZE + 1
  ELSE IF InstrFormat(instr) \in {"ir", "irr"} THEN HEADER_SIZE ELSE 0

\* tasm_get_instr_imm_offset, 0 where the code returns false: where in the
\* encoded instruction its immediate or address field starts.
ImmOffset(instr) ==
  LET fmt == InstrFormat(instr)
  IN  CASE fmt = "ri"             -> HEADER_SIZE + 1
        [] fmt \in {"rri", "rra"} -> HEADER_SIZE + 2
        [] fmt \in {"ir", "irr"}  -> HEADER_SIZE
        [] OTHER                  -> 0

ElementSize(dir) == CASE dir = "word"    -> 8 [] dir = "half"  -> 4
                      [] dir = "quarter" -> 2 [] dir = "tryte" -> 1

\* Operands of %string contribute their characters; those that are not
\* well-formed strings contribute nothing (and are reported).
CharCount(op) == IF op.kind = "str" /\ op.good THEN Len(op.chars) ELSE 0

\* Where the characters of the k-th operand of a %string start if the operands
\* are laid out one after another; at Len(ops) + 1, where they end.
StringStart(ops, k) ==
  Cardinality(UNION {{j} \X (1 .. CharCount(ops[j])) : j \in 1 .. k - 1})

\* Mutation of DirSize: a %string has one tryte per operand.
DirSizePerOperand(item) ==
  IF item.dir \in DataDirs THEN ElementSize(item.dir) * Len(item.operands)
  ELSE IF item.dir = "string" THEN Len(item.operands) ELSE 0

DirSize(item) ==
  IF item.dir \in DataDirs THEN ElementSize(item.dir) * Len(item.operands)
  ELSE IF item.dir = "string" THEN StringStart(item.operands, Len(item.operands) + 1)
  ELSE 0

\* Mutation of ItemSize: directives take no space.
ItemSizeOfInstrs(item) == IF item.kind = "instr" THEN InstrSize(item) ELSE 0

ItemSize(item) ==
  CASE item.kind = "instr"     -> InstrSize(item)
    [] item.kind = "directive" -> DirSize(item)
    [] item.kind = "label"     -> 0
=============================================================================
