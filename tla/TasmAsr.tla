------------------------------ MODULE TasmAsr ------------------------------
(***************************************************************************)
(* The assembler's intermediate form (src/include/tasm/asr/): the items    *)
(* the parser appends to the ASR buffer and both back ends walk.           *)
(*                                                                         *)
(* An item's id is its index in the buffer.  C counts from 0 and uses      *)
(* (usize)-1 for "no item"; here ids count from 1 and NoItem is 0.         *)
(***************************************************************************)
EXTENDS Integers, Sequences

NoItem == 0

(***************************************************************************)
(* Operands.  NoWidth is TASM_WIDTH_NONE; widths are numbers of trits.     *)
(* Integer literals carry no sign (the lexer knows no '-').  A string      *)
(* operand has its characters, and whether its escapes all decode.         *)
(***************************************************************************)
NoWidth == 0
Widths  == {6, 12, 24, 48}

Reg(id, width)        == [kind |-> "reg", id |-> id, width |-> width]
Imm(val)              == [kind |-> "imm", val |-> val]
Label(name, is_local) == [kind |-> "label", name |-> name, is_local |-> is_local]
Str(chars, good)      == [kind |-> "str", chars |-> chars, good |-> good]

Operand ==
         [kind : {"reg"}, id : STRING, width : Widths]
  \union [kind : {"imm"}, val : Nat]
  \union [kind : {"label"}, name : STRING, is_local : BOOLEAN]
  \union [kind : {"str"}, chars : Seq(Nat), good : BOOLEAN]

IsReg(op)   == op.kind = "reg"
IsImm(op)   == op.kind = "imm"
IsLabel(op) == op.kind = "label"

(***************************************************************************)
(* Opcodes, grouped as the switch of tasm_validate_and_inspect groups      *)
(* them, and directives.                                                   *)
(***************************************************************************)
AluOps    == {"min", "max", "rot", "shr", "shl", "add", "sub",
              "umul", "smul", "udiv", "sdiv"}
UnaryOps  == {"not", "neg"}
StepOps   == {"inc", "dec"}
PlainOps  == {"halt", "nop"}
LoadOps   == {"load", "in"}
StoreOps  == {"store", "out"}
PtrInOps  == {"din", "dload"}
PtrOutOps == {"iout", "istore"}
MoveOps   == {"set", "cmp"}

Opcodes == AluOps \union UnaryOps \union StepOps \union PlainOps \union LoadOps
           \union StoreOps \union PtrInOps \union PtrOutOps \union MoveOps
           \union {"push", "pop", "jmp"}

DataDirs    == {"word", "half", "quarter", "tryte"}
BindingDirs == {"global", "local", "weak"}
Directives  == DataDirs \union BindingDirs
               \union {"string", "org", "section", "extern"}

(***************************************************************************)
(* Items.                                                                  *)
(***************************************************************************)
LabelItem == [kind : {"label"}, name : STRING, is_local : BOOLEAN]
InstrItem == [kind : {"instr"}, opcode : Opcodes, width : Widths \union {NoWidth},
              wcfr : {"none", "stat", "full"}, operands : Seq(Operand)]
DirItem   == [kind : {"directive"}, dir : Directives, operands : Seq(Operand)]

Item == LabelItem \union InstrItem \union DirItem

Def(name, is_local)     == [kind |-> "label", name |-> name, is_local |-> is_local]
Instr(op, width, opnds) == [kind |-> "instr", opcode |-> op, width |-> width,
                            wcfr |-> "none", operands |-> opnds]
Dir(dir, opnds)         == [kind |-> "directive", dir |-> dir, operands |-> opnds]

IsDir(item, dirs)     == item.kind = "directive" /\ item.dir \in dirs
IsGlobalLabel(item)   == item.kind = "label" /\ ~item.is_local
=============================================================================
