----------------------------- MODULE LowerProofs -----------------------------
(***************************************************************************)
(* Lemmas about items, sizes, encodings and scopes, for all of them: what  *)
(* sema.c measures is a number of trytes, and it is how many lower.c's     *)
(* result is encoded with; and what it takes to know which label items a   *)
(* name can mean.                                                          *)
(***************************************************************************)
EXTENDS Lower, Scopes, TLAPS, FiniteSetTheorems, SequenceTheorems, WellFoundedInduction

-----------------------------------------------------------------------------
(* Items and operands *)

\* The four kinds of operand and the fields each of them has.
LEMMA OperandFacts ==
  ASSUME NEW op \in Operand
  PROVE  /\ op.kind \in {"reg", "imm", "label", "str"}
         /\ op.kind = "reg" => op.id \in STRING /\ op.width \in Widths
         /\ op.kind = "imm" => op.val \in Nat
         /\ op.kind = "label" => op.name \in STRING /\ op.is_local \in BOOLEAN
         /\ op.kind = "str" => op.chars \in Seq(Nat) /\ op.good \in BOOLEAN
BY DEF Operand

\* The three kinds of item and the fields each of them has.
LEMMA ItemFacts ==
  ASSUME NEW item \in Item
  PROVE  /\ item.kind \in {"label", "instr", "directive"}
         /\ item.kind = "label" => item.name \in STRING /\ item.is_local \in BOOLEAN
         /\ item.kind # "label" => item.operands \in Seq(Operand)
         /\ item.kind = "directive" => item.dir \in Directives
         /\ item.kind = "instr" => item \in InstrItem
BY DEF Item, LabelItem, InstrItem, DirItem

\* The fields of an instruction.
LEMMA InstrFacts ==
  ASSUME NEW instr \in InstrItem
  PROVE  /\ instr.opcode \in Opcodes
         /\ instr.width \in Widths \union {NoWidth}
         /\ instr.operands \in Seq(Operand)
BY DEF InstrItem

-----------------------------------------------------------------------------
(* Widths and sizes of instructions *)

\* An immediate takes a number of trytes, whatever the width.
LEMMA ImmSizeType ==
  ASSUME NEW w \in Widths
  PROVE  ImmSize(w) \in Nat
BY DEF ImmSize, Widths

\* Every width an operand votes for is a width.
LEMMA WidthVotesType ==
  ASSUME NEW instr \in InstrItem
  PROVE  WidthVotes(instr) \subseteq Widths
<1> SUFFICES ASSUME NEW i \in DOMAIN instr.operands, IsReg(instr.operands[i])
             PROVE  instr.operands[i].width \in Widths
  BY DEF WidthVotes, Widths
<1> QED BY InstrFacts, OperandFacts DEF IsReg

\* An instruction whose widths do not conflict has one.
LEMMA OperandWidthType ==
  ASSUME NEW instr \in InstrItem, ~WidthsConflict(instr)
  PROVE  OperandWidth(instr) \in Widths
<1>1. OperandWidth(instr) # NoWidth
  BY DEF WidthsConflict
<1>2. OperandWidth(instr) \in Widths \union {NoWidth}
  BY InstrFacts, WidthVotesType DEF OperandWidth, Widths
<1> QED BY <1>1, <1>2

\* The same of an instruction that validates.
LEMMA ValidWidth ==
  ASSUME NEW instr \in InstrItem, InstrFormat(instr) # "rejected"
  PROVE  OperandWidth(instr) \in Widths
BY OperandWidthType DEF InstrFormat

\* sema.c gives every instruction, rejected ones included, a size.
LEMMA InstrSizeType ==
  ASSUME NEW instr \in InstrItem
  PROVE  InstrSize(instr) \in Nat
<1>1. CASE InstrFormat(instr) = "rejected"
  BY <1>1 DEF InstrSize
<1>2. CASE InstrFormat(instr) # "rejected"
  <2>1. ImmSize(OperandWidth(instr)) \in Nat
    BY <1>2, ValidWidth, ImmSizeType
  <2> QED BY <2>1 DEF InstrSize, HEADER_SIZE, ADDR_SIZE
<1> QED BY <1>1, <1>2

-----------------------------------------------------------------------------
(* Encodings *)

\* How many register fields an instruction format has.
FieldCount(fmt) ==
  CASE fmt = "none" -> 0
    [] fmt \in {"ri", "ir"} -> 1
    [] fmt \in {"rr", "rri", "irr", "rra"} -> 2
    [] fmt = "rrr" -> 3

\* The head of an encoding and its register fields, put together, are as
\* long as both.
LEMMA TupleConcat ==
  ASSUME NEW a, NEW b, NEW c
  PROVE  <<a, b>> \o <<c>> = <<a, b, c>> /\ <<a, b>> \o <<>> = <<a, b>>
<1> DEFINE S == {a, b, c}
<1>1. <<a, b>> \in Seq(S) /\ <<c>> \in Seq(S) /\ <<a, b, c>> \in Seq(S)
  OBVIOUS
<1>2. /\ <<a, b>> \o <<c>> \in Seq(S)
      /\ Len(<<a, b>> \o <<c>>) = 3
      /\ \A i \in 1 .. 3 : (<<a, b>> \o <<c>>)[i] = <<a, b, c>>[i]
  BY <1>1, ConcatProperties
<1>3. <<a, b>> \o <<c>> = <<a, b, c>>
  BY <1>1, <1>2, SeqEqual
<1>4. <<a, b>> \o <<>> = <<a, b>>
  BY <1>1, ConcatEmptySeq
<1> QED BY <1>3, <1>4

\* The formats validation can give to each group of opcodes.
LEMMA FormatsOfOpcodes ==
  ASSUME NEW instr \in InstrItem, IsValid(instr)
  PROVE  LET fmt == InstrFormat(instr) IN
         /\ instr.opcode \in AluOps \union MoveOps \union {"jmp"} => fmt \in {"rrr", "rri"}
         /\ instr.opcode \in UnaryOps => fmt \in {"rr", "ri"}
         /\ instr.opcode \in StepOps => fmt = "rri"
         /\ instr.opcode \in PlainOps => fmt = "none"
         /\ instr.opcode \in LoadOps => fmt \in {"rrr", "rra"}
         /\ instr.opcode \in StoreOps => fmt \in {"rrr", "rra", "irr"}
         /\ instr.opcode \in PtrInOps \union {"pop"} => fmt = "rr"
         /\ instr.opcode \in PtrOutOps \union {"push"} => fmt \in {"rr", "ir"}
<1> DEFINE ops == instr.operands
           w == OperandWidth(instr)
           fmt == InstrFormat(instr)
<1> USE DEF AluOps, MoveOps, UnaryOps, StepOps, PlainOps, LoadOps, StoreOps,
            PtrInOps, PtrOutOps, Formats
<1>1. ~WidthsConflict(instr) /\ fmt \in Formats
  BY DEF InstrFormat, IsValid
<1>2. ASSUME NEW op, NEW rf \in Formats, NEW if \in Formats,
             ByKind(op, w, rf, if) \in Formats
      PROVE  ByKind(op, w, rf, if) \in {rf, if}
  BY <1>2 DEF ByKind
<1>3. MemFormat(ops) \in {"rrr", "rra", "rejected"}
  BY DEF MemFormat
<1>4. instr.opcode \in AluOps => fmt \in {"rrr", "rri"}
  BY <1>1, <1>2 DEF InstrFormat, FormatForWidth, AluFormat
<1>5. instr.opcode \in MoveOps => fmt \in {"rrr", "rri"}
  BY <1>1, <1>2 DEF InstrFormat, FormatForWidth, MoveFormat
<1>6. instr.opcode = "jmp" => fmt \in {"rrr", "rri"}
  BY <1>1, <1>2 DEF InstrFormat, FormatForWidth, JmpFormat
<1>7. instr.opcode \in UnaryOps => fmt \in {"rr", "ri"}
  BY <1>1, <1>2 DEF InstrFormat, FormatForWidth, UnaryFormat
<1>8. instr.opcode \in StepOps => fmt = "rri"
  BY <1>1 DEF InstrFormat, FormatForWidth, StepFormat
<1>9. instr.opcode \in PlainOps => fmt = "none"
  BY <1>1 DEF InstrFormat, FormatForWidth, PlainFormat
<1>10. instr.opcode \in LoadOps => fmt \in {"rrr", "rra"}
  BY <1>1, <1>3 DEF InstrFormat, FormatForWidth, LoadFormat
<1>11. instr.opcode \in StoreOps => fmt \in {"rrr", "rra", "irr"}
  BY <1>1, <1>3 DEF InstrFormat, FormatForWidth, StoreFormat
<1>12. instr.opcode \in PtrInOps => fmt = "rr"
  BY <1>1 DEF InstrFormat, FormatForWidth, PtrInFormat
<1>13. instr.opcode = "pop" => fmt = "rr"
  BY <1>1 DEF InstrFormat, FormatForWidth, PopFormat
<1>14. instr.opcode \in PtrOutOps => fmt \in {"rr", "ir"}
  BY <1>1, <1>2 DEF InstrFormat, FormatForWidth, PtrOutFormat
<1>15. instr.opcode = "push" => fmt \in {"rr", "ir"}
  BY <1>1, <1>2 DEF InstrFormat, FormatForWidth, PushFormat
<1> QED BY <1>4, <1>5, <1>6, <1>7, <1>8, <1>9, <1>10, <1>11, <1>12, <1>13, <1>14, <1>15

\* Lowering fills as many register fields as the format has.
LEMMA RegFieldsLength ==
  ASSUME NEW instr \in InstrItem, IsValid(instr)
  PROVE  Len(RegFields(instr)) = FieldCount(InstrFormat(instr))
<1> DEFINE ops == instr.operands
           n == Len(ops)
           fmt == InstrFormat(instr)
<1> USE DEF AluOps, MoveOps, UnaryOps, StepOps, PlainOps, LoadOps, StoreOps,
            PtrInOps, PtrOutOps, FieldCount
<1>1. CASE instr.opcode \in AluOps
  BY <1>1, FormatsOfOpcodes, TupleConcat DEF RegFields, FieldsIn
<1>2. CASE instr.opcode = "set"
  BY <1>2, FormatsOfOpcodes, TupleConcat DEF RegFields, FieldsIn
<1>3. CASE instr.opcode = "cmp"
  BY <1>3, FormatsOfOpcodes, TupleConcat DEF RegFields, FieldsIn
<1>4. CASE instr.opcode = "jmp"
  BY <1>4, FormatsOfOpcodes, TupleConcat DEF RegFields, FieldsIn
<1>5. CASE instr.opcode \in PlainOps \union UnaryOps \union StepOps
  BY <1>5, FormatsOfOpcodes DEF RegFields, FieldsIn
<1>6. CASE instr.opcode \in LoadOps \union StoreOps
  BY <1>6, FormatsOfOpcodes DEF RegFields, FieldsIn
<1>7. CASE instr.opcode \in PtrInOps \union PtrOutOps \union {"push", "pop"}
  BY <1>7, FormatsOfOpcodes DEF RegFields, FieldsIn
<1>8. instr.opcode \in Opcodes
  BY InstrFacts
<1> QED BY <1>1, <1>2, <1>3, <1>4, <1>5, <1>6, <1>7, <1>8 DEF Opcodes

\* Concatenating sequences of whatever elements adds up their lengths.
LEMMA ConcatLength ==
  ASSUME NEW S, NEW T, NEW s \in Seq(S), NEW t \in Seq(T)
  PROVE  s \o t \in Seq(S \union T) /\ Len(s \o t) = Len(s) + Len(t)
<1>1. s \in Seq(S \union T) /\ t \in Seq(S \union T)
  BY SeqMonotonic
<1> QED BY <1>1, ConcatProperties

\* What tasm_get_instr_size measures is how many trytes tc48_encode writes of
\* the lowered instruction, whatever the value in its immediate field.
LEMMA EncodingLength ==
  ASSUME NEW instr \in InstrItem, IsValid(instr), NEW val
  PROVE  /\ \E S : Encoding(instr, val) \in Seq(S)
         /\ Len(Encoding(instr, val)) = InstrSize(instr)
<1> DEFINE fmt  == InstrFormat(instr)
           w    == OperandWidth(instr)
           r    == Len(RegFields(instr))
           v    == FieldSize(instr)
           head == Header(instr)
           regs == [k \in 1 .. r |-> [reg |-> RegFields(instr)[k]]]
           imm  == ValueTrytes(val, v)
           H    == {head[k] : k \in 1 .. HEADER_SIZE}
           R    == {regs[k] : k \in 1 .. r}
           V    == {imm[k] : k \in 1 .. v}
<1>1. fmt \in Formats /\ fmt # "rejected"
  BY DEF IsValid, Formats
<1>2. r \in Nat /\ r = FieldCount(fmt)
  BY <1>1, RegFieldsLength DEF FieldCount, Formats
<1>3. ImmSize(w) \in Nat
  BY <1>1, ValidWidth, ImmSizeType
<1>4. v \in Nat
  BY <1>3 DEF FieldSize, ADDR_SIZE
<1>5. HEADER_SIZE + r + v = InstrSize(instr)
  BY <1>1, <1>2, <1>3 DEF FieldSize, FieldCount, InstrSize, HEADER_SIZE, ADDR_SIZE, Formats
<1>6. head \in Seq(H) /\ Len(head) = HEADER_SIZE
  BY DEF Header, HEADER_SIZE
<1>7. regs \in Seq(R) /\ Len(regs) = r
  BY <1>2
<1>8. imm \in Seq(V) /\ Len(imm) = v
  BY <1>4 DEF ValueTrytes
<1> HIDE DEF head, regs, imm, H, R, V, r, v
<1>9. imm \o regs \in Seq(V \union R) /\ Len(imm \o regs) = v + r
  BY <1>7, <1>8, ConcatLength
<1>10. regs \o imm \in Seq(R \union V) /\ Len(regs \o imm) = r + v
  BY <1>7, <1>8, ConcatLength
<1>11. Encoding(instr, val) = head \o (IF fmt \in {"ir", "irr"} THEN imm \o regs ELSE regs \o imm)
  BY DEF Encoding, RegTrytes, head, regs, imm, r, v
<1>12. CASE fmt \in {"ir", "irr"}
  <2>1. /\ head \o (imm \o regs) \in Seq(H \union (V \union R))
        /\ Len(head \o (imm \o regs)) = HEADER_SIZE + (v + r)
    BY <1>6, <1>9, ConcatLength, SMTT(30)
  <2> QED BY <2>1, <1>2, <1>4, <1>5, <1>11, <1>12 DEF HEADER_SIZE
<1>13. CASE fmt \notin {"ir", "irr"}
  <2>1. /\ head \o (regs \o imm) \in Seq(H \union (R \union V))
        /\ Len(head \o (regs \o imm)) = HEADER_SIZE + (r + v)
    BY <1>6, <1>10, ConcatLength, SMTT(30)
  <2> QED BY <2>1, <1>2, <1>4, <1>5, <1>11, <1>13 DEF HEADER_SIZE
<1> QED BY <1>12, <1>13

-----------------------------------------------------------------------------
(* The operand of the immediate field *)

\* It is one of the instruction's operands.
LEMMA ImmOperandIsOperand ==
  ASSUME NEW instr \in InstrItem, IsValid(instr), ImmOperand(instr) # NoOperand
  PROVE  /\ \E k \in 1 .. Len(instr.operands) : ImmOperand(instr) = instr.operands[k]
         /\ ImmOperand(instr) \in Operand
<1> DEFINE ops == instr.operands
           n == Len(ops)
           w == OperandWidth(instr)
           fmt == InstrFormat(instr)
<1> USE DEF AluOps, MoveOps, UnaryOps, StepOps, PlainOps, LoadOps, StoreOps,
            PtrInOps, PtrOutOps, Formats
<1>1. ops \in Seq(Operand) /\ n \in Nat /\ instr.opcode \in Opcodes
  BY InstrFacts
<1>2. ~WidthsConflict(instr) /\ fmt \in Formats
  BY DEF InstrFormat, IsValid
<1>3. n > 0
  <2>1. CASE instr.opcode \in AluOps \union UnaryOps
    BY <1>1, <1>2, <2>1 DEF InstrFormat, FormatForWidth, AluFormat, UnaryFormat
  <2>2. CASE instr.opcode \in StoreOps \union PtrInOps \union PtrOutOps
    BY <1>1, <1>2, <2>2 DEF InstrFormat, FormatForWidth, StoreFormat, PtrInFormat, PtrOutFormat
  <2>3. CASE instr.opcode \in MoveOps \union {"push", "pop", "jmp"}
    BY <1>1, <1>2, <2>3 DEF InstrFormat, FormatForWidth, PushFormat, PopFormat, MoveFormat, JmpFormat
  <2>4. CASE instr.opcode \in PlainOps
    BY <2>4, FormatsOfOpcodes DEF ImmOperand
  <2>5. CASE instr.opcode \in StepOps \union LoadOps
    BY <1>1, <1>2, <2>5 DEF InstrFormat, FormatForWidth, StepFormat, LoadFormat
  <2> QED BY <1>1, <2>1, <2>2, <2>3, <2>4, <2>5 DEF Opcodes
<1>4. CASE fmt = "rra"
  <2>1. MemFormat(ops) = "rra" /\ n \in {2, 3}
    <3>1. instr.opcode \in LoadOps \union StoreOps
      BY <1>1, <1>4, FormatsOfOpcodes DEF Opcodes
    <3> QED BY <1>2, <1>4, <3>1 DEF InstrFormat, FormatForWidth, LoadFormat, StoreFormat
  <2>2. \E k \in 2 .. n : ~IsReg(ops[k])
    BY <2>1 DEF MemFormat
  <2>3. IsReg(ops[2]) => n = 3
    BY <2>1, <2>2
  <2> QED BY <1>1, <1>4, <2>1, <2>3 DEF ImmOperand
<1>5. CASE fmt # "rra"
  BY <1>1, <1>3, <1>5 DEF ImmOperand
<1> QED BY <1>4, <1>5

\* At most one operand is no register, and that one is it: the resolver is
\* called for it, and never for a register.
LEMMA OnlyOneIsNoRegister ==
  ASSUME NEW instr \in InstrItem, IsValid(instr)
  PROVE  LET ops == instr.operands
             others == {k \in DOMAIN ops : ~IsReg(ops[k])}
         IN  \/ others = {} /\ ImmOperand(instr) = NoOperand
             \/ \E k \in DOMAIN ops : /\ others = {k} /\ ImmOperand(instr) = ops[k]
                                      /\ ops[k] # NoOperand
                                      /\ InstrFormat(instr) \in {"ri", "ir", "rri", "irr", "rra"}
                                      /\ InstrFormat(instr) # "rra" =>
                                           IsImm(ops[k]) \/ IsLabel(ops[k])
                                      /\ InstrFormat(instr) # "rra" /\ IsLabel(ops[k]) =>
                                           OperandWidth(instr) = 48
<1> DEFINE ops == instr.operands
           n == Len(ops)
           w == OperandWidth(instr)
           fmt == InstrFormat(instr)
           others == {k \in DOMAIN ops : ~IsReg(ops[k])}
           Is(k) == /\ others = {k} /\ ImmOperand(instr) = ops[k]
                    /\ ops[k] # NoOperand
                    /\ fmt \in {"ri", "ir", "rri", "irr", "rra"}
                    /\ fmt # "rra" => IsImm(ops[k]) \/ IsLabel(ops[k])
                    /\ fmt # "rra" /\ IsLabel(ops[k]) => w = 48
           Goal == \/ others = {} /\ ImmOperand(instr) = NoOperand
                   \/ \E k \in DOMAIN ops : Is(k)
<1> SUFFICES Goal
  OBVIOUS
<1> USE DEF AluOps, MoveOps, UnaryOps, StepOps, PlainOps, LoadOps, StoreOps,
            PtrInOps, PtrOutOps, Formats
<1>1. ops \in Seq(Operand) /\ n \in Nat /\ DOMAIN ops = 1 .. n /\ instr.opcode \in Opcodes
  BY InstrFacts
<1>2. ~WidthsConflict(instr) /\ fmt \in Formats /\ fmt = FormatForWidth(instr, w)
  BY DEF InstrFormat, IsValid
<1>3. ASSUME NEW k \in DOMAIN ops PROVE ops[k] # NoOperand
  <2>1. ops[k] \in Operand
    BY <1>1
  <2> QED BY <2>1, OperandFacts DEF NoOperand
<1>4. ASSUME NEW op, NEW rf, NEW if, ByKind(op, w, rf, if) \in Formats
      PROVE  \/ IsReg(op) /\ ByKind(op, w, rf, if) = rf
             \/ ~IsReg(op) /\ ByKind(op, w, rf, if) = if /\ (IsImm(op) \/ IsLabel(op))
                /\ (IsLabel(op) => w = 48)
  BY <1>4 DEF ByKind, IsReg, IsImm, IsLabel
<1> HIDE DEF w
<1>5. CASE instr.opcode \in AluOps
  <2>1. n \in {2, 3} /\ AllRegs(ops, 1, n - 1) /\ fmt = ByKind(ops[n], w, "rrr", "rri")
    BY <1>2, <1>5 DEF FormatForWidth, AluFormat
  <2>2. CASE IsReg(ops[n])
    BY <1>1, <1>2, <1>4, <2>1, <2>2 DEF AllRegs, ImmOperand
  <2>3. CASE ~IsReg(ops[n])
    <3>1. fmt = "rri" /\ (IsImm(ops[n]) \/ IsLabel(ops[n])) /\ (IsLabel(ops[n]) => w = 48)
      BY <1>2, <1>4, <2>1, <2>3
    <3>2. others = {n} /\ n \in DOMAIN ops
      <4> HIDE DEF n
      <4> HIDE DEF ops
      <4>1. DOMAIN ops = 1 .. n /\ n \in {2, 3}
        BY <1>1, <2>1
      <4>2. \A k \in 1 .. n - 1 : IsReg(ops[k])
        BY <2>1 DEF AllRegs
      <4>3. \A k \in DOMAIN ops : k # n => k \in 1 .. n - 1
        BY <4>1
      <4>4. n \in DOMAIN ops
        BY <4>1
      <4> QED BY <2>3, <4>2, <4>3, <4>4 DEF ops
    <3>3. ImmOperand(instr) = ops[n]
      BY <1>5, <3>1 DEF ImmOperand
    <3> QED BY <1>3, <3>1, <3>2, <3>3
  <2> QED BY <2>2, <2>3
<1>6. CASE instr.opcode \in UnaryOps
  <2>1. n \in {1, 2} /\ IsReg(ops[1]) /\ fmt = ByKind(ops[n], w, "rr", "ri")
    BY <1>2, <1>6 DEF FormatForWidth, UnaryFormat
  <2>2. CASE IsReg(ops[n])
    BY <1>1, <1>2, <1>4, <2>1, <2>2 DEF ImmOperand
  <2>3. CASE ~IsReg(ops[n])
    <3>1. fmt = "ri" /\ (IsImm(ops[n]) \/ IsLabel(ops[n])) /\ (IsLabel(ops[n]) => w = 48)
      BY <1>2, <1>4, <2>1, <2>3
    <3>2. others = {n} /\ n \in DOMAIN ops
      BY <1>1, <2>1, <2>3
    <3>3. ImmOperand(instr) = ops[n]
      BY <1>6, <3>1 DEF ImmOperand
    <3> QED BY <1>3, <3>1, <3>2, <3>3
  <2> QED BY <2>2, <2>3
<1>7. CASE instr.opcode \in StepOps
  <2>1. AllRegs(ops, 1, n)
    BY <1>2, <1>7 DEF FormatForWidth, StepFormat
  <2>2. others = {}
    BY <1>1, <2>1 DEF AllRegs
  <2> QED BY <1>7, <2>2 DEF ImmOperand
<1>8. CASE instr.opcode \in PlainOps
  <2>1. ops = <<>> /\ fmt = "none"
    BY <1>2, <1>8 DEF FormatForWidth, PlainFormat
  <2> QED BY <2>1 DEF ImmOperand
<1>9. ASSUME IsReg(ops[1]), n \in {2, 3}, fmt = MemFormat(ops),
             instr.opcode \in LoadOps \union StoreOps
      PROVE  Goal
  <2> DEFINE far == {k \in 2 .. n : ~IsReg(ops[k])}
  <2>1. far = others
    BY <1>1, <1>9
  <2>2. CASE far = {}
    <3>1. fmt = "rrr"
      BY <1>9, <2>2 DEF MemFormat
    <3> QED BY <2>1, <2>2, <3>1 DEF ImmOperand
  <2>3. CASE far # {}
    <3>1. fmt = "rra"
      BY <1>2, <1>9, <2>3 DEF MemFormat
    <3>2. \E k \in far : far = {k}
      BY <1>2, <1>9, <2>3 DEF MemFormat
    <3>3. PICK k \in far : far = {k}
      BY <3>2
    <3>4. k \in 2 .. 3 /\ k \in DOMAIN ops /\ ~IsReg(ops[k])
      BY <1>1, <1>9, <3>3
    <3>5. IsReg(ops[2]) <=> k = 3
      <4>1. 2 \in far <=> ~IsReg(ops[2])
        BY <1>9
      <4> HIDE DEF far
      <4> QED BY <3>3, <3>4, <4>1
    <3>6. ImmOperand(instr) = ops[k]
      BY <1>9, <3>1, <3>4, <3>5 DEF ImmOperand
    <3> QED BY <1>3, <2>1, <3>1, <3>3, <3>4, <3>6
  <2> QED BY <2>2, <2>3
<1>10. CASE instr.opcode \in LoadOps
  <2>1. IsReg(ops[1]) /\ n \in {2, 3} /\ fmt = MemFormat(ops)
    BY <1>2, <1>10 DEF FormatForWidth, LoadFormat
  <2> HIDE DEF Goal
  <2> QED BY <1>9, <1>10, <2>1
<1>11. CASE instr.opcode \in StoreOps
  <2>1. n \in {2, 3}
    BY <1>2, <1>11 DEF FormatForWidth, StoreFormat
  <2>2. CASE IsReg(ops[1])
    <3>1. fmt = MemFormat(ops)
      BY <1>2, <1>11, <2>1, <2>2 DEF FormatForWidth, StoreFormat
    <3> HIDE DEF Goal
    <3> QED BY <1>9, <1>11, <2>1, <2>2, <3>1
  <2>3. CASE ~IsReg(ops[1])
    <3>1. /\ IsImm(ops[1]) \/ (IsLabel(ops[1]) /\ w = 48)
          /\ AllRegs(ops, 2, n) /\ fmt = "irr"
      BY <1>2, <1>11, <2>1, <2>3 DEF FormatForWidth, StoreFormat
    <3>2. others = {1} /\ 1 \in DOMAIN ops
      BY <1>1, <2>1, <2>3, <3>1 DEF AllRegs
    <3>3. ImmOperand(instr) = ops[1]
      BY <1>11, <3>1 DEF ImmOperand
    <3>4. IsLabel(ops[1]) => w = 48
      BY <3>1 DEF IsImm, IsLabel
    <3> QED BY <1>3, <3>1, <3>2, <3>3, <3>4
  <2> QED BY <2>2, <2>3
<1>12. CASE instr.opcode \in PtrInOps
  <2>1. n = 2 /\ AllRegs(ops, 1, 2) /\ fmt = "rr"
    BY <1>2, <1>12 DEF FormatForWidth, PtrInFormat
  <2>2. others = {}
    BY <1>1, <2>1 DEF AllRegs
  <2> QED BY <2>1, <2>2 DEF ImmOperand
<1>13. CASE instr.opcode \in PtrOutOps
  <2>1. n = 2 /\ IsReg(ops[2]) /\ fmt = ByKind(ops[1], w, "rr", "ir")
    BY <1>2, <1>13 DEF FormatForWidth, PtrOutFormat
  <2>2. CASE IsReg(ops[1])
    BY <1>1, <1>2, <1>4, <2>1, <2>2 DEF ImmOperand
  <2>3. CASE ~IsReg(ops[1])
    <3>1. fmt = "ir" /\ (IsImm(ops[1]) \/ IsLabel(ops[1])) /\ (IsLabel(ops[1]) => w = 48)
      BY <1>2, <1>4, <2>1, <2>3
    <3>2. others = {1} /\ 1 \in DOMAIN ops
      BY <1>1, <2>1, <2>3
    <3>3. ImmOperand(instr) = ops[1]
      BY <1>13, <3>1 DEF ImmOperand
    <3> QED BY <1>3, <3>1, <3>2, <3>3
  <2> QED BY <2>2, <2>3
<1>14. CASE instr.opcode = "push"
  <2>1. n = 1 /\ fmt = ByKind(ops[1], w, "rr", "ir")
    BY <1>2, <1>14 DEF FormatForWidth, PushFormat
  <2>2. CASE IsReg(ops[1])
    BY <1>1, <1>2, <1>4, <2>1, <2>2 DEF ImmOperand
  <2>3. CASE ~IsReg(ops[1])
    <3>1. fmt = "ir" /\ (IsImm(ops[1]) \/ IsLabel(ops[1])) /\ (IsLabel(ops[1]) => w = 48)
      BY <1>2, <1>4, <2>1, <2>3
    <3>2. others = {1} /\ 1 \in DOMAIN ops
      BY <1>1, <2>1, <2>3
    <3>3. ImmOperand(instr) = ops[1]
      BY <1>14, <3>1 DEF ImmOperand
    <3> QED BY <1>3, <3>1, <3>2, <3>3
  <2> QED BY <2>2, <2>3
<1>15. CASE instr.opcode = "pop"
  <2>1. n = 1 /\ IsReg(ops[1]) /\ fmt = "rr"
    BY <1>2, <1>15 DEF FormatForWidth, PopFormat
  <2> QED BY <1>1, <2>1 DEF ImmOperand
<1>16. CASE instr.opcode \in MoveOps
  <2>1. n = 2 /\ IsReg(ops[1]) /\ fmt = ByKind(ops[2], w, "rrr", "rri")
    BY <1>2, <1>16 DEF FormatForWidth, MoveFormat
  <2>2. CASE IsReg(ops[2])
    BY <1>1, <1>2, <1>4, <2>1, <2>2 DEF ImmOperand
  <2>3. CASE ~IsReg(ops[2])
    <3>1. fmt = "rri" /\ (IsImm(ops[2]) \/ IsLabel(ops[2])) /\ (IsLabel(ops[2]) => w = 48)
      BY <1>2, <1>4, <2>1, <2>3
    <3>2. others = {2} /\ 2 \in DOMAIN ops
      BY <1>1, <2>1, <2>3
    <3>3. ImmOperand(instr) = ops[2]
      BY <1>16, <2>1, <3>1 DEF ImmOperand
    <3> QED BY <1>3, <3>1, <3>2, <3>3
  <2> QED BY <2>2, <2>3
<1>17. CASE instr.opcode = "jmp"
  <2>1. n = 1 /\ fmt = ByKind(ops[1], w, "rrr", "rri")
    BY <1>2, <1>17 DEF FormatForWidth, JmpFormat
  <2>2. CASE IsReg(ops[1])
    BY <1>1, <1>2, <1>4, <2>1, <2>2 DEF ImmOperand
  <2>3. CASE ~IsReg(ops[1])
    <3>1. fmt = "rri" /\ (IsImm(ops[1]) \/ IsLabel(ops[1])) /\ (IsLabel(ops[1]) => w = 48)
      BY <1>2, <1>4, <2>1, <2>3
    <3>2. others = {1} /\ 1 \in DOMAIN ops
      BY <1>1, <2>1, <2>3
    <3>3. ImmOperand(instr) = ops[1]
      BY <1>17, <2>1, <3>1 DEF ImmOperand
    <3> QED BY <1>3, <3>1, <3>2, <3>3
  <2> QED BY <2>2, <2>3
<1> HIDE DEF Goal
<1> QED BY <1>1, <1>5, <1>6, <1>7, <1>8, <1>10, <1>11, <1>12, <1>13, <1>14, <1>15, <1>16,
           <1>17 DEF Opcodes

-----------------------------------------------------------------------------
(* Numbers and sizes of items *)

\* The first of some numbers, as the loops of the code find it.
LEMMA LeastExists ==
  ASSUME NEW S \in SUBSET Nat, S # {}
  PROVE  \E k \in S : \A l \in S : k <= l
<1>1. PICK k \in S : \A l \in S : ~ (<<l, k>> \in OpToRel(<, Nat))
  BY NatLessThanWellFounded, WFMin
<1>2. ASSUME NEW l \in S, l < k PROVE FALSE
  <2>1. <<l, k>> \in Nat \X Nat /\ <<l, k>>[1] < <<l, k>>[2]
    BY <1>2
  <2>2. <<l, k>> \in OpToRel(<, Nat)
    BY <2>1, Zenon DEF OpToRel
  <2> QED BY <1>1, <2>2
<1> QED BY <1>2

\* A string that does not decode counts no characters, any other its own.
LEMMA CharCountType ==
  ASSUME NEW op \in Operand
  PROVE  CharCount(op) \in Nat
BY OperandFacts DEF CharCount

\* The characters of a list of operands are finitely many.
LEMMA StringCharsFinite ==
  ASSUME NEW ops \in Seq(Operand), NEW k \in 1 .. Len(ops) + 1
  PROVE  IsFiniteSet(UNION {{j} \X (1 .. CharCount(ops[j])) : j \in 1 .. k - 1})
<1> DEFINE Chars(j) == {j} \X (1 .. CharCount(ops[j]))
           D == 1 .. k - 1
           f == [j \in D |-> Chars(j)]
           T == {Chars(j) : j \in D}
<1>1. Len(ops) \in Nat /\ D \subseteq 1 .. Len(ops)
  OBVIOUS
<1>2. IsFiniteSet(D)
  BY <1>1, FS_Interval
<1>3. f \in Surjection(D, T)
  BY DEF Surjection
<1>4. IsFiniteSet(T)
  <2> HIDE DEF D, f, T
  <2> QED BY <1>2, <1>3, FS_Surjection
<1>5. ASSUME NEW j \in D PROVE IsFiniteSet(Chars(j))
  <2>1. ops[j] \in Operand
    BY <1>1
  <2>2. CharCount(ops[j]) \in Nat
    BY <2>1, CharCountType
  <2>3. IsFiniteSet(1 .. CharCount(ops[j]))
    BY <2>2, FS_Interval
  <2>4. IsFiniteSet({j})
    BY FS_Singleton
  <2> QED BY <2>3, <2>4, FS_Product
<1> QED BY <1>4, <1>5, FS_UNION

\* So they can be counted: a string starts at a number.
LEMMA StringStartType ==
  ASSUME NEW ops \in Seq(Operand), NEW k \in 1 .. Len(ops) + 1
  PROVE  StringStart(ops, k) \in Nat
BY StringCharsFinite, FS_CardinalityType DEF StringStart

\* Where a string starts does not decrease along the operands.
LEMMA StringStartMonotone ==
  ASSUME NEW ops \in Seq(Operand), NEW k \in 1 .. Len(ops) + 1
  PROVE  StringStart(ops, k) <= StringStart(ops, Len(ops) + 1)
<1> DEFINE Chars(j) == {j} \X (1 .. CharCount(ops[j]))
           Upto(n) == UNION {Chars(j) : j \in 1 .. n - 1}
<1>1. Len(ops) \in Nat /\ Len(ops) + 1 \in 1 .. Len(ops) + 1
  OBVIOUS
<1>2. 1 .. k - 1 \subseteq 1 .. (Len(ops) + 1) - 1
  BY <1>1
<1>3. Upto(k) \subseteq Upto(Len(ops) + 1)
  BY <1>2
<1>4. /\ StringStart(ops, k) = Cardinality(Upto(k))
      /\ StringStart(ops, Len(ops) + 1) = Cardinality(Upto(Len(ops) + 1))
  BY DEF StringStart
<1>5. IsFiniteSet(Upto(Len(ops) + 1))
  BY <1>1, StringCharsFinite
<1> HIDE DEF Upto
<1> QED BY <1>3, <1>4, <1>5, FS_Subset

\* The sizes of data elements.
LEMMA ElementSizeType ==
  ASSUME NEW dir \in DataDirs
  PROVE  ElementSize(dir) \in {1, 2, 4, 8}
BY DEF DataDirs, ElementSize

\* Pass 1 can add every item's size to its address.
LEMMA ItemSizeType ==
  ASSUME NEW item \in Item
  PROVE  ItemSize(item) \in Nat
<1>1. CASE item.kind = "label"
  BY <1>1 DEF ItemSize
<1>2. CASE item.kind = "instr"
  BY <1>2, ItemFacts, InstrSizeType DEF ItemSize
<1>3. CASE item.kind = "directive"
  <2>1. item.operands \in Seq(Operand) /\ Len(item.operands) \in Nat
    BY <1>3, ItemFacts
  <2>2. item.dir \in DataDirs => ElementSize(item.dir) * Len(item.operands) \in Nat
    BY <2>1, ElementSizeType
  <2>3. StringStart(item.operands, Len(item.operands) + 1) \in Nat
    BY <2>1, StringStartType
  <2> QED BY <1>3, <2>2, <2>3 DEF ItemSize, DirSize
<1> QED BY <1>1, <1>2, <1>3, ItemFacts

-----------------------------------------------------------------------------
(* Trytes *)

\* A data directive stores its element size for each resolved operand.
LEMMA DataTrytesLength ==
  ASSUME NEW unit \in {1, 2, 4, 8}, NEW n \in Nat, NEW vals, vals = [k \in 1 .. n |-> vals[k]]
  PROVE  Len(DataTrytes(unit, vals)) = unit * n /\ unit * n \in Nat
<1>1. Len(vals) = n
  OBVIOUS
<1>2. unit * n \in Nat
  OBVIOUS
<1> QED BY <1>1, <1>2 DEF DataTrytes

\* A %string stores as many trytes as start before the operand it stops at.
LEMMA StringTrytesLength ==
  ASSUME NEW ops \in Seq(Operand), NEW n \in 0 .. Len(ops)
  PROVE  Len(StringTrytes(ops, n)) = StringStart(ops, n + 1) /\ StringStart(ops, n + 1) \in Nat
<1>1. StringStart(ops, n + 1) \in Nat
  BY StringStartType
<1> QED BY <1>1 DEF StringTrytes

-----------------------------------------------------------------------------
(* Scopes *)

\* s is the last global label before item j, 0 if there is none.
Encloses(p, j, s) ==
  /\ s \in Nat /\ s < j
  /\ s # NoItem => s \in DOMAIN p /\ IsGlobalLabel(p[s])
  /\ \A h \in DOMAIN p : IsGlobalLabel(p[h]) /\ h < j => h <= s

\* Two items are in the same scope if the same global label encloses them.
LEMMA SameEnclosing ==
  ASSUME NEW p \in Seq(Item), NEW d \in DOMAIN p, NEW j \in DOMAIN p, NEW s, NEW t,
         Encloses(p, d, s), Encloses(p, j, t)
  PROVE  SameScope(p, d, j) <=> s = t
<1>1. DOMAIN p \subseteq Nat
  OBVIOUS
<1>2. ASSUME s = t PROVE SameScope(p, d, j)
  BY <1>1, <1>2 DEF Encloses, SameScope
<1>3. ASSUME SameScope(p, d, j) PROVE s <= t /\ t <= s
  BY <1>1, <1>3 DEF Encloses, SameScope, NoItem
<1> QED BY <1>2, <1>3 DEF Encloses

\* What passing over an item does to the scope.
LEMMA EnclosesNext ==
  ASSUME NEW p \in Seq(Item), NEW j \in DOMAIN p, NEW s, Encloses(p, j, s)
  PROVE  /\ IsGlobalLabel(p[j]) => Encloses(p, j + 1, j)
         /\ ~IsGlobalLabel(p[j]) => Encloses(p, j + 1, s)
<1>1. DOMAIN p \subseteq Nat \ {0}
  OBVIOUS
<1>2. ASSUME NEW h \in DOMAIN p, h < j + 1, h # j PROVE h < j
  BY <1>1, <1>2
<1> QED BY <1>1, <1>2 DEF Encloses, NoItem

\* No item is before the first.
LEMMA EnclosesFirst ==
  ASSUME NEW p \in Seq(Item)
  PROVE  Encloses(p, 1, NoItem)
BY DEF Encloses, NoItem
=============================================================================
