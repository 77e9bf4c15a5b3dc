-------------------------- MODULE InstrPathProofs --------------------------
(***************************************************************************)
(* Proofs about the path of an instruction: for all instructions, not only *)
(* the small ones TLC enumerates, every pass finds the space that pass 1   *)
(* reserved to be as long as what it writes there; what it writes has      *)
(* every operand in it, a label with its whole address, at the one place   *)
(* that is relocated; and what it does not write was reported.             *)
(***************************************************************************)
EXTENDS InstrPath, LowerProofs

-----------------------------------------------------------------------------
(* The immediate field *)

\* A sequence is the part of another that begins after so many elements.
Stands(part, s, offset) == SubSeq(s, offset + 1, offset + Len(part)) = part

\* In three sequences put together, the second stands after the first, and the
\* third after both.
LEMMA PartsOfConcat ==
  ASSUME NEW W, NEW s \in Seq(W), NEW t \in Seq(W), NEW u \in Seq(W)
  PROVE  /\ Stands(t, s \o (t \o u), Len(s))
         /\ Stands(u, s \o (t \o u), Len(s) + Len(t))
<1> DEFINE m == Len(s) + Len(t)
           c == s \o (t \o u)
           x == SubSeq(c, Len(s) + 1, Len(s) + Len(t))
           y == SubSeq(c, m + 1, m + Len(u))
<1>1. s \in Seq(W) /\ t \in Seq(W) /\ u \in Seq(W)
  OBVIOUS
<1>2. Len(s) \in Nat /\ Len(t) \in Nat /\ Len(u) \in Nat
  OBVIOUS
<1>3. /\ t \o u \in Seq(W) /\ Len(t \o u) = Len(t) + Len(u)
      /\ \A k \in 1 .. Len(t) + Len(u) :
           (t \o u)[k] = IF k <= Len(t) THEN t[k] ELSE u[k - Len(t)]
  BY <1>1, ConcatProperties
<1> DEFINE d == t \o u
<1> HIDE DEF d
<1>4. /\ s \o d \in Seq(W) /\ Len(s \o d) = Len(s) + Len(d)
      /\ \A k \in 1 .. Len(s) + Len(d) :
           (s \o d)[k] = IF k <= Len(s) THEN s[k] ELSE d[k - Len(s)]
  BY <1>1, <1>3, ConcatProperties DEF d
<1>5. c = s \o d
  BY DEF d
<1> HIDE DEF c
<1>6. /\ c \in Seq(W) /\ Len(c) = Len(s) + Len(t) + Len(u)
      /\ \A k \in 1 .. Len(t) + Len(u) :
           c[Len(s) + k] = IF k <= Len(t) THEN t[k] ELSE u[k - Len(t)]
  <2>1. Len(d) = Len(t) + Len(u)
      /\ \A k \in 1 .. Len(t) + Len(u) : d[k] = IF k <= Len(t) THEN t[k] ELSE u[k - Len(t)]
    BY <1>3 DEF d
  <2>2. ASSUME NEW k \in 1 .. Len(t) + Len(u) PROVE c[Len(s) + k] = d[k]
    <3>1. /\ Len(s) + k \in 1 .. Len(s) + Len(d) /\ ~(Len(s) + k <= Len(s))
          /\ (Len(s) + k) - Len(s) = k
      BY <1>2, <2>1
    <3> QED BY <1>4, <1>5, <3>1
  <2> QED BY <1>2, <1>4, <1>5, <2>1, <2>2
<1>7. \A k \in 1 .. Len(c) : c[k] \in W
  BY <1>6
<1>8. x = t
  <2>1. \A k \in Len(s) + 1 .. Len(s) + Len(t) : c[k] \in W
    BY <1>2, <1>6, <1>7
  <2>2. /\ x \in Seq(W)
        /\ Len(x) = IF Len(s) + 1 <= Len(s) + Len(t)
                    THEN (Len(s) + Len(t)) - (Len(s) + 1) + 1 ELSE 0
        /\ \A k \in 1 .. (Len(s) + Len(t)) - (Len(s) + 1) + 1 : x[k] = c[(Len(s) + 1) + k - 1]
    BY <1>2, <2>1, SubSeqProperties
  <2> HIDE DEF x
  <2>3. Len(x) = Len(t)
    BY <1>2, <2>2
  <2>4. ASSUME NEW k \in 1 .. Len(t) PROVE x[k] = t[k]
    <3>1. /\ k \in 1 .. (Len(s) + Len(t)) - (Len(s) + 1) + 1
          /\ (Len(s) + 1) + k - 1 = Len(s) + k /\ k \in 1 .. Len(t) + Len(u) /\ k <= Len(t)
      BY <1>2
    <3> QED BY <1>6, <2>2, <3>1
  <2> QED BY <1>1, <2>2, <2>3, <2>4, SeqEqual
<1>9. y = u
  <2>0. m = Len(s) + Len(t)
    OBVIOUS
  <2> HIDE DEF m
  <2>1. m \in Nat /\ m + Len(u) = Len(c)
    BY <1>2, <1>6, <2>0
  <2>2. \A k \in m + 1 .. m + Len(u) : c[k] \in W
    BY <1>2, <1>6, <1>7, <2>0
  <2>4. \A k \in 1 .. Len(u) : c[m + k] = u[k]
    <3> SUFFICES ASSUME NEW k \in 1 .. Len(u) PROVE c[m + k] = u[k]
      OBVIOUS
    <3>1. /\ Len(t) + k \in 1 .. Len(t) + Len(u) /\ ~(Len(t) + k <= Len(t))
          /\ (Len(t) + k) - Len(t) = k /\ Len(s) + (Len(t) + k) = m + k
      BY <1>2, <2>0
    <3> QED BY <1>6, <3>1
  <2>5. /\ y \in Seq(W)
        /\ Len(y) = IF m + 1 <= m + Len(u) THEN (m + Len(u)) - (m + 1) + 1 ELSE 0
        /\ \A k \in 1 .. (m + Len(u)) - (m + 1) + 1 : y[k] = c[(m + 1) + k - 1]
    BY <1>2, <2>1, <2>2, SubSeqProperties
  <2> HIDE DEF y
  <2>6. Len(y) = Len(u)
    BY <1>2, <2>1, <2>5
  <2>7. ASSUME NEW k \in 1 .. Len(u) PROVE y[k] = u[k]
    <3>1. k \in 1 .. (m + Len(u)) - (m + 1) + 1 /\ (m + 1) + k - 1 = m + k
      BY <1>2, <2>1
    <3> QED BY <2>4, <2>5, <3>1
  <2> QED BY <1>1, <2>5, <2>6, <2>7, SeqEqual
<1> QED BY <1>8, <1>9 DEF c, Stands

\* The immediate field stands where tasm_get_instr_imm_offset says, and holds
\* as many trytes of the value as it is long.
LEMMA FieldAtOffset ==
  ASSUME NEW ins \in InstrItem, IsValid(ins), NEW val,
         InstrFormat(ins) \in {"ri", "ir", "rri", "irr", "rra"}
  PROVE  /\ ImmOffset(ins) # 0
         /\ Stands(ValueTrytes(val, FieldSize(ins)), Encoding(ins, val), ImmOffset(ins))
<1> DEFINE fmt  == InstrFormat(ins)
           r    == Len(RegFields(ins))
           v    == FieldSize(ins)
           head == Header(ins)
           regs == RegTrytes(RegFields(ins))
           imm  == ValueTrytes(val, v)
           W    == {head[k] : k \in 1 .. HEADER_SIZE} \union {regs[k] : k \in 1 .. r}
                   \union {imm[k] : k \in 1 .. v}
<1>1. r \in Nat /\ r = FieldCount(fmt)
  BY RegFieldsLength DEF FieldCount
<1>2. ImmSize(OperandWidth(ins)) \in Nat
  BY ValidWidth, ImmSizeType
<1>3. v \in Nat
  BY <1>2 DEF FieldSize, ADDR_SIZE
<1>4. head \in Seq(W) /\ Len(head) = HEADER_SIZE
  BY DEF Header, HEADER_SIZE
<1>5. regs \in Seq(W) /\ Len(regs) = r
  BY <1>1 DEF RegTrytes
<1>6. imm \in Seq(W) /\ Len(imm) = v
  BY <1>3 DEF ValueTrytes
<1>7. Encoding(ins, val) = head \o (IF fmt \in {"ir", "irr"} THEN imm \o regs ELSE regs \o imm)
  BY DEF Encoding
<1>8. ImmOffset(ins) = (IF fmt \in {"ir", "irr"} THEN HEADER_SIZE ELSE HEADER_SIZE + r)
      /\ ImmOffset(ins) # 0
  BY <1>1 DEF ImmOffset, FieldCount, HEADER_SIZE
<1> HIDE DEF head, regs, imm, W, r, v
<1>9. CASE fmt \in {"ir", "irr"}
  <2>1. Stands(imm, head \o (imm \o regs), Len(head))
    BY <1>4, <1>5, <1>6, PartsOfConcat
  <2>2. Stands(imm, Encoding(ins, val), HEADER_SIZE)
    BY <1>4, <1>7, <1>9, <2>1
  <2> QED BY <1>8, <1>9, <2>2 DEF imm, v
<1>10. CASE fmt \notin {"ir", "irr"}
  <2>1. Stands(imm, head \o (regs \o imm), Len(head) + Len(regs))
    BY <1>4, <1>5, <1>6, PartsOfConcat
  <2>2. Stands(imm, Encoding(ins, val), HEADER_SIZE + r)
    BY <1>4, <1>5, <1>7, <1>10, <2>1
  <2> QED BY <1>8, <1>10, <2>2 DEF imm, v
<1> QED BY <1>9, <1>10

-----------------------------------------------------------------------------
(* The register fields *)

\* The elements of a short tuple.
LEMMA TupleElements ==
  ASSUME NEW a, NEW b, NEW c
  PROVE  /\ {<<a>>[k] : k \in DOMAIN <<a>>} = {a}
         /\ {<<a, b>>[k] : k \in DOMAIN <<a, b>>} = {a, b}
         /\ {<<a, b, c>>[k] : k \in DOMAIN <<a, b, c>>} = {a, b, c}
<1>1. DOMAIN <<a>> = {1} /\ DOMAIN <<a, b>> = {1, 2} /\ DOMAIN <<a, b, c>> = {1, 2, 3}
  OBVIOUS
<1>2. <<a>>[1] = a /\ <<a, b>>[1] = a /\ <<a, b>>[2] = b
      /\ <<a, b, c>>[1] = a /\ <<a, b, c>>[2] = b /\ <<a, b, c>>[3] = c
  OBVIOUS
<1> QED BY <1>1, <1>2

\* The registers of an instruction, and what is in its register fields.
RegsOf(ins)   == {ins.operands[k].id : k \in {j \in DOMAIN ins.operands : IsReg(ins.operands[j])}}
FieldsOf(ins) == {RegFields(ins)[k] : k \in DOMAIN RegFields(ins)}
Implicit      == {"az", "sp", "ip"}

\* Lowering puts every register into a field, and into the other fields only
\* registers that go without saying.
LEMMA FieldsHoldOperands ==
  ASSUME NEW ins \in InstrItem, IsValid(ins)
  PROVE  RegsOf(ins) \subseteq FieldsOf(ins) /\ FieldsOf(ins) \subseteq RegsOf(ins) \union Implicit
<1> DEFINE ops == ins.operands
           n == Len(ops)
           w == OperandWidth(ins)
           fmt == InstrFormat(ins)
           id(k) == ops[k].id
           Goal == RegsOf(ins) \subseteq FieldsOf(ins)
                   /\ FieldsOf(ins) \subseteq RegsOf(ins) \union Implicit
<1> USE DEF AluOps, MoveOps, UnaryOps, StepOps, PlainOps, LoadOps, StoreOps,
            PtrInOps, PtrOutOps, Formats, Implicit
<1>1. ops \in Seq(Operand) /\ n \in Nat /\ DOMAIN ops = 1 .. n /\ ins.opcode \in Opcodes
  BY InstrFacts
<1>2. ~WidthsConflict(ins) /\ fmt \in Formats /\ fmt = FormatForWidth(ins, w)
  BY DEF InstrFormat, IsValid
<1>3. ASSUME NEW op, NEW rf, NEW if, ByKind(op, w, rf, if) \in Formats
      PROVE  \/ IsReg(op) /\ ByKind(op, w, rf, if) = rf
             \/ ~IsReg(op) /\ ByKind(op, w, rf, if) = if
  BY <1>3 DEF ByKind, IsReg, IsImm, IsLabel
<1> HIDE DEF w
<1>4. CASE n = 0
  <2>1. DOMAIN ops = {}
    BY <1>1, <1>4
  <2>2. RegsOf(ins) = {}
    BY <2>1 DEF RegsOf
  <2>3. ins.opcode \in PlainOps
    BY <1>1, <1>2, <1>4 DEF FormatForWidth, AluFormat, UnaryFormat, StepFormat, LoadFormat,
                            StoreFormat, PtrInFormat, PtrOutFormat, PushFormat, PopFormat,
                            MoveFormat, JmpFormat, Opcodes
  <2>4. RegFields(ins) = <<>>
    BY <2>3 DEF RegFields, FieldsIn
  <2> QED BY <2>2, <2>4 DEF FieldsOf
<1>5. CASE n = 1
  <2>1. RegsOf(ins) = IF IsReg(ops[1]) THEN {id(1)} ELSE {}
    <3>1. DOMAIN ops = {1}
      BY <1>1, <1>5
    <3> QED BY <3>1 DEF RegsOf
  <2>2. CASE ins.opcode \in UnaryOps
    <3>1. IsReg(ops[1]) /\ fmt = ByKind(ops[1], w, "rr", "ri")
      BY <1>2, <1>5, <2>2 DEF FormatForWidth, UnaryFormat
    <3>2. fmt = "rr"
      BY <1>2, <1>3, <3>1
    <3>3. RegFields(ins) = <<id(1), id(1)>>
      BY <1>5, <2>2, <3>2 DEF RegFields, FieldsIn
    <3> QED BY <2>1, <3>1, <3>3, TupleElements DEF FieldsOf
  <2>3. CASE ins.opcode \in StepOps
    <3>1. IsReg(ops[1])
      BY <1>2, <1>5, <2>3 DEF FormatForWidth, StepFormat, AllRegs
    <3>2. RegFields(ins) = <<id(1), id(1)>>
      BY <1>5, <2>3 DEF RegFields, FieldsIn
    <3> QED BY <2>1, <3>1, <3>2, TupleElements DEF FieldsOf
  <2>4. CASE ins.opcode = "push"
    <3>1. fmt = ByKind(ops[1], w, "rr", "ir")
      BY <1>2, <2>4 DEF FormatForWidth, PushFormat
    <3>2. IsReg(ops[1]) <=> fmt = "rr"
      BY <1>2, <1>3, <3>1
    <3>3. RegFields(ins) = IF IsReg(ops[1]) THEN <<id(1), "sp">> ELSE <<"sp">>
      BY <2>4, <3>2 DEF RegFields, FieldsIn
    <3> QED BY <2>1, <3>3, TupleElements DEF FieldsOf
  <2>5. CASE ins.opcode = "pop"
    <3>1. IsReg(ops[1])
      BY <1>2, <2>5 DEF FormatForWidth, PopFormat
    <3>2. RegFields(ins) = <<id(1), "sp">>
      BY <2>5 DEF RegFields, FieldsIn
    <3> QED BY <2>1, <3>1, <3>2, TupleElements DEF FieldsOf
  <2>6. CASE ins.opcode = "jmp"
    <3>1. fmt = ByKind(ops[1], w, "rrr", "rri")
      BY <1>2, <2>6 DEF FormatForWidth, JmpFormat
    <3>2. IsReg(ops[1]) <=> fmt = "rrr"
      BY <1>2, <1>3, <3>1
    <3>3. RegFields(ins) = IF IsReg(ops[1]) THEN <<"ip", "az", id(1)>> ELSE <<"ip", "az">>
      BY <1>5, <2>6, <3>2, TupleConcat DEF RegFields, FieldsIn
    <3> QED BY <2>1, <3>3, TupleElements DEF FieldsOf
  <2>7. ins.opcode \in UnaryOps \union StepOps \union {"push", "pop", "jmp"}
    BY <1>1, <1>2, <1>5, SMTT(30) DEF FormatForWidth, AluFormat, PlainFormat, LoadFormat, StoreFormat,
                            PtrInFormat, PtrOutFormat, MoveFormat, Opcodes
  <2> QED BY <2>2, <2>3, <2>4, <2>5, <2>6, <2>7
<1>6. CASE n = 2
  <2>1. RegsOf(ins) = (IF IsReg(ops[1]) THEN {id(1)} ELSE {})
                      \union (IF IsReg(ops[2]) THEN {id(2)} ELSE {})
    <3>1. DOMAIN ops = {1, 2}
      BY <1>1, <1>6
    <3> QED BY <3>1 DEF RegsOf
  <2>2. CASE ins.opcode \in AluOps
    <3>1. IsReg(ops[1]) /\ fmt = ByKind(ops[2], w, "rrr", "rri")
      BY <1>2, <1>6, <2>2 DEF FormatForWidth, AluFormat, AllRegs
    <3>2. IsReg(ops[2]) <=> fmt = "rrr"
      BY <1>2, <1>3, <3>1
    <3>3. RegFields(ins) = IF IsReg(ops[2]) THEN <<id(1), id(1), id(2)>> ELSE <<id(1), id(1)>>
      <4>1. RegFields(ins) = <<id(1), id(1)>> \o (IF fmt = "rrr" THEN <<id(2)>> ELSE <<>>)
        BY <1>6, <2>2 DEF RegFields, FieldsIn
      <4> QED BY <3>2, <4>1, TupleConcat
    <3> QED BY <2>1, <3>1, <3>3, TupleElements DEF FieldsOf
  <2>3. CASE ins.opcode \in UnaryOps
    <3>1. IsReg(ops[1]) /\ fmt = ByKind(ops[2], w, "rr", "ri")
      BY <1>2, <1>6, <2>3 DEF FormatForWidth, UnaryFormat
    <3>2. IsReg(ops[2]) <=> fmt = "rr"
      BY <1>2, <1>3, <3>1
    <3>3. RegFields(ins) = IF IsReg(ops[2]) THEN <<id(1), id(2)>> ELSE <<id(1)>>
      BY <1>6, <2>3, <3>2 DEF RegFields, FieldsIn
    <3> QED BY <2>1, <3>1, <3>3, TupleElements DEF FieldsOf
  <2>4. CASE ins.opcode \in StepOps
    <3>1. IsReg(ops[1]) /\ IsReg(ops[2])
      BY <1>2, <1>6, <2>4 DEF FormatForWidth, StepFormat, AllRegs
    <3>2. RegFields(ins) = <<id(1), id(2)>>
      BY <1>6, <2>4 DEF RegFields, FieldsIn
    <3> QED BY <2>1, <3>1, <3>2, TupleElements DEF FieldsOf
  <2>5. CASE ins.opcode \in MoveOps
    <3>1. IsReg(ops[1]) /\ fmt = ByKind(ops[2], w, "rrr", "rri")
      BY <1>2, <2>5 DEF FormatForWidth, MoveFormat
    <3>2. IsReg(ops[2]) <=> fmt = "rrr"
      BY <1>2, <1>3, <3>1
    <3>3. CASE ins.opcode = "set"
      <4>1. RegFields(ins) = IF IsReg(ops[2]) THEN <<id(1), "az", id(2)>> ELSE <<id(1), "az">>
        BY <1>6, <3>2, <3>3, TupleConcat DEF RegFields, FieldsIn
      <4> QED BY <2>1, <3>1, <4>1, TupleElements DEF FieldsOf
    <3>4. CASE ins.opcode = "cmp"
      <4>1. RegFields(ins) = IF IsReg(ops[2]) THEN <<"az", id(1), id(2)>> ELSE <<"az", id(1)>>
        BY <1>6, <3>2, <3>4, TupleConcat DEF RegFields, FieldsIn
      <4> QED BY <2>1, <3>1, <4>1, TupleElements DEF FieldsOf
    <3> QED BY <2>5, <3>3, <3>4
  <2>6. CASE ins.opcode \in LoadOps \union StoreOps
    <3>1. CASE IsReg(ops[1])
      <4>1. fmt = MemFormat(ops)
        BY <1>2, <1>6, <2>6, <3>1 DEF FormatForWidth, LoadFormat, StoreFormat
      <4>2. fmt \in {"rrr", "rra"} /\ (IsReg(ops[2]) <=> fmt = "rrr")
        <5>1. 2 \in 2 .. n /\ \A k \in 2 .. n : k = 2
          BY <1>6
        <5>2. {k \in 2 .. n : ~IsReg(ops[k])} = IF IsReg(ops[2]) THEN {} ELSE {2}
          BY <5>1
        <5> QED BY <1>2, <4>1, <5>2 DEF MemFormat
      <4>3. RegFields(ins) = IF IsReg(ops[2]) THEN <<id(1), id(2), "az">> ELSE <<id(1), "az">>
        BY <1>6, <2>6, <4>2 DEF RegFields, FieldsIn
      <4> QED BY <2>1, <3>1, <4>3, TupleElements DEF FieldsOf
    <3>2. CASE ~IsReg(ops[1])
      <4>1. fmt = "irr" /\ IsReg(ops[2])
        BY <1>2, <1>6, <2>6, <3>2 DEF FormatForWidth, LoadFormat, StoreFormat, AllRegs
      <4>2. RegFields(ins) = <<id(2), "az">>
        BY <1>6, <2>6, <4>1 DEF RegFields, FieldsIn
      <4> QED BY <2>1, <3>2, <4>1, <4>2, TupleElements DEF FieldsOf
    <3> QED BY <3>1, <3>2
  <2>7. CASE ins.opcode \in PtrInOps
    <3>1. IsReg(ops[1]) /\ IsReg(ops[2])
      BY <1>2, <2>7 DEF FormatForWidth, PtrInFormat, AllRegs
    <3>2. RegFields(ins) = <<id(1), id(2)>>
      BY <2>7 DEF RegFields, FieldsIn
    <3> QED BY <2>1, <3>1, <3>2, TupleElements DEF FieldsOf
  <2>8. CASE ins.opcode \in PtrOutOps
    <3>1. IsReg(ops[2]) /\ fmt = ByKind(ops[1], w, "rr", "ir")
      BY <1>2, <2>8 DEF FormatForWidth, PtrOutFormat
    <3>2. IsReg(ops[1]) <=> fmt = "rr"
      BY <1>2, <1>3, <3>1
    <3>3. RegFields(ins) = IF IsReg(ops[1]) THEN <<id(1), id(2)>> ELSE <<id(2)>>
      BY <2>8, <3>2 DEF RegFields, FieldsIn
    <3> QED BY <2>1, <3>1, <3>3, TupleElements DEF FieldsOf
  <2>9. ins.opcode \notin PlainOps \union {"push", "pop", "jmp"}
    <3>1. CASE ins.opcode \in PlainOps
      <4>1. ops = <<>>
        BY <1>2, <3>1 DEF FormatForWidth, PlainFormat
      <4> QED BY <1>6, <4>1
    <3>2. CASE ins.opcode \in {"push", "pop", "jmp"}
      BY <1>2, <1>6, <3>2 DEF FormatForWidth, PushFormat, PopFormat, JmpFormat
    <3> QED BY <3>1, <3>2
  <2> QED BY <1>1, <2>2, <2>3, <2>4, <2>5, <2>6, <2>7, <2>8, <2>9 DEF Opcodes
<1>7. CASE n = 3
  <2>1. RegsOf(ins) = (IF IsReg(ops[1]) THEN {id(1)} ELSE {})
                      \union (IF IsReg(ops[2]) THEN {id(2)} ELSE {})
                      \union (IF IsReg(ops[3]) THEN {id(3)} ELSE {})
    <3>1. DOMAIN ops = {1, 2, 3}
      BY <1>1, <1>7
    <3> QED BY <3>1 DEF RegsOf
  <2>2. CASE ins.opcode \in AluOps
    <3>1. IsReg(ops[1]) /\ IsReg(ops[2]) /\ fmt = ByKind(ops[3], w, "rrr", "rri")
      BY <1>2, <1>7, <2>2 DEF FormatForWidth, AluFormat, AllRegs
    <3>2. IsReg(ops[3]) <=> fmt = "rrr"
      BY <1>2, <1>3, <3>1
    <3>3. RegFields(ins) = IF IsReg(ops[3]) THEN <<id(1), id(2), id(3)>> ELSE <<id(1), id(2)>>
      BY <1>7, <2>2, <3>2, TupleConcat DEF RegFields, FieldsIn
    <3> QED BY <2>1, <3>1, <3>3, TupleElements DEF FieldsOf
  <2>3. CASE ins.opcode \in LoadOps \union StoreOps
    <3>1. CASE IsReg(ops[1])
      <4> DEFINE others == {k \in 2 .. n : ~IsReg(ops[k])}
      <4>1. fmt = MemFormat(ops)
        BY <1>2, <1>7, <2>3, <3>1 DEF FormatForWidth, LoadFormat, StoreFormat
      <4>2. others = (IF IsReg(ops[2]) THEN {} ELSE {2}) \union (IF IsReg(ops[3]) THEN {} ELSE {3})
        <5>1. 2 .. n = {2, 3}
          BY <1>7
        <5> QED BY <5>1
      <4>3. IF IsReg(ops[2]) /\ IsReg(ops[3]) THEN fmt = "rrr"
            ELSE fmt = "rra" /\ (IsReg(ops[2]) <=> ~IsReg(ops[3]))
        BY <1>2, <4>1, <4>2 DEF MemFormat
      <4>4. RegFields(ins) = IF fmt = "rrr" THEN <<id(1), id(2), id(3)>>
                             ELSE IF IsReg(ops[2]) THEN <<id(1), id(2)>> ELSE <<id(1), id(3)>>
        BY <1>7, <2>3, <4>3 DEF RegFields, FieldsIn
      <4>5. CASE fmt = "rrr"
        BY <2>1, <3>1, <4>3, <4>4, <4>5, TupleElements DEF FieldsOf
      <4>6. CASE fmt # "rrr"
        BY <2>1, <3>1, <4>3, <4>4, <4>6, TupleElements DEF FieldsOf
      <4> QED BY <4>5, <4>6
    <3>2. CASE ~IsReg(ops[1])
      <4>1. fmt = "irr" /\ IsReg(ops[2]) /\ IsReg(ops[3])
        BY <1>2, <1>7, <2>3, <3>2 DEF FormatForWidth, LoadFormat, StoreFormat, AllRegs
      <4>2. RegFields(ins) = <<id(2), id(3)>>
        BY <1>7, <2>3, <4>1 DEF RegFields, FieldsIn
      <4> QED BY <2>1, <3>2, <4>1, <4>2, TupleElements DEF FieldsOf
    <3> QED BY <3>1, <3>2
  <2>4. ins.opcode \in AluOps \union LoadOps \union StoreOps
    BY <1>1, <1>2, <1>7, SMTT(30) DEF FormatForWidth, UnaryFormat, StepFormat, PlainFormat, PtrInFormat,
                            PtrOutFormat, PushFormat, PopFormat, MoveFormat, JmpFormat, Opcodes
  <2> QED BY <2>2, <2>3, <2>4
<1>8. n \in 0 .. 3
  BY <1>1, <1>2 DEF FormatForWidth, AluFormat, UnaryFormat, StepFormat, PlainFormat, LoadFormat,
                    StoreFormat, PtrInFormat, PtrOutFormat, PushFormat, PopFormat, MoveFormat,
                    JmpFormat, Opcodes
<1>9. n = 0 \/ n = 1 \/ n = 2 \/ n = 3
  BY <1>8
<1> QED BY <1>4, <1>5, <1>6, <1>7, <1>9

-----------------------------------------------------------------------------
(* What is accepted *)

HasString(ins) == \E k \in DOMAIN ins.operands : ins.operands[k].kind = "str"

\* Validation gives up without a diagnostic at a string only.
LEMMA DroppedForString ==
  ASSUME NEW ins \in InstrItem, ~IsValid(ins), InstrFormat(ins) # "rejected"
  PROVE  HasString(ins)
<1> DEFINE ops == ins.operands
           n == Len(ops)
           w == OperandWidth(ins)
           fmt == InstrFormat(ins)
           Known == Formats \union {"rejected"}
<1> USE DEF AluOps, MoveOps, UnaryOps, StepOps, PlainOps, LoadOps, StoreOps,
            PtrInOps, PtrOutOps, Formats
<1>1. ops \in Seq(Operand) /\ n \in Nat /\ DOMAIN ops = 1 .. n /\ ins.opcode \in Opcodes
  BY InstrFacts
<1>2. fmt = FormatForWidth(ins, w) /\ fmt \notin Known
  BY DEF InstrFormat, IsValid
<1>3. ASSUME NEW k \in DOMAIN ops, NEW rf \in Formats, NEW if \in Formats,
             ByKind(ops[k], w, rf, if) \notin Known
      PROVE  HasString(ins)
  <2>1. ops[k] \in Operand
    BY <1>1
  <2>2. ops[k].kind = "str"
    BY <1>3, <2>1, OperandFacts DEF ByKind, IsReg, IsImm, IsLabel
  <2> QED BY <2>2 DEF HasString
<1> HIDE DEF w
<1>4. MemFormat(ops) \in Known
  BY DEF MemFormat
<1>5. CASE ins.opcode \in AluOps
  <2>1. n \in {2, 3} /\ fmt = ByKind(ops[n], w, "rrr", "rri")
    BY <1>2, <1>5 DEF FormatForWidth, AluFormat
  <2>2. n \in DOMAIN ops
    <3> HIDE DEF n
    <3> QED BY <1>1, <2>1
  <2> QED BY <1>2, <1>3, <2>1, <2>2
<1>6. CASE ins.opcode \in UnaryOps
  <2>1. n \in {1, 2} /\ fmt = ByKind(ops[n], w, "rr", "ri")
    BY <1>2, <1>6 DEF FormatForWidth, UnaryFormat
  <2>2. n \in DOMAIN ops
    <3> HIDE DEF n
    <3> QED BY <1>1, <2>1
  <2> QED BY <1>2, <1>3, <2>1, <2>2
<1>7. CASE ins.opcode \in PtrOutOps \union {"push"}
  <2>1. n \in {1, 2} /\ fmt = ByKind(ops[1], w, "rr", "ir")
    BY <1>2, <1>7 DEF FormatForWidth, PtrOutFormat, PushFormat
  <2>2. 1 \in DOMAIN ops
    BY <1>1, <2>1
  <2> QED BY <1>2, <1>3, <2>1, <2>2
<1>8. CASE ins.opcode \in MoveOps \union {"jmp"}
  <2>1. n \in {1, 2} /\ fmt = ByKind(ops[n], w, "rrr", "rri")
    BY <1>2, <1>8 DEF FormatForWidth, MoveFormat, JmpFormat
  <2>2. n \in DOMAIN ops
    <3> HIDE DEF n
    <3> QED BY <1>1, <2>1
  <2> QED BY <1>2, <1>3, <2>1, <2>2
<1>9. ins.opcode \notin LoadOps \union StoreOps
  BY <1>2, <1>4 DEF FormatForWidth, LoadFormat, StoreFormat
<1>10. ins.opcode \notin StepOps \union PlainOps \union PtrInOps \union {"pop"}
  BY <1>2 DEF FormatForWidth, StepFormat, PlainFormat, PtrInFormat, PopFormat
<1> QED BY <1>1, <1>5, <1>6, <1>7, <1>8, <1>9, <1>10 DEF Opcodes

\* What validates, outside loads and stores, has one of the documented forms.
LEMMA ValidHasForm ==
  ASSUME NEW ins \in InstrItem, IsValid(ins), ins.opcode \notin LoadOps \union StoreOps
  PROVE  \E f \in DocumentedForms(ins.opcode) : HasForm(ins.operands, f)
<1> DEFINE ops == ins.operands
           n == Len(ops)
           w == OperandWidth(ins)
           fmt == InstrFormat(ins)
           Goal == \E f \in DocumentedForms(ins.opcode) : HasForm(ops, f)
<1> SUFFICES Goal
  OBVIOUS
<1> USE DEF AluOps, MoveOps, UnaryOps, StepOps, PlainOps, LoadOps, StoreOps,
            PtrInOps, PtrOutOps, Formats
<1>1. ops \in Seq(Operand) /\ n \in Nat /\ DOMAIN ops = 1 .. n /\ ins.opcode \in Opcodes
  BY InstrFacts
<1>2. fmt \in Formats /\ fmt = FormatForWidth(ins, w)
  BY DEF InstrFormat, IsValid
<1>3. ASSUME NEW op, NEW rf, NEW if, ByKind(op, w, rf, if) \in Formats
      PROVE  op.kind \in RI
  BY <1>3 DEF ByKind, IsReg, IsImm, IsLabel, RI, R, I
<1> HIDE DEF w
<1>4. ASSUME NEW A, n = 1, ops[1].kind \in A
      PROVE  HasForm(ops, <<A>>)
  BY <1>1, <1>4 DEF HasForm
<1>5. ASSUME NEW A, NEW B, n = 2, ops[1].kind \in A, ops[2].kind \in B
      PROVE  HasForm(ops, <<A, B>>)
  BY <1>1, <1>5 DEF HasForm
<1>6. ASSUME NEW A, NEW B, NEW C, n = 3, ops[1].kind \in A, ops[2].kind \in B, ops[3].kind \in C
      PROVE  HasForm(ops, <<A, B, C>>)
  BY <1>1, <1>6 DEF HasForm
<1>7. ASSUME NEW op, IsReg(op) PROVE op.kind \in R /\ op.kind \in RI
  BY <1>7 DEF IsReg, R, RI
<1> HIDE DEF Goal
<1>8. CASE ins.opcode \in AluOps
  <2>1. n \in {2, 3} /\ AllRegs(ops, 1, n - 1) /\ ops[n].kind \in RI
    BY <1>2, <1>3, <1>8 DEF FormatForWidth, AluFormat
  <2>2. DocumentedForms(ins.opcode) = {<<R, RI>>, <<R, R, RI>>}
    BY <1>8 DEF DocumentedForms
  <2>3. CASE n = 2
    <3>1. ops[1].kind \in R
      BY <1>7, <2>1, <2>3 DEF AllRegs
    <3>2. HasForm(ops, <<R, RI>>)
      BY <1>5, <2>1, <2>3, <3>1
    <3> QED BY <2>2, <3>2 DEF Goal
  <2>4. CASE n = 3
    <3>1. ops[1].kind \in R /\ ops[2].kind \in R
      BY <1>7, <2>1, <2>4 DEF AllRegs
    <3>2. HasForm(ops, <<R, R, RI>>)
      BY <1>6, <2>1, <2>4, <3>1
    <3> QED BY <2>2, <3>2 DEF Goal
  <2> QED BY <2>1, <2>3, <2>4
<1>9. CASE ins.opcode \in UnaryOps \union StepOps
  <2>1. n \in {1, 2} /\ ops[1].kind \in R /\ ops[n].kind \in RI
    <3>1. CASE ins.opcode \in UnaryOps
      BY <1>2, <1>3, <1>7, <3>1 DEF FormatForWidth, UnaryFormat
    <3>2. CASE ins.opcode \in StepOps
      <4>1. n \in {1, 2} /\ AllRegs(ops, 1, n)
        BY <1>2, <3>2 DEF FormatForWidth, StepFormat
      <4>2. IsReg(ops[1]) /\ IsReg(ops[n])
        BY <4>1 DEF AllRegs
      <4> QED BY <1>7, <4>1, <4>2
    <3> QED BY <1>9, <3>1, <3>2
  <2>2. DocumentedForms(ins.opcode) = {<<R>>, <<R, RI>>}
    BY <1>9 DEF DocumentedForms
  <2>3. HasForm(ops, <<R>>) \/ HasForm(ops, <<R, RI>>)
    BY <1>4, <1>5, <2>1
  <2> QED BY <2>2, <2>3 DEF Goal
<1>10. CASE ins.opcode \in PlainOps
  <2>1. ops = <<>>
    BY <1>2, <1>10 DEF FormatForWidth, PlainFormat
  <2>2. DocumentedForms(ins.opcode) = {<<>>}
    BY <1>10 DEF DocumentedForms
  <2>3. HasForm(ops, <<>>)
    BY <2>1 DEF HasForm
  <2> QED BY <2>2, <2>3 DEF Goal
<1>11. CASE ins.opcode \in PtrInOps
  <2>1. n = 2 /\ ops[1].kind \in R /\ ops[2].kind \in R
    BY <1>2, <1>7, <1>11 DEF FormatForWidth, PtrInFormat, AllRegs
  <2>2. DocumentedForms(ins.opcode) = {<<R, R>>}
    BY <1>11 DEF DocumentedForms
  <2>3. HasForm(ops, <<R, R>>)
    BY <1>5, <2>1
  <2> QED BY <2>2, <2>3 DEF Goal
<1>12. CASE ins.opcode \in PtrOutOps
  <2>1. n = 2 /\ ops[1].kind \in RI /\ ops[2].kind \in R
    BY <1>2, <1>3, <1>7, <1>12 DEF FormatForWidth, PtrOutFormat
  <2>2. DocumentedForms(ins.opcode) = {<<RI, R>>}
    BY <1>12 DEF DocumentedForms
  <2>3. HasForm(ops, <<RI, R>>)
    BY <1>5, <2>1
  <2> QED BY <2>2, <2>3 DEF Goal
<1>13. CASE ins.opcode \in MoveOps
  <2>1. n = 2 /\ ops[1].kind \in R /\ ops[2].kind \in RI
    BY <1>2, <1>3, <1>7, <1>13 DEF FormatForWidth, MoveFormat
  <2>2. DocumentedForms(ins.opcode) = {<<R, RI>>}
    BY <1>13 DEF DocumentedForms
  <2>3. HasForm(ops, <<R, RI>>)
    BY <1>5, <2>1
  <2> QED BY <2>2, <2>3 DEF Goal
<1>14. CASE ins.opcode \in {"jmp", "push"}
  <2>1. n = 1 /\ ops[1].kind \in RI
    BY <1>2, <1>3, <1>14 DEF FormatForWidth, JmpFormat, PushFormat
  <2>2. DocumentedForms(ins.opcode) = {<<RI>>}
    BY <1>14 DEF DocumentedForms
  <2>3. HasForm(ops, <<RI>>)
    BY <1>4, <2>1
  <2> QED BY <2>2, <2>3 DEF Goal
<1>15. CASE ins.opcode = "pop"
  <2>1. n = 1 /\ ops[1].kind \in R
    BY <1>2, <1>7, <1>15 DEF FormatForWidth, PopFormat
  <2>2. DocumentedForms(ins.opcode) = {<<R>>}
    BY <1>15 DEF DocumentedForms
  <2>3. HasForm(ops, <<R>>)
    BY <1>4, <2>1
  <2> QED BY <2>2, <2>3 DEF Goal
<1> QED BY <1>1, <1>8, <1>9, <1>10, <1>11, <1>12, <1>13, <1>14, <1>15 DEF Opcodes

-----------------------------------------------------------------------------
(* The invariant *)

\* What is known of the instruction after each pass; with TypeOK, this is
\* inductive.
PassesAgree ==
  /\ instr \in Instrs
  /\ stage # "parsed" => size = InstrSize(instr)
  /\ stage \in {"parsed", "measured"} => reported \in 0 .. 1 /\ code = <<>>
  /\ stage # "parsed" /\ InstrFormat(instr) = "rejected" => reported > 0
  /\ stage = "measured" /\ IsValid(instr) => reported = 0

\* What was emitted is the encoding of a valid instruction with a value its
\* operand can have, and each of its labels is relocated or reported.
EmittedIsEncoding ==
  code # <<>> =>
    /\ IsValid(instr)
    /\ code = Encoding(instr, value)
    /\ value \in Values(Addresses \union {0})
    /\ stage = "tobj" =>
         /\ DOMAIN relocs \subseteq LabelOperands
         /\ reported = Cardinality(LabelOperands \ DOMAIN relocs)

\* If nothing was emitted, there is a reason.
SilenceHasReason ==
  stage \in {"raw", "tobj"} /\ code = <<>> => reported > 0 \/ HasString(instr)

IInv == TypeOK /\ PassesAgree /\ EmittedIsEncoding /\ SilenceHasReason

\* The values a resolver can give are numbers.
LEMMA ValuesType ==
  ASSUME instr \in InstrItem, IsValid(instr), NEW A, A \subseteq Nat
  PROVE  Values(A) \subseteq Nat
<1> DEFINE op == ImmOperand(instr)
<1>1. ASSUME op # NoOperand, IsImm(op) PROVE op.val \in Nat
  BY <1>1, ImmOperandIsOperand, OperandFacts DEF IsImm
<1> QED BY <1>1 DEF Values, StepImmediate

\* Only a string has none, if a label has one.
LEMMA NoValueForString ==
  ASSUME instr \in InstrItem, IsValid(instr), NEW A, A # {}, Values(A) = {}
  PROVE  HasString(instr)
<1> DEFINE ops == instr.operands
           op == ImmOperand(instr)
           others == {k \in DOMAIN ops : ~IsReg(ops[k])}
<1>1. op # NoOperand /\ ~IsImm(op) /\ ~IsLabel(op)
  BY DEF Values
<1>2. \E k \in DOMAIN ops : others = {k} /\ op = ops[k]
  BY <1>1, OnlyOneIsNoRegister
<1>3. PICK k \in DOMAIN ops : others = {k} /\ op = ops[k]
  BY <1>2
<1>4. k \in others
  BY <1>3
<1>5. ops[k] \in Operand
  BY InstrFacts
<1>6. ops[k].kind = "str"
  BY <1>1, <1>3, <1>4, <1>5, OperandFacts DEF IsReg, IsImm, IsLabel
<1> QED BY <1>6 DEF HasString

\* An encoding is never empty.
LEMMA EncodingNotEmpty ==
  ASSUME NEW ins \in InstrItem, IsValid(ins), NEW val
  PROVE  Encoding(ins, val) # <<>>
<1>1. ImmSize(OperandWidth(ins)) \in Nat
  BY ValidWidth, ImmSizeType DEF IsValid, Formats
<1>2. InstrSize(ins) \in Nat /\ InstrSize(ins) # 0
  BY <1>1 DEF InstrSize, IsValid, Formats, HEADER_SIZE, ADDR_SIZE
<1>3. Len(Encoding(ins, val)) # 0
  BY <1>2, EncodingLength
<1> QED BY <1>3

\* A valid instruction has one label operand if its immediate is a label, and
\* that operand is its immediate; otherwise it has none.
LEMMA LabelIsImmediate ==
  ASSUME instr \in InstrItem, IsValid(instr)
  PROVE  \/ /\ LabelOperands = {}
            /\ ~(ImmOperand(instr) # NoOperand /\ IsLabel(ImmOperand(instr)))
         \/ \E k \in DOMAIN instr.operands :
              /\ LabelOperands = {k}
              /\ ImmOperand(instr) = instr.operands[k]
              /\ ImmOperand(instr) # NoOperand /\ IsLabel(ImmOperand(instr))
<1> DEFINE ops == instr.operands
           others == {j \in DOMAIN ops : ~IsReg(ops[j])}
<1>1. LabelOperands = {j \in others : IsLabel(ops[j])}
  BY DEF LabelOperands, IsLabel, IsReg
<1>2. CASE others = {} /\ ImmOperand(instr) = NoOperand
  BY <1>1, <1>2
<1>3. CASE \E k \in DOMAIN ops : others = {k} /\ ImmOperand(instr) = ops[k] /\ ops[k] # NoOperand
  <2>1. PICK k \in DOMAIN ops : others = {k} /\ ImmOperand(instr) = ops[k] /\ ops[k] # NoOperand
    BY <1>3
  <2>2. LabelOperands = IF IsLabel(ops[k]) THEN {k} ELSE {}
    BY <1>1, <2>1
  <2> QED BY <2>1, <2>2
<1> QED BY <1>2, <1>3, OnlyOneIsNoRegister

\* What pass 3 does about the label operands, as numbers.
LEMMA RelocateFacts ==
  ASSUME instr \in InstrItem, IsValid(instr), reported = 0, Relocate(LabelOperands)
  PROVE  /\ DOMAIN relocs' \subseteq LabelOperands
         /\ reported' = Cardinality(LabelOperands \ DOMAIN relocs')
         /\ reported' \in 0 .. 1
<1>1. PICK known \in SUBSET LabelOperands :
        /\ relocs' = [k \in known |-> ImmOffset(instr)]
        /\ reported' = 0 + Cardinality(LabelOperands \ known)
  BY DEF Relocate
<1>2. DOMAIN relocs' = known
  BY <1>1
<1>3. Cardinality(LabelOperands \ known) \in 0 .. 1
  <2>1. LabelOperands = {} \/ \E k : LabelOperands = {k}
    BY LabelIsImmediate
  <2>2. LabelOperands \ known = {} \/ \E k : LabelOperands \ known = {k}
    BY <2>1
  <2> QED BY <2>2, FS_EmptySet, FS_Singleton
<1> QED BY <1>1, <1>2, <1>3

\* An instruction no pass has seen yet satisfies the invariant.
LEMMA InitIInv == Init => IInv
BY InstrPathAssumption
   DEF Init, IInv, TypeOK, PassesAgree, EmittedIsEncoding, SilenceHasReason

\* A pass that emits, or does not.
LEMMA EmitIInv ==
  ASSUME IInv, stage = "measured", UNCHANGED <<instr, size>>,
         stage' \in {"raw", "tobj"}, NEW A, A # {}, A \subseteq Addresses \union {0},
         IF IsValid(instr) /\ Values(A) # {}
         THEN \E v \in Values(A) : value' = v /\ code' = Encoding(instr, v)
         ELSE UNCHANGED <<code, value>>,
         IF stage' = "tobj" /\ IsValid(instr) /\ Values(A) # {}
         THEN Relocate(LabelOperands)
         ELSE UNCHANGED <<relocs, reported>>
  PROVE  IInv'
<1>1. instr \in InstrItem /\ Len(instr.operands) <= 3 /\ Addresses \subseteq Nat
  BY InstrPathAssumption DEF IInv, PassesAgree
<1>2. code = <<>> /\ A \subseteq Nat /\ reported \in 0 .. 1
  BY <1>1 DEF IInv, PassesAgree
<1>7. IsValid(instr) => reported = 0 /\ InstrFormat(instr) # "rejected"
  BY DEF IInv, PassesAgree, IsValid, Formats
<1>8. LabelOperands' = LabelOperands
  BY DEF LabelOperands
<1>9. stage' = "tobj" /\ IsValid(instr) /\ Values(A) # {} =>
        /\ DOMAIN relocs' \subseteq LabelOperands
        /\ reported' = Cardinality(LabelOperands \ DOMAIN relocs')
        /\ reported' \in 0 .. 1
  BY <1>1, <1>7, RelocateFacts
<1>3. DOMAIN relocs' \subseteq 1 .. 3 /\ reported' \in 0 .. 1
  <2>1. instr.operands \in Seq(Operand)
    BY <1>1, InstrFacts
  <2>2. LabelOperands \subseteq 1 .. 3
    BY <1>1, <2>1 DEF LabelOperands
  <2>3. \/ UNCHANGED <<relocs, reported>>
        \/ DOMAIN relocs' \subseteq LabelOperands /\ reported' \in 0 .. 1
    BY <1>9
  <2> QED BY <1>2, <2>2, <2>3 DEF IInv, TypeOK
<1>4. PassesAgree'
  <2>1. (instr \in Instrs)' /\ (stage # "parsed" => size = InstrSize(instr))'
    BY DEF IInv, PassesAgree
  <2>2. InstrFormat(instr)' = InstrFormat(instr)
    OBVIOUS
  <2>3. InstrFormat(instr) = "rejected" => reported' > 0
    BY <1>7 DEF IInv, PassesAgree
  <2> QED BY <2>1, <2>2, <2>3 DEF PassesAgree
<1>5. CASE IsValid(instr) /\ Values(A) # {}
  <2>1. PICK v \in Values(A) : value' = v /\ code' = Encoding(instr, v)
    BY <1>5
  <2>2. v \in Nat
    BY <1>1, <1>2, <1>5, ValuesType
  <2>3. code' # <<>>
    BY <1>1, <1>5, <2>1, EncodingNotEmpty
  <2>4. v \in Values(Addresses \union {0})
    BY DEF Values
  <2>5. Values(Addresses \union {0})' = Values(Addresses \union {0})
    BY DEF Values
  <2>6. EmittedIsEncoding'
    BY <1>5, <1>8, <1>9, <2>1, <2>4, <2>5 DEF EmittedIsEncoding
  <2> QED BY <1>3, <1>4, <2>1, <2>2, <2>3, <2>6 DEF IInv, TypeOK, SilenceHasReason
<1>6. CASE ~(IsValid(instr) /\ Values(A) # {})
  <2>1. UNCHANGED <<code, value, reported>>
    BY <1>6
  <2>2. reported > 0 \/ HasString(instr)
    <3>1. CASE IsValid(instr)
      BY <1>1, <1>6, <3>1, NoValueForString
    <3>2. CASE ~IsValid(instr) /\ InstrFormat(instr) = "rejected"
      BY <3>2 DEF IInv, PassesAgree
    <3>3. CASE ~IsValid(instr) /\ InstrFormat(instr) # "rejected"
      BY <1>1, <3>3, DroppedForString
    <3> QED BY <3>1, <3>2, <3>3
  <2> QED BY <1>2, <1>3, <1>4, <2>1, <2>2
          DEF IInv, TypeOK, EmittedIsEncoding, SilenceHasReason
<1> QED BY <1>5, <1>6

\* Every pass keeps the invariant, whichever values its labels resolve to.
LEMMA NextIInv == IInv /\ [Next]_vars => IInv'
<1> SUFFICES ASSUME IInv, [Next]_vars PROVE IInv'
  OBVIOUS
<1>1. instr \in InstrItem
  BY DEF IInv, TypeOK
<1>2. CASE Measure
  <2>1. InstrSize(instr) \in Nat
    BY <1>1, InstrSizeType
  <2>2. IsValid(instr) => InstrFormat(instr) # "rejected"
    BY DEF IsValid, Formats
  <2>3. UNCHANGED <<instr, code, value, relocs>> /\ stage' = "measured" /\ stage = "parsed"
    BY <1>2 DEF Measure
  <2>4. reported' \in 0 .. 1 /\ code' = <<>>
    BY <1>2, <2>3 DEF Measure, IInv, PassesAgree
  <2>5. (IsValid(instr) => reported = 0)' /\ (InstrFormat(instr) = "rejected" => reported > 0)'
    BY <1>2, <2>2, <2>3 DEF Measure
  <2>6. PassesAgree'
    BY <1>2, <2>3, <2>4, <2>5 DEF Measure, IInv, PassesAgree
  <2>7. TypeOK'
    BY <1>2, <2>1, <2>3, <2>4 DEF Measure, IInv, TypeOK
  <2> QED BY <2>3, <2>4, <2>6, <2>7
          DEF IInv, EmittedIsEncoding, SilenceHasReason
<1>3. CASE EmitRaw
  <2>1. Addresses # {} /\ Addresses \subseteq Addresses \union {0}
    BY InstrPathAssumption
  <2> QED BY <1>3, <2>1, EmitIInv DEF EmitRaw
<1>4. CASE UndefinedLabel
  <2>1. code = <<>> /\ reported \in 0 .. 1
    BY <1>4 DEF UndefinedLabel, IInv, PassesAgree
  <2>2. code' = <<>> /\ reported' > 0 /\ reported' \in 0 .. 2
    BY <1>4, <2>1 DEF UndefinedLabel
  <2> QED BY <1>4, <2>2
          DEF UndefinedLabel, IInv, TypeOK, PassesAgree, EmittedIsEncoding, SilenceHasReason
<1>5. CASE EmitTObj
  <2>1. {0} # {} /\ {0} \subseteq Addresses \union {0}
    OBVIOUS
  <2> QED BY <1>5, <2>1, EmitIInv DEF EmitTObj
<1>6. CASE UNCHANGED vars
  BY <1>6 DEF vars, IInv, TypeOK, PassesAgree, EmittedIsEncoding, SilenceHasReason, Values,
              LabelOperands
<1> QED BY <1>2, <1>3, <1>4, <1>5, <1>6 DEF Next

-----------------------------------------------------------------------------
(* Theorems *)

\* Types are kept: in particular an instruction is never reported more than twice.
THEOREM InstrPathTypeOK == Spec => []TypeOK
<1>1. Init => IInv
  BY InitIInv
<1>2. IInv /\ [Next]_vars => IInv'
  BY NextIInv
<1>3. IInv => TypeOK
  BY DEF IInv
<1> QED BY <1>1, <1>2, <1>3, PTL DEF Spec

\* sema.c's sizes and lower.c's encodings agree on every instruction: whatever
\* is emitted for one is as long as the space reserved for it.
THEOREM InstrPathReservedSpace == Spec => []ReservedSpaceIsFilled
<1>1. IInv => ReservedSpaceIsFilled
  BY EncodingLength DEF IInv, TypeOK, PassesAgree, EmittedIsEncoding, ReservedSpaceIsFilled, Emitted
<1> QED BY <1>1, InitIInv, NextIInv, PTL DEF Spec

\* No address is cut short: whatever the instruction and its width, the label
\* among its operands is encoded with all its trytes, where sema.c says that
\* the immediate field begins.
THEOREM InstrPathAddressField == Spec => []AddressFieldIsWhole
<1>1. ASSUME IInv, Emitted, NEW k \in DOMAIN instr.operands, IsLabel(instr.operands[k])
      PROVE  ImmOffset(instr) # 0 /\ Field = ValueTrytes(value, ADDR_SIZE)
  <2> DEFINE ops == instr.operands
             others == {j \in DOMAIN ops : ~IsReg(ops[j])}
             fmt == InstrFormat(instr)
  <2>1. instr \in InstrItem /\ IsValid(instr) /\ code = Encoding(instr, value)
    BY <1>1 DEF IInv, TypeOK, EmittedIsEncoding, Emitted
  <2>2. k \in others
    BY <1>1 DEF IsLabel, IsReg
  <2>3. PICK j \in DOMAIN ops : /\ others = {j}
                                /\ fmt \in {"ri", "ir", "rri", "irr", "rra"}
                                /\ fmt # "rra" /\ IsLabel(ops[j]) => OperandWidth(instr) = 48
    BY <2>1, <2>2, OnlyOneIsNoRegister
  <2>4. j = k
    BY <2>2, <2>3
  <2>5. FieldSize(instr) = ADDR_SIZE
    BY <1>1, <2>3, <2>4 DEF FieldSize, ImmSize, ADDR_SIZE
  <2>6. ImmOffset(instr) # 0 /\ Stands(ValueTrytes(value, ADDR_SIZE), code, ImmOffset(instr))
    BY <2>1, <2>3, <2>5, FieldAtOffset
  <2>7. Len(ValueTrytes(value, ADDR_SIZE)) = ADDR_SIZE
    BY DEF ValueTrytes, ADDR_SIZE
  <2> QED BY <2>6, <2>7 DEF Stands, Field
<1>2. IInv => AddressFieldIsWhole
  BY <1>1 DEF AddressFieldIsWhole
<1> QED BY <1>2, InitIInv, NextIInv, PTL DEF Spec

\* Of an instruction that is emitted into an object, the immediate field is
\* relocated or reported, once, if it stands for a label, and nothing else is.
THEOREM InstrPathOneRelocation == Spec => []OneRelocationPerField
<1>1. ASSUME IInv, stage = "tobj", code # <<>>
      PROVE  LET op == ImmOperand(instr)
             IN  /\ \A k \in DOMAIN relocs : instr.operands[k] = op
                 /\ Cardinality(DOMAIN relocs) + reported =
                      IF op # NoOperand /\ IsLabel(op) THEN 1 ELSE 0
  <2> DEFINE op == ImmOperand(instr)
             relocated == DOMAIN relocs
  <2>1. instr \in InstrItem /\ IsValid(instr)
    BY <1>1 DEF IInv, TypeOK, EmittedIsEncoding
  <2>2. relocated \subseteq LabelOperands /\ reported = Cardinality(LabelOperands \ relocated)
    BY <1>1 DEF IInv, EmittedIsEncoding
  <2>3. CASE LabelOperands = {} /\ ~(op # NoOperand /\ IsLabel(op))
    <3>1. relocated = {} /\ LabelOperands \ relocated = {}
      BY <2>2, <2>3
    <3>2. Cardinality(relocated) = 0 /\ reported = 0
      BY <2>2, <3>1, FS_EmptySet
    <3> QED BY <2>3, <3>1, <3>2
  <2>4. CASE \E k \in DOMAIN instr.operands :
               /\ LabelOperands = {k} /\ op = instr.operands[k]
               /\ op # NoOperand /\ IsLabel(op)
    <3>1. PICK k \in DOMAIN instr.operands :
                 /\ LabelOperands = {k} /\ op = instr.operands[k]
                 /\ op # NoOperand /\ IsLabel(op)
      BY <2>4
    <3>2. \/ relocated = {} /\ LabelOperands \ relocated = {k}
          \/ relocated = {k} /\ LabelOperands \ relocated = {}
      BY <2>2, <3>1
    <3>3. Cardinality({}) = 0 /\ Cardinality({k}) = 1
      BY FS_EmptySet, FS_Singleton
    <3>4. \/ Cardinality(relocated) = 0 /\ reported = 1
          \/ Cardinality(relocated) = 1 /\ reported = 0
      <4>1. CASE relocated = {} /\ LabelOperands \ relocated = {k}
        BY <2>2, <3>3, <4>1
      <4>2. CASE relocated = {k} /\ LabelOperands \ relocated = {}
        BY <2>2, <3>3, <4>2
      <4> QED BY <3>2, <4>1, <4>2
    <3>5. Cardinality(relocated) + reported = 1
      BY <3>4
    <3> QED BY <3>1, <3>2, <3>5
  <2> QED BY <2>1, <2>3, <2>4, LabelIsImmediate
<1>2. IInv => OneRelocationPerField
  BY <1>1 DEF OneRelocationPerField
<1> QED BY <1>2, InitIInv, NextIInv, PTL DEF Spec

\* Lowering loses no operand of any instruction.
THEOREM InstrPathNoOperandIsLost == Spec => []NoOperandIsLost
<1>1. ASSUME IInv, Emitted
      PROVE  /\ RegsOf(instr) \subseteq FieldsOf(instr)
             /\ FieldsOf(instr) \subseteq RegsOf(instr) \union {"az", "sp", "ip"}
             /\ \A k \in DOMAIN instr.operands :
                  IsImm(instr.operands[k]) => value = instr.operands[k].val
  <2> DEFINE ops == instr.operands
             others == {j \in DOMAIN ops : ~IsReg(ops[j])}
  <2>1. instr \in InstrItem /\ IsValid(instr) /\ value \in Values(Addresses \union {0})
    BY <1>1 DEF IInv, TypeOK, EmittedIsEncoding, Emitted
  <2>2. ASSUME NEW k \in DOMAIN ops, IsImm(ops[k]) PROVE value = ops[k].val
    <3>1. k \in others
      BY <2>2 DEF IsImm, IsReg
    <3>2. \E j \in DOMAIN ops : others = {j} /\ ImmOperand(instr) = ops[j] /\ ops[j] # NoOperand
      BY <2>1, <3>1, OnlyOneIsNoRegister
    <3>3. ImmOperand(instr) = ops[k] /\ ops[k] # NoOperand
      BY <3>1, <3>2
    <3> QED BY <2>1, <2>2, <3>3 DEF Values, IsImm, IsLabel
  <2> QED BY <2>1, <2>2, FieldsHoldOperands DEF Implicit
<1>2. IInv => NoOperandIsLost
  BY <1>1 DEF NoOperandIsLost, RegsOf, FieldsOf
<1> QED BY <1>2, InitIInv, NextIInv, PTL DEF Spec

\* An instruction that comes to nothing was reported, or has a string operand.
THEOREM InstrPathSilentOnlyForStrings == Spec => []SilentOnlyForStrings
<1>1. IInv => SilentOnlyForStrings
  BY DEF IInv, SilenceHasReason, SilentOnlyForStrings, HasString
<1> QED BY <1>1, InitIInv, NextIInv, PTL DEF Spec

\* No instruction but loads and stores is emitted with operands that are not
\* one of the documented lists.
THEOREM InstrPathOnlyDocumentedForms == Spec => []OnlyDocumentedForms
<1>1. ASSUME IInv, Emitted, instr.opcode \notin LoadOps \union StoreOps
      PROVE  HasDocumentedForm
  <2>1. instr \in InstrItem /\ IsValid(instr)
    BY <1>1 DEF IInv, TypeOK, EmittedIsEncoding, Emitted
  <2> QED BY <1>1, <2>1, ValidHasForm DEF HasDocumentedForm
<1>2. IInv => OnlyDocumentedForms
  BY <1>1 DEF OnlyDocumentedForms
<1> QED BY <1>2, InitIInv, NextIInv, PTL DEF Spec
=============================================================================
