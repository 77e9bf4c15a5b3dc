---------------------------- MODULE MCInstrPath ----------------------------
(***************************************************************************)
(* Every opcode with every list of up to three operands drawn from one     *)
(* operand of each kind, a whole and a narrow register, and AZ.            *)
(***************************************************************************)
EXTENDS InstrPath

MCOperands == {Reg("r0", 48), Reg("r1", 6), Reg("az", 48),
               Imm(5), Label("a", FALSE), Str(<<7>>, TRUE)}

MCOperandLists == UNION {[1 .. n -> MCOperands] : n \in 0 .. 3}

MCInstrs == {Instr(op, w, ops) : op \in Opcodes, w \in {NoWidth, 6, 48},
                                 ops \in MCOperandLists}

MCAddresses == {0, 9}
=============================================================================
