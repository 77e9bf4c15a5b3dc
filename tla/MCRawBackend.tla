---------------------------- MODULE MCRawBackend ----------------------------
(***************************************************************************)
(* Two families of small programs for the raw back end: every arrangement  *)
(* of up to five items around labels and scopes, and of up to three items  *)
(* around layout, errors and overlapping stores.                           *)
(***************************************************************************)
EXTENDS RawBackend

R0 == Reg("r0", 48)

MCScopeItems ==
  {Def("a", FALSE), Def("b", FALSE), Def("l", TRUE),
   Instr("jmp", NoWidth, <<Label("l", TRUE)>>),
   Dir("tryte", <<Label("a", FALSE)>>)}

MCLayoutItems ==
  {Def("a", FALSE), Def("l", TRUE),
   Instr("halt", NoWidth, <<>>),
   Instr("inc", NoWidth, <<R0>>),
   Instr("store", NoWidth, <<R0, Label("a", FALSE)>>),
   Instr("set", NoWidth, <<R0, Reg("r1", 6)>>),              \* rejected
   Instr("load", NoWidth, <<R0, Str(<<7>>, TRUE)>>),         \* valid, never resolved
   Dir("half", <<Imm(1), Label("l", TRUE), Imm(2)>>),
   Dir("tryte", <<Imm(1), R0>>),                             \* the register is no value
   Dir("string", <<Str(<<3, 4>>, TRUE), Str(<<5>>, TRUE)>>),
   Dir("string", <<Str(<<3>>, TRUE), Str(<<9>>, FALSE), Str(<<5>>, TRUE)>>),
   Dir("org", <<Imm(4)>>), Dir("org", <<Label("a", FALSE)>>), Dir("org", <<>>),
   Dir("section", <<Label("a", FALSE)>>)}

SeqsUpTo(S, n) == UNION {[1 .. m -> S] : m \in 0 .. n}

MCPrograms == SeqsUpTo(MCScopeItems, 5) \union SeqsUpTo(MCLayoutItems, 3)

MCGarbage == {1, 30}
=============================================================================
