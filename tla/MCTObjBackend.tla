--------------------------- MODULE MCTObjBackend ---------------------------
(***************************************************************************)
(* Four families of small programs for the object back end: labels,        *)
(* scopes and relocations; bindings; sections and layout; relocated fields *)
(* that an %org may go back over.                                          *)
(***************************************************************************)
EXTENDS TObjBackend

R0 == Reg("r0", 48)
Text == Dir("section", <<Label("text", FALSE)>>)
Data == Dir("section", <<Label("data", FALSE)>>)

SeqsUpTo(S, n) == UNION {[1 .. m -> S] : m \in 0 .. n}

\* Programs with first as their first item.
After(first, programs) == {<<first>> \o p : p \in programs}

MCScopeItems ==
  {Def("a", FALSE), Def("l", FALSE), Def("l", TRUE),
   Instr("jmp", NoWidth, <<Label("l", TRUE)>>),
   Instr("store", NoWidth, <<R0, Label("l", FALSE)>>),
   Dir("word", <<Label("l", TRUE), Imm(1), Label("a", FALSE)>>),
   Dir("extern", <<Label("l", FALSE), Label("a", FALSE)>>)}

MCBindingItems ==
  {Text, Def("a", FALSE), Def("l", TRUE),
   Dir("global", <<Label("a", FALSE), Label("l", TRUE)>>),
   Dir("weak", <<Label("a", FALSE)>>),
   Dir("local", <<Label("l", TRUE), Imm(1)>>)}

MCLayoutItems ==
  {Text, Data, Def("a", FALSE),
   Instr("halt", NoWidth, <<>>),
   Instr("push", 12, <<Imm(3)>>),
   Instr("set", NoWidth, <<R0, Reg("r1", 6)>>),
   Instr("load", NoWidth, <<R0, Str(<<7>>, TRUE)>>),
   Dir("half", <<Imm(1), Label("a", FALSE), Label("z", FALSE)>>),
   Dir("quarter", <<Label("a", FALSE)>>),
   Dir("word", <<R0>>),
   Dir("string", <<Str(<<3, 4>>, TRUE)>>),
   Dir("string", <<Str(<<5, 6>>, TRUE), Str(<<7>>, TRUE), Str(<<8>>, FALSE)>>),
   Dir("org", <<Imm(4)>>), Dir("org", <<Label("a", FALSE)>>), Dir("org", <<>>)}

MCOriginItems ==
  {Def("a", FALSE), Dir("word", <<Label("a", FALSE)>>), Dir("string", <<Str(<<3>>, TRUE)>>),
   Dir("org", <<Imm(4)>>), Dir("org", <<Imm(9)>>)}

MCPrograms ==
  SeqsUpTo(MCScopeItems, 3) \union After(Text, SeqsUpTo(MCScopeItems, 4))
  \union SeqsUpTo(MCBindingItems, 4)
  \union SeqsUpTo(MCLayoutItems, 2) \union After(Text, SeqsUpTo(MCLayoutItems, 3))
  \union After(Text, SeqsUpTo(MCOriginItems, 4))

MCGarbage == {30}
=============================================================================
